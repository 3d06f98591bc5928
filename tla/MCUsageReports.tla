---- MODULE MCUsageReports ----
EXTENDS UsageReports

File(day, kind, size, n) == [day |-> day, kind |-> kind, size |-> size, rows |-> n]

MCReports ==
    <<File(1, "audit", 1, 1), File(1, "usage", 1, 1),
      File(2, "note", 1, 0), File(2, "usage", 2, 2),
      File(3, "usage", 1, 1), File(3, "other", 1, 0), File(3, "usage", 1, 1)>>

MCLookbacks == <<1, 3>>
====
