---- MODULE UsageReports ----
(***************************************************************************)
(* b2_report_usage_growth and b2_rank_egress_leaders                       *)
(* (src/src/b2/insights.ts): a call lists the daily usage reports of an    *)
(* account, downloads the files it wants and ranks their rows.  Pages,     *)
(* bytes and time are counted for the whole call; candidates anew for each *)
(* listing, files and rows anew for each load.  Growth finds the latest    *)
(* day and the day a period earlier and loads both; egress loads every day *)
(* since a date, and looks for the latest day only when that gave nothing. *)
(*                                                                         *)
(* A key of the bucket is a number, in the order B2 lists them, which is   *)
(* the order of the days.  A row is a file and a position in it.           *)
(***************************************************************************)
EXTENDS Integers, Sequences, FiniteSets, FiniteSetsExt

CONSTANTS
    Reports,        \* key |-> [day, kind, size, rows]: what a bucket may hold
    Targets,        \* days a call may ask for
    Today, Lookbacks,
    PageSize,                   \* maxKeysPerPage
    MaxPages, MaxBytes,         \* of a call
    MaxCandidates,              \* of a listing
    MaxSelected, MaxRows        \* of a load

ASSUME ReportsAreFiles ==
    /\ IsFiniteSet(DOMAIN Reports) /\ DOMAIN Reports \subseteq Nat \ {0}
    /\ \A k \in DOMAIN Reports :
          Reports[k] \in [day : Nat \ {0}, kind : {"usage", "audit", "other", "note"},
                         size : Nat, rows : Nat]
ASSUME DaysAreNumbers ==
    /\ Today \in Nat /\ Targets \subseteq Nat \ {0}
    /\ Lookbacks \in Seq(Nat) /\ Lookbacks # <<>>
ASSUME FilesInOrder ==
    \A a, b \in DOMAIN Reports : a < b => Reports[a].day <= Reports[b].day
ASSUME BoundsArePositive ==
    {PageSize, MaxPages, MaxCandidates, MaxSelected, MaxBytes, MaxRows} \subseteq Nat \ {0}

VARIABLES
    call,       \* the tool and the day it asks for
    bucket,     \* the keys it holds; {0} when reports are not enabled
    outOfTime,  \* maxElapsedMs have passed
    stats,      \* pages, bytes, selected_keys, stop_reason
    step, load, \* what runs, and which load it is
    window,     \* position in Lookbacks
    at,         \* the continuation token: the last key listed
    keys,       \* candidates of the current listing
    queue, capped, stopDownloads, fetching,
    rows,       \* per load
    latest, from,
    answer

reportVars ==
    <<call, bucket, outOfTime, stats, step, load, window, at, keys, queue, capped,
      stopDownloads, fetching, rows, latest, from, answer>>
probing == <<window, latest, from>>
loading == <<load, queue, capped, stopDownloads, fetching, rows>>

NoDay == 0
Loads == {"period", "then", "now"}

ReportInit ==
    /\ call \in [tool : {"growth", "egress"}, target : Targets]
    /\ bucket \in (SUBSET DOMAIN Reports) \cup {{0}}
    /\ outOfTime = FALSE
    /\ stats = [pages |-> 0, bytes |-> 0, selected |-> 0, stop |-> "none"]
    /\ step = IF call.tool = "growth" THEN "probe" ELSE "list"
    /\ load = IF call.tool = "growth" THEN "then" ELSE "period"
    /\ window = 1 /\ at = 0 /\ keys = {}
    /\ queue = {} /\ capped = FALSE /\ stopDownloads = FALSE /\ fetching = {}
    /\ rows = [l \in Loads |-> {}]
    /\ latest = NoDay /\ from = NoDay
    /\ answer = "none"

Missing == bucket = {0}

-----------------------------------------------------------------------------
(* The budget. *)

Stop(s, reason) == IF s.stop = "none" THEN [s EXCEPT !.stop = reason] ELSE s

RoomForPage == ~outOfTime /\ stats.pages < MaxPages
NoRoom == Stop(stats, IF outOfTime THEN "time_budget" ELSE "max_pages")

\* The clock runs while a request does, or between two.
TimeIsUp ==
    /\ ~outOfTime /\ answer = "none"
    /\ outOfTime' = TRUE
    /\ UNCHANGED <<call, bucket, stats, step, at, keys, answer, probing, loading>>

-----------------------------------------------------------------------------
(* Listings. *)

FirstKeys(S, n) == {k \in S : Cardinality({j \in S : j < k}) < n}

IsCsv(k) == Reports[k].kind # "note"

SelectUsageKeys(S) ==
    LET usage == {k \in S : Reports[k].kind = "usage"}
    IN  IF usage # {} THEN usage ELSE {k \in S : Reports[k].kind # "audit"}

Since(day) == {k \in bucket : Reports[k].day >= day}
OfDay(day) == {k \in bucket : Reports[k].day = day}

\* One page of a listing: the candidates after it, the counters after it, and
\* whether there is a next page.  B2 may return less than a full page.
Pages(scope) ==
    LET rest == {k \in scope : k > at}
        size == Cardinality(rest)
        page(n) == FirstKeys(rest, n)
        wanted(n) == {k \in page(n) : IsCsv(k)}
        room == MaxCandidates - Cardinality(keys)
        read == [stats EXCEPT !.pages = @ + 1]
    IN  {[keys |-> keys \cup FirstKeys(wanted(n), room),
          stats |-> IF Cardinality(wanted(n)) > room
                    THEN Stop(read, "max_candidate_keys") ELSE read,
          at |-> IF n = 0 THEN at ELSE Max(page(n)),
          more |-> n < size] :
             n \in IF size = 0 THEN {0} ELSE 1..Min({size, PageSize})}

Answer(a) == step' = "done" /\ answer' = a

-----------------------------------------------------------------------------
(* latestSnapshotDate *)

OnLatest(day) ==
    IF day # NoDay /\ call.tool = "growth"
    THEN step' = "near" /\ answer' = answer
    ELSE Answer(IF day # NoDay THEN "period"
                ELSE IF stats'.stop = "none" THEN "horizon" ELSE "nothing")

\* A window was listed to its end.
WindowEnds(S) ==
    LET data == SelectUsageKeys(S)
        day == IF data = {} THEN NoDay ELSE Reports[Max(data)].day
    IN  IF data = {} /\ window < Len(Lookbacks)
        THEN window' = window + 1 /\ UNCHANGED <<latest, step, answer>>
        ELSE latest' = day /\ UNCHANGED window /\ OnLatest(day)

ProbePage ==
    /\ step = "probe" /\ ~Missing
    /\ IF RoomForPage
       THEN \E page \in Pages(Since(Today - Lookbacks[window])) :
               /\ stats' = page.stats
               /\ IF page.more /\ page.stats.stop = "none"
                  THEN /\ at' = page.at /\ keys' = page.keys
                       /\ UNCHANGED <<window, latest, step, answer>>
                  ELSE /\ at' = 0 /\ keys' = {}
                       /\ IF page.stats.stop # "none"
                          THEN OnLatest(NoDay) /\ UNCHANGED <<window, latest>>
                          ELSE WindowEnds(page.keys)
       ELSE /\ stats' = NoRoom
            /\ OnLatest(NoDay)
            /\ UNCHANGED <<window, latest, at, keys>>
    /\ UNCHANGED <<call, bucket, outOfTime, from, loading>>

-----------------------------------------------------------------------------
(* nearestSnapshotDate: the day of the first key at or after the target, be *)
(* it a report or not.                                                      *)

NearPage ==
    /\ step = "near"
    /\ LET found == Since(call.target)
           day == IF found = {} THEN NoDay ELSE Reports[Min(found)].day
       IN  IF RoomForPage
           THEN /\ stats' = [stats EXCEPT !.pages = @ + 1]
                /\ from' = day
                /\ IF day = NoDay \/ day >= latest
                   THEN Answer("short")
                   ELSE step' = "list" /\ answer' = answer
           ELSE /\ stats' = NoRoom
                /\ from' = from
                /\ Answer("short")
    /\ UNCHANGED <<call, bucket, outOfTime, window, latest, at, keys, loading>>

-----------------------------------------------------------------------------
(* loadReportRows, loadDayRowsBounded, loadRowsFromReportKeys *)

Scope ==
    CASE load = "period" -> Since(call.target)
      [] load = "then" -> OfDay(from)
      [] load = "now" -> OfDay(latest)

BeginDownloads(S, s) ==
    LET selected == SelectUsageKeys(S)
        bounded == FirstKeys(selected, MaxSelected)
    IN  /\ queue' = bounded
        /\ capped' = (bounded # selected)
        /\ stats' = [s EXCEPT !.selected = Cardinality(bounded)]
        /\ stopDownloads' = (s.stop = "time_budget")
        /\ step' = "download"
        /\ keys' = {} /\ at' = 0

ListPage ==
    /\ step = "list" /\ ~Missing
    /\ \/ /\ RoomForPage
          /\ \E page \in Pages(Scope) :
                IF page.more /\ page.stats.stop = "none"
                THEN /\ at' = page.at /\ keys' = page.keys /\ stats' = page.stats
                     /\ UNCHANGED <<step, queue, capped, stopDownloads>>
                ELSE BeginDownloads(page.keys, page.stats)
       \/ ~RoomForPage /\ BeginDownloads(keys, NoRoom)
    /\ UNCHANGED <<call, bucket, outOfTime, load, fetching, rows, answer, probing>>

\* Mutant: downloads side by side.
TwoWorkers == 2

Concurrency == 1

\* Mutant: a worker looks at the clock only before its first download.
StartAnyTime ==
    /\ step = "download" /\ queue # {} /\ ~stopDownloads
    /\ Cardinality(fetching) < Concurrency
    /\ LET key == Min(queue)
           remaining == MaxBytes - stats.bytes
       IN  /\ queue' = queue \ {key}
           /\ IF remaining <= 0
              THEN /\ stats' = Stop(stats, "max_downloaded_bytes")
                   /\ stopDownloads' = TRUE /\ UNCHANGED fetching
              ELSE /\ fetching' = fetching \cup {[key |-> key, grant |-> remaining]}
                   /\ UNCHANGED <<stats, stopDownloads>>
    /\ UNCHANGED <<call, bucket, outOfTime, step, load, at, keys, capped, rows, answer, probing>>

StartDownload ==
    /\ step = "download" /\ queue # {} /\ ~stopDownloads
    /\ Cardinality(fetching) < Concurrency
    /\ LET key == Min(queue)
           remaining == MaxBytes - stats.bytes
       IN  IF outOfTime
           THEN /\ stats' = Stop(stats, "time_budget")
                /\ stopDownloads' = TRUE /\ UNCHANGED <<queue, fetching>>
           ELSE /\ queue' = queue \ {key}
                /\ IF remaining <= 0
                   THEN /\ stats' = Stop(stats, "max_downloaded_bytes")
                        /\ stopDownloads' = TRUE /\ UNCHANGED fetching
                   ELSE /\ fetching' = fetching \cup {[key |-> key, grant |-> remaining]}
                        /\ UNCHANGED <<stats, stopDownloads>>
    /\ UNCHANGED <<call, bucket, outOfTime, step, load, at, keys, capped, rows, answer, probing>>

\* The body is read up to the grant; a file that was cut off gives no rows.
FinishDownload ==
    /\ step = "download"
    /\ \E f \in fetching :
        LET file == Reports[f.key]
            read == [stats EXCEPT !.bytes = @ + Min({file.size, f.grant})]
            room == MaxRows - Cardinality(rows[load])
        IN  /\ fetching' = fetching \ {f}
            /\ IF file.size > f.grant \/ read.bytes > MaxBytes
               THEN /\ stats' = Stop(read, "max_downloaded_bytes")
                    /\ stopDownloads' = TRUE /\ UNCHANGED rows
               ELSE /\ rows' = [rows EXCEPT ![load] =
                                   @ \cup {f.key} \X (1..Min({file.rows, room}))]
                    /\ IF file.rows > room
                       THEN stats' = Stop(read, "max_rows") /\ stopDownloads' = TRUE
                       ELSE stats' = read /\ UNCHANGED stopDownloads
    /\ UNCHANGED <<call, bucket, outOfTime, step, load, at, keys, queue, capped, answer, probing>>

AfterLoad ==
    IF load = "then" THEN step' = "list" /\ load' = "now" /\ UNCHANGED answer
    ELSE /\ UNCHANGED load
         /\ IF load = "period" /\ stats.selected = 0
            THEN IF stats.stop = "none" THEN step' = "probe" /\ UNCHANGED answer
                 ELSE Answer("nothing")
            ELSE Answer(IF load = "period" /\ rows["period"] = {}
                        THEN "no_rows" ELSE "ranking")

LoadOver == step = "download" /\ fetching = {} /\ (queue = {} \/ stopDownloads)

\* Mutant: nobody says that only the first files were read.
EndLoadQuietly ==
    /\ LoadOver
    /\ AfterLoad
    /\ UNCHANGED <<call, bucket, outOfTime, stats, at, keys, probing>>
    /\ UNCHANGED <<queue, capped, stopDownloads, fetching, rows>>

EndLoad ==
    /\ LoadOver
    /\ stats' = IF capped THEN Stop(stats, "max_selected_keys") ELSE stats
    /\ AfterLoad
    /\ UNCHANGED <<call, bucket, outOfTime, at, keys, probing>>
    /\ UNCHANGED <<queue, capped, stopDownloads, fetching, rows>>

-----------------------------------------------------------------------------
(* The first listing of a bucket that is not there, and requests that fail. *)

NotEnabled ==
    /\ Missing /\ step \in {"probe", "list"} /\ RoomForPage
    /\ Answer("not_enabled")
    /\ UNCHANGED <<call, bucket, outOfTime, stats, at, keys, loading, probing>>

NotAsked ==
    /\ Missing /\ step \in {"probe", "list"} /\ ~RoomForPage
    /\ stats' = NoRoom
    /\ Answer("nothing")
    /\ UNCHANGED <<call, bucket, outOfTime, at, keys, loading, probing>>

RequestFails ==
    /\ \/ step \in {"probe", "near", "list"} /\ RoomForPage
       \/ fetching # {}
    /\ Answer("error")
    /\ UNCHANGED <<call, bucket, outOfTime, stats, at, keys, loading, probing>>

Done == answer # "none" /\ UNCHANGED reportVars

ReportNext ==
    \/ TimeIsUp
    \/ ProbePage \/ NearPage \/ ListPage
    \/ StartDownload \/ FinishDownload \/ EndLoad
    \/ NotEnabled \/ NotAsked \/ RequestFails
    \/ Done

ReportSpec == ReportInit /\ [][ReportNext]_reportVars

-----------------------------------------------------------------------------
(* Properties. *)

StopReasons == {"none", "time_budget", "max_pages", "max_candidate_keys",
                "max_selected_keys", "max_downloaded_bytes", "max_rows"}

\* The types of the variables.
ReportTypeOK ==
    /\ call \in [tool : {"growth", "egress"}, target : Targets]
    /\ bucket \in (SUBSET DOMAIN Reports) \cup {{0}}
    /\ stats \in [pages : Nat, bytes : Nat, selected : Nat, stop : StopReasons]
    /\ step \in {"probe", "near", "list", "download", "done"} /\ load \in Loads
    /\ window \in 1..Len(Lookbacks) /\ at \in Nat /\ keys \subseteq DOMAIN Reports
    /\ queue \subseteq DOMAIN Reports
    /\ outOfTime \in BOOLEAN /\ capped \in BOOLEAN /\ stopDownloads \in BOOLEAN
    /\ fetching \subseteq [key : DOMAIN Reports, grant : Nat]
    /\ rows \in [Loads -> SUBSET ((DOMAIN Reports) \X Nat)]
    /\ latest \in Nat /\ from \in Nat
    /\ answer \in {"none", "ranking", "no_rows", "period", "horizon", "nothing", "short",
                   "not_enabled", "error"}

UsageFiles(S) == {k \in S : Reports[k].kind = "usage"}
RowsOf(S) == UNION {{k} \X (1..Reports[k].rows) : k \in S}

Holds(l, S) == UsageFiles(S) # {} => rows[l] = RowsOf(UsageFiles(S))

\* An answer that carries no stop_reason rests on all there is: every row of
\* every usage file in its scope and nothing else (no row of the audit mirror,
\* no row twice), and "none found" is said only of days without usage files
\* (reportScanMetadataFromStats marks the others truncated and partial).
CompleteOrFlagged ==
    stats.stop = "none" /\ ~Missing =>
        /\ answer = "ranking" /\ call.tool = "growth" =>
             /\ Holds("then", OfDay(from)) /\ Holds("now", OfDay(latest))
             /\ UsageFiles(Since(latest + 1)) = {}
        /\ answer \in {"ranking", "no_rows"} /\ call.tool = "egress" =>
             Holds("period", Since(call.target))
        /\ answer = "period" => UsageFiles(Since(call.target)) = {}
        /\ answer = "horizon" => UsageFiles(Since(Today - Lookbacks[Len(Lookbacks)])) = {}
        /\ answer = "short" =>
             \A k \in UsageFiles(Since(call.target)) : Reports[k].day >= latest
        /\ answer # "nothing"

\* The files that the load at hand reads: to come, running, and read.
FilesOfLoad == queue \cup {f.key : f \in fetching} \cup {r[1] : r \in rows[load]}

\* REPORT_SCAN_LIMITS.  All the listings of a call, in all windows, ask for at
\* most maxPages pages, and all its downloads read at most maxDownloadedBytes:
\* "Keep downloads serial so the global maxDownloadedBytes budget is strict."
\* The other bounds begin anew: each listing keeps at most maxCandidateKeys, and
\* each load reads at most maxSelectedKeys files and keeps at most maxRows rows.
BudgetsHold ==
    /\ stats.pages <= MaxPages
    /\ stats.bytes <= MaxBytes
    /\ Cardinality(keys) <= MaxCandidates
    /\ step = "download" => Cardinality(FilesOfLoad) <= MaxSelected
    /\ \A l \in Loads : Cardinality(rows[l]) <= MaxRows

\* Once the time is up no request is started: not by the listing or download
\* at hand, and not by the steps that follow it.
NothingStartsLate ==
    [][outOfTime => stats'.pages = stats.pages /\ fetching' \subseteq fetching]_reportVars
====
