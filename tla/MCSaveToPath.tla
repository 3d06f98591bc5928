---- MODULE MCSaveToPath ----
EXTENDS SaveToPath
====
