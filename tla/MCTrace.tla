-------------------------------- MODULE MCTrace --------------------------------
(***************************************************************************)
(* Bounded instances of the read side of a Run's log.  A behaviour is one  *)
(* of: exporting a log of overlapping spans ("lanes") or of mixed events   *)
(* ("mixed"), downloading a trace ("download"), publishing one ("publish") *)
(* or maintaining the read model ("messages", "records", "usages").        *)
(***************************************************************************)
EXTENDS TraceProjection, ReadModel, TraceDump, TracePublication

CONSTANT Parts  \* the kinds of behaviours

VARIABLE part

mcVars == <<log, spans, export, store, writer, dumpVars, pubVars, part>>

Lengths == [lanes |-> 6, mixed |-> 2, messages |-> 3, records |-> 3, usages |-> 3]

Actor == [scene |-> 1, actor |-> 1]
Other == [scene |-> 1, actor |-> 2, act |-> 2]
Act == [scene |-> 1, actor |-> 1, act |-> 1]
Rescoped == [scene |-> 1, actor |-> 1, act |-> 1, session |-> 1]
Unknown == [scene |-> 1, actor |-> 1, session |-> 0]
MCScopes == {Actor, Other, Act, Rescoped, Unknown}
Plain == [name |-> "x", value |-> 0, tag |-> "plain"]
MCDetails == [name : {"x", "y"}, value : 0 .. 3,
              tag : {"plain", "truncated", "full", "available", "partial", "unavailable", "int", "dec"}]

Make(kind, at, scope, span, links, detail) ==
    [kind |-> kind, at |-> at, scope |-> scope, span |-> span, family |-> "built_in",
     caused_by |-> links, detail |-> detail]
Links == {{}} \cup {{<<"r", s>>} : s \in 1 .. Len(log)}
Detailed(names, values, tags) == [name : names, value : values, tag : tags]

Overlapping == {Make(k, 0, Actor, s, {}, Plain) : k \in SpanKinds, s \in 0 .. Len(log)}
Mixed ==
    {Make(k, t, sc, s, l, Plain) : k \in SpanKinds \cup InstantKinds, t \in {0, 2, 3},
        sc \in {Actor, Act}, s \in 0 .. Len(log), l \in Links}
    \cup {[Make("finish", 2, Actor, s, {}, Plain) EXCEPT !.family = "custom"] : s \in {1}}
    \cup {Make(k, 2, sc, 0, l, d) : k \in {"counter", "context", "usage"}, sc \in {Actor, Act},
            l \in Links, d \in Detailed({"x"}, {1, 3}, {"full", "available", "unavailable"})}
    \cup {Make("plan", 2, sc, 0, {}, Plain) : sc \in {Actor, Unknown}}
Messages ==
    {Make("delta", 0, sc, 0, {}, d) : sc \in {Act, Other}, d \in Detailed({"x"}, {1, 2}, {"plain"})}
    \cup {Make("delta", 0, Act, 0, {}, d) : d \in Detailed({"y"}, {1}, {"plain"})}
    \cup {Make("completed", 0, sc, 0, {}, d) : sc \in {Act, Other},
            d \in Detailed({"x"}, {0}, {"plain", "truncated"})}
    \cup {Make("plan", 0, sc, 0, {}, d) : sc \in {Act, Rescoped, Other},
            d \in Detailed({"x"}, {1}, {"plain", "truncated"})}
    \cup {Make("gap", 2, Act, 0, {}, Plain)}
Records ==
    {Make("counter", 0, sc, 0, {}, d) : sc \in {Act, Other}, d \in Detailed({"x", "y"}, {1}, {"int", "dec"})}
    \cup {Make("context", 2, sc, 0, {}, d) : sc \in {Act, Other}, d \in Detailed({"x"}, {1}, {"plain"})}
    \cup {Make(k, 0, Act, s, {}, Plain) : k \in SpanKinds, s \in 0 .. Len(log)}
Usages ==
    {Make("usage", 0, sc, 0, {}, d) : sc \in {Actor, Act, Rescoped, Other},
        d \in Detailed({"x"}, {1, 2}, {"available", "partial", "unavailable"})}

Candidates ==
    CASE part = "lanes" -> Overlapping [] part = "mixed" -> Mixed
      [] part = "messages" -> Messages [] part = "records" -> Records
      [] OTHER -> Usages

Init ==
    /\ TraceInit /\ ReadInit /\ DumpInit /\ PubInit /\ part \in Parts
    /\ part # "download" => committed = 1 /\ client.through = 0
    /\ part # "publish" => dir[Target] = "absent"

\* The hub accepts an event.  Export and writing start once the log is there:
\* neither looks past the prefix it captured or the batch it took.
Accept ==
    /\ part \in DOMAIN Lengths /\ Len(log) < Lengths[part]
    /\ export.at = "idle" /\ writer = [at |-> "ready", model |-> EmptySnapshot, watermark |-> 0,
                                        candidate |-> EmptySnapshot, through |-> 0]
    /\ \E e \in Candidates : Record(e)
    /\ UNCHANGED <<export, store, writer, dumpVars, pubVars>>

Exporting ==
    part \in {"lanes", "mixed"} /\ TraceStep /\ UNCHANGED <<store, writer, dumpVars, pubVars>>
Writing ==
    part \in {"messages", "records", "usages"} /\ WriterNext /\ UNCHANGED <<export, dumpVars, pubVars>>
Downloading ==
    part = "download" /\ DumpNext /\ UNCHANGED <<log, spans, export, store, writer, pubVars>>
Publishing ==
    part = "publish" /\ PubNext /\ UNCHANGED <<log, spans, export, store, writer, dumpVars>>

Next == (Accept \/ Exporting \/ Writing \/ Downloading \/ Publishing) /\ UNCHANGED part

Fairness == part = "download" => DumpFairness
Spec == Init /\ [][Next]_mcVars /\ Fairness

\* A download that succeeds is complete, and every download ends: the worker lets go of the archive
\* and the client ends, unless the connection is lost between the send of the
\* metadata and the registration of the worker's waker (wait_for_body).
EveryDownloadEnds == []DownloadIsComplete /\ (part = "download" => DownloadsEnd)
===============================================================================
