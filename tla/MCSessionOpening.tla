-------------------------- MODULE MCSessionOpening --------------------------
(* Instances of SessionOpening for TLC. *)
EXTENDS SessionOpening

Profile(legacy, effort, optional, plans) ==
  [legacy |-> legacy, effort |-> effort, optional |-> optional, plans |-> plans]

One(profile, answered, fault_bound, notice_bound) ==
  [sessions |-> {"s1"}, cancellable |-> {"s1"}, npx |-> FALSE, profile |-> profile,
   answers |-> answered, faults |-> fault_bound, notices |-> notice_bound]

\* One session whose agent keeps changing its configuration, one whose processes
\* and transport fail, one that may loop, and two that share an npx package.
MCScenarios ==
  {One(Profile(FALSE, FALSE, FALSE, TRUE), Requests, 0, 4),
   One(Profile(FALSE, FALSE, TRUE, FALSE), Requests, 0, 2),
   One(Profile(TRUE, TRUE, FALSE, FALSE), Requests, 0, 2),
   One(Profile(FALSE, TRUE, FALSE, FALSE), Requests, 1, 1),
   One(Profile(FALSE, FALSE, FALSE, FALSE), Requests, 2, 0),
   One(Profile(FALSE, FALSE, FALSE, FALSE), {"initialize"}, 3, 0),
   [sessions |-> {"s1", "s2"}, cancellable |-> {"s1"}, npx |-> TRUE,
    answers |-> {"initialize"}, faults |-> 1, notices |-> 0,
    profile |-> Profile(FALSE, FALSE, FALSE, FALSE)]}
=============================================================================
