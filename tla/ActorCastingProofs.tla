------------------------- MODULE ActorCastingProofs -------------------------
(***************************************************************************)
(* Proofs about the Actors of a Run: for any casts, names and stories,     *)
(* a name stands for one Actor, and no session outlives the command.       *)
(***************************************************************************)
EXTENDS ActorCasting, RunLifecycleProofs, FiniteSetTheorems

Steps == {"idle", "permitted", "reserved", "constructed", "started", "done", "failed", "panicked"}
Actors == [there : BOOLEAN, bound : BOOLEAN, constructed : BOOLEAN, committed : BOOLEAN,
           detached : BOOLEAN, span : {"none", "open"} \cup Outcomes]
CastStates == [step : Steps, capability : {"none", "held", "dropping", "gone"},
               session : {"none", "open", "cancelled", "clean"}, actor : Actors]

\* The casts and the registry are well typed.
CastTypes ==
  /\ cast \in [Casts -> CastStates]
  /\ registry \in [Names -> {Unused} \cup {Reserved(c) : c \in Casts} \cup {Live(c) : c \in Casts}]

\* What the step of a cast says of its entry, its capability and its diagnostics: the
\* inductive invariant behind NamesIdentifyActors.
Agrees(k, a, own, live) ==
  /\ k.step # "panicked"
  /\ k.step \in {"reserved", "constructed", "started"} <=> own
  /\ k.step = "done" /\ k.capability = "held" => live
  /\ k.capability = "none" => k.step \notin {"started", "done"}
  /\ k.capability = "held" => k.step \in {"started", "done"}
  /\ k.capability = "dropping" => k.step = "done"
  /\ k.capability = "gone" => k.step \in {"failed", "done"} /\ a.span \in Outcomes
  /\ k.capability \in {"held", "dropping"} => a.there
  /\ a.span = "open" <=> a.there
  /\ a.there =>
       /\ k.step \in {"reserved", "constructed", "started", "done"}
       /\ ~a.detached
       /\ a.constructed <=> k.step # "reserved"
       /\ a.committed <=> k.step = "done"
CastAgrees(c) ==
  Agrees(cast[c], cast[c].actor, EntryOf(c) = Reserved(c), EntryOf(c) = Live(c))

NamesInv == CastTypes /\ \A c \in Casts : CastAgrees(c)

-----------------------------------------------------------------------------
(* The entries of the registry.                                            *)

\* The entries of two casts differ, and no entry is two things at once.
LEMMA EntriesDiffer ==
  ASSUME NEW c, NEW d
  PROVE  /\ Reserved(c) # Live(d) /\ Reserved(c) # Unused /\ Live(c) # Unused
         /\ Reserved(c) = Reserved(d) => c = d
         /\ Live(c) = Live(d) => c = d
<1>1. Reserved(c).state = "Reserved" /\ Live(d).state = "Live" /\ Live(c).state = "Live"
  BY DEF Reserved, Live
<1>2. Unused.state = "Free"
  BY DEF Unused
<1>3. /\ Reserved(c).by = c /\ Reserved(d).by = d
      /\ Live(c).by = c /\ Live(d).by = d
  BY DEF Reserved, Live
<1> QED
  BY <1>1, <1>2, <1>3

\* A cast keeps its agreement when a step of another one, c, changes the entry of a
\* name to e, provided the entry was not the one this cast relies on.
LEMMA OthersAgree ==
  ASSUME CastTypes, NEW c \in Casts, NEW d \in Casts, NEW e, CastAgrees(d),
         cast'[d] = cast[d], registry' = [registry EXCEPT ![NameOf[c]] = e],
         e = Unused \/ e = Reserved(c) \/ e = Live(c) \/ e = EntryOf(c), c # d,
         e # EntryOf(c) => \/ EntryOf(c) = Unused \/ EntryOf(c) = Reserved(c)
                           \/ EntryOf(c) = Live(c)
  PROVE  CastAgrees(d)'
<1>1. NameOf[c] \in Names /\ NameOf[d] \in Names
  BY CastAssumption
<1>2. /\ EntryOf(d)' = IF NameOf[d] = NameOf[c] THEN e ELSE EntryOf(d)
      /\ NameOf[d] = NameOf[c] => EntryOf(d) = EntryOf(c)
  BY <1>1 DEF EntryOf, CastTypes
<1>3. /\ EntryOf(d)' = Reserved(d) <=> EntryOf(d) = Reserved(d)
      /\ EntryOf(d)' = Live(d) <=> EntryOf(d) = Live(d)
  BY <1>2, EntriesDiffer
<1> QED
  BY <1>3 DEF CastAgrees, Agrees

\* One cast changes, together with the entry of its name.
LEMMA OneCastChanges ==
  ASSUME NamesInv, NEW c \in Casts, NEW r \in CastStates, NEW e,
         cast' = [cast EXCEPT ![c] = r], registry' = [registry EXCEPT ![NameOf[c]] = e],
         e = Unused \/ e = Reserved(c) \/ e = Live(c) \/ e = EntryOf(c),
         e # EntryOf(c) => \/ EntryOf(c) = Unused \/ EntryOf(c) = Reserved(c)
                           \/ EntryOf(c) = Live(c),
         CastAgrees(c)'
  PROVE  NamesInv'
<1>1. NameOf[c] \in Names
  BY CastAssumption
<1>2. CastTypes'
  <2>1. cast' \in [Casts -> CastStates]
    BY DEF NamesInv, CastTypes
  <2>2. EntryOf(c) \in {Unused} \cup {Reserved(k) : k \in Casts} \cup {Live(k) : k \in Casts}
    BY <1>1 DEF NamesInv, CastTypes, EntryOf
  <2>3. registry' \in [Names -> {Unused} \cup {Reserved(k) : k \in Casts} \cup {Live(k) : k \in Casts}]
    BY <1>1, <2>2 DEF NamesInv, CastTypes
  <2> QED
    BY <2>1, <2>3 DEF CastTypes
<1>3. ASSUME NEW d \in Casts PROVE CastAgrees(d)'
  <2>1. CASE d = c
    BY <2>1
  <2>2. CASE d # c
    <3>1. cast'[d] = cast[d]
      BY <2>2 DEF NamesInv, CastTypes
    <3> QED
      BY <2>2, <3>1, OthersAgree DEF NamesInv
  <2> QED
    BY <2>1, <2>2
<1> QED
  BY <1>2, <1>3 DEF NamesInv

-----------------------------------------------------------------------------
(* One cast or drop after another.                                         *)

\* The record of a cast, field by field.
LEMMA CastRecord ==
  ASSUME CastTypes, NEW c \in Casts
  PROVE  /\ cast[c] \in CastStates
         /\ cast[c] = [step |-> cast[c].step, capability |-> cast[c].capability,
                       session |-> cast[c].session, actor |-> cast[c].actor]
         /\ cast[c].step \in Steps /\ cast[c].capability \in {"none", "held", "dropping", "gone"}
         /\ cast[c].session \in {"none", "open", "cancelled", "clean"}
         /\ cast[c].actor \in Actors
BY DEF CastTypes, CastStates

\* What the hooks of an Actor change in its record.
LEMMA ConstructedActor ==
  ASSUME NEW x \in Actors
  PROVE  /\ Constructed(x) \in Actors
         /\ Constructed(x).span = x.span /\ Constructed(x).there = x.there
         /\ Constructed(x).committed = x.committed /\ Constructed(x).detached = x.detached
         /\ x.there => Constructed(x).constructed = TRUE
<1> SUFFICES ASSUME NEW y, y = Constructed(x)
             PROVE  /\ y \in Actors /\ y.span = x.span /\ y.there = x.there
                    /\ y.committed = x.committed /\ y.detached = x.detached
                    /\ x.there => y.constructed = TRUE
  OBVIOUS
<1>1. CASE x.there
  <2>1. y = [x EXCEPT !.constructed = TRUE]
    BY <1>1 DEF Constructed
  <2>2. y \in Actors
    BY <2>1 DEF Actors
  <2>3. y.span = x.span /\ y.there = x.there
    BY <2>1 DEF Actors
  <2>4. y.committed = x.committed /\ y.detached = x.detached
    BY <2>1 DEF Actors
  <2>5. y.constructed = TRUE
    BY <2>1 DEF Actors
  <2> QED
    BY <2>2, <2>3, <2>4, <2>5
<1>2. CASE ~x.there
  <2>1. y = x
    BY <1>2 DEF Constructed
  <2> QED
    BY <1>2, <2>1
<1> QED
  BY <1>1, <1>2

\* The same for Committed: only the flag of the commit changes.
LEMMA CommittedActor ==
  ASSUME NEW x \in Actors
  PROVE  /\ Committed(x) \in Actors
         /\ Committed(x).span = x.span /\ Committed(x).there = x.there
         /\ Committed(x).constructed = x.constructed /\ Committed(x).detached = x.detached
         /\ x.there => Committed(x).committed = TRUE
<1> SUFFICES ASSUME NEW y, y = Committed(x)
             PROVE  /\ y \in Actors /\ y.span = x.span /\ y.there = x.there
                    /\ y.constructed = x.constructed /\ y.detached = x.detached
                    /\ x.there => y.committed = TRUE
  OBVIOUS
<1>1. CASE x.there
  <2>1. y = [x EXCEPT !.committed = TRUE]
    BY <1>1 DEF Committed
  <2>2. y \in Actors
    BY <2>1 DEF Actors
  <2>3. y.span = x.span /\ y.there = x.there
    BY <2>1 DEF Actors
  <2>4. y.constructed = x.constructed /\ y.detached = x.detached
    BY <2>1 DEF Actors
  <2>5. y.committed = TRUE
    BY <2>1 DEF Actors
  <2> QED
    BY <2>2, <2>3, <2>4, <2>5
<1>2. CASE ~x.there
  <2>1. y = x
    BY <1>2 DEF Committed
  <2> QED
    BY <1>2, <2>1
<1> QED
  BY <1>1, <1>2

\* begin_cast: a cast is permitted, or refused once the shutdown has begun.
LEMMA BeginKeepsNames ==
  ASSUME NamesInv, NEW c \in Casts, BeginCast(c)
  PROVE  NamesInv'
<1> DEFINE r == [cast[c] EXCEPT !.step = IF supervisor.shutting_down THEN "failed" ELSE "permitted"]
<1>0. CastTypes /\ CastAgrees(c) /\ NameOf[c] \in Names
  BY CastAssumption DEF NamesInv
<1>1. r \in CastStates /\ cast' = [cast EXCEPT ![c] = r] /\ cast'[c] = r
  BY <1>0, CastRecord DEF BeginCast, CastStates, Steps, CastTypes
<1>2. registry' = [registry EXCEPT ![NameOf[c]] = EntryOf(c)] /\ EntryOf(c)' = EntryOf(c)
  BY <1>0 DEF BeginCast, EntryOf, CastTypes
<1>3. CastAgrees(c)'
  BY <1>0, <1>1, <1>2, CastRecord DEF CastAgrees, Agrees, BeginCast, CastStates
<1> QED
  BY <1>1, <1>2, <1>3, OneCastChanges

\* reserve: the name becomes the cast's own, or the cast fails because it is taken.
LEMMA ReserveKeepsNames ==
  ASSUME NamesInv, NEW c \in Casts, ReserveName(c)
  PROVE  NamesInv'
<1>0. CastTypes /\ CastAgrees(c) /\ NameOf[c] \in Names
  BY CastAssumption DEF NamesInv
<1>1. CASE EntryOf(c) = Unused
  <2>1. PICK constructing \in BOOLEAN :
          cast' = [cast EXCEPT ![c].step = "reserved", ![c].actor = CastStarted(constructing)]
    BY <1>1 DEF ReserveName
  <2> DEFINE r == [cast[c] EXCEPT !.step = "reserved", !.actor = CastStarted(constructing)]
  <2>2. \/ CastStarted(constructing) = NoActor
        \/ CastStarted(constructing) = [NoActor EXCEPT !.there = TRUE, !.span = "open",
                                                       !.bound = ~constructing]
    BY DEF CastStarted
  <2>3. /\ CastStarted(constructing) \in Actors
        /\ CastStarted(constructing).span = "open" <=> CastStarted(constructing).there
        /\ ~CastStarted(constructing).constructed /\ ~CastStarted(constructing).committed
        /\ ~CastStarted(constructing).detached
    <3>1. CASE CastStarted(constructing) = NoActor
      BY <3>1 DEF NoActor, Actors
    <3>2. CASE CastStarted(constructing) = [NoActor EXCEPT !.there = TRUE, !.span = "open",
                                                          !.bound = ~constructing]
      <4> DEFINE a == [there |-> TRUE, bound |-> ~constructing, constructed |-> FALSE,
                       committed |-> FALSE, detached |-> FALSE, span |-> "open"]
      <4>1. CastStarted(constructing) = a
        BY <3>2 DEF NoActor
      <4> QED
        BY <4>1 DEF Actors
    <3> QED
      BY <2>2, <3>1, <3>2
  <2>4. r \in CastStates /\ cast' = [cast EXCEPT ![c] = r] /\ cast'[c] = r
    BY <1>0, <2>1, <2>3, CastRecord DEF CastStates, Steps, CastTypes
  <2>5. registry' = [registry EXCEPT ![NameOf[c]] = Reserved(c)] /\ EntryOf(c)' = Reserved(c)
    BY <1>0, <1>1 DEF ReserveName, SetEntry, EntryOf, CastTypes
  <2>6. r.step = "reserved" /\ r.capability = "none" /\ r.actor = CastStarted(constructing)
    BY <1>0, CastRecord DEF CastStates, CastAgrees, Agrees, ReserveName
  <2>7. CastAgrees(c)'
    BY <2>3, <2>4, <2>5, <2>6, EntriesDiffer DEF CastAgrees, Agrees
  <2> QED
    BY <1>1, <2>4, <2>5, <2>7, OneCastChanges
<1>2. CASE EntryOf(c) # Unused
  <2> DEFINE r == [cast[c] EXCEPT !.step = "failed"]
  <2>1. r \in CastStates /\ cast' = [cast EXCEPT ![c] = r] /\ cast'[c] = r
    BY <1>0, <1>2, CastRecord DEF ReserveName, CastStates, Steps, CastTypes
  <2>2. registry' = [registry EXCEPT ![NameOf[c]] = EntryOf(c)] /\ EntryOf(c)' = EntryOf(c)
    BY <1>0, <1>2 DEF ReserveName, EntryOf, CastTypes
  <2>3. CastAgrees(c)'
    BY <1>0, <2>1, <2>2, CastRecord DEF CastAgrees, Agrees, ReserveName, CastStates
  <2> QED
    BY <2>1, <2>2, <2>3, OneCastChanges
<1> QED
  BY <1>1, <1>2

\* The class of the Actor is called.
LEMMA ConstructKeepsNames ==
  ASSUME NamesInv, NEW c \in Casts, ConstructActor(c)
  PROVE  NamesInv'
<1> DEFINE x == cast[c].actor
           a == Constructed(x)
           r == [cast[c] EXCEPT !.step = "constructed", !.actor = a]
<1>0. CastTypes /\ CastAgrees(c) /\ NameOf[c] \in Names
  BY CastAssumption DEF NamesInv
<1>1. /\ x \in Actors /\ a \in Actors
      /\ a.span = x.span /\ a.there = x.there
      /\ a.committed = x.committed /\ a.detached = x.detached
      /\ x.there => a.constructed = TRUE
  BY <1>0, CastRecord, ConstructedActor
<1>2. a.there => a.constructed
  BY <1>1
<1> HIDE DEF a
<1>3. r \in CastStates /\ cast' = [cast EXCEPT ![c] = r] /\ cast'[c] = r
  BY <1>0, <1>1, CastRecord DEF ConstructActor, CastStates, Steps, CastTypes, a
<1>4. registry' = [registry EXCEPT ![NameOf[c]] = EntryOf(c)] /\ EntryOf(c)' = EntryOf(c)
  BY <1>0 DEF ConstructActor, EntryOf, CastTypes
<1>5. r.step = "constructed" /\ r.capability = cast[c].capability /\ r.actor = a
  BY <1>0, CastRecord DEF CastStates
<1> HIDE DEF r
<1>6. Agrees(r, a, EntryOf(c) = Reserved(c), EntryOf(c) = Live(c))
  BY <1>0, <1>1, <1>2, <1>5 DEF CastAgrees, Agrees, ConstructActor
<1>7. CastAgrees(c)'
  BY <1>3, <1>4, <1>5, <1>6 DEF CastAgrees, Reserved, Live
<1> QED
  BY <1>3, <1>4, <1>7, OneCastChanges

\* start_agent_session.
LEMMA StartKeepsNames ==
  ASSUME NamesInv, NEW c \in Casts, StartSession(c)
  PROVE  NamesInv'
<1> DEFINE r == [cast[c] EXCEPT !.step = "started", !.session = "open", !.capability = "held"]
<1>0. CastTypes /\ CastAgrees(c) /\ NameOf[c] \in Names
  BY CastAssumption DEF NamesInv
<1>1. r \in CastStates /\ cast' = [cast EXCEPT ![c] = r] /\ cast'[c] = r
  BY <1>0, CastRecord DEF StartSession, CastStates, Steps, CastTypes
<1>2. registry' = [registry EXCEPT ![NameOf[c]] = EntryOf(c)] /\ EntryOf(c)' = EntryOf(c)
  BY <1>0 DEF StartSession, EntryOf, CastTypes
<1>3. CastAgrees(c)'
  BY <1>0, <1>1, <1>2, CastRecord DEF CastAgrees, Agrees, StartSession, CastStates
<1> QED
  BY <1>1, <1>2, <1>3, OneCastChanges

\* A cast that fails gives back its reservation, and nobody else's entry.
LEMMA FailKeepsNames ==
  ASSUME NamesInv, NEW c \in Casts, FailCast(c)
  PROVE  NamesInv'
<1> DEFINE started == cast[c].step = "started"
           left == IF started THEN Detached(cast[c].actor, FALSE) ELSE cast[c].actor
<1>0. CastTypes /\ CastAgrees(c) /\ NameOf[c] \in Names
  BY CastAssumption DEF NamesInv
<1>1. PICK error \in {"cancelled", "error"} :
        cast' = [cast EXCEPT ![c].step = "failed", ![c].actor = CastFinished(left, error),
                   ![c].capability = IF started THEN "gone" ELSE @,
                   ![c].session = IF @ = "open" THEN "cancelled" ELSE @]
  BY DEF FailCast
<1> DEFINE a == CastFinished(left, error)
           p == IF started THEN "gone" ELSE cast[c].capability
           s == IF cast[c].session = "open" THEN "cancelled" ELSE cast[c].session
           r == [cast[c] EXCEPT !.step = "failed", !.actor = a, !.capability = p, !.session = s]
<1>2. left \in Actors /\ left.there = cast[c].actor.there /\ left.span = cast[c].actor.span
  <2>1. CASE started /\ cast[c].actor.there
    <3>1. left = [cast[c].actor EXCEPT !.detached = TRUE]
      BY <2>1 DEF Detached
    <3> QED
      BY <1>0, <3>1, CastRecord DEF Actors
  <2>2. CASE ~(started /\ cast[c].actor.there)
    <3>1. left = cast[c].actor
      BY <2>2 DEF Detached
    <3> QED
      BY <1>0, <3>1, CastRecord
  <2> QED
    BY <2>1, <2>2
<1> HIDE DEF left
<1>3. /\ a \in Actors /\ a.there = FALSE /\ a.span # "open"
      /\ cast[c].actor.there => a.span \in Outcomes
  <2>1. CASE left.there
    <3>1. OutcomeOf(error) \in Outcomes \ {"open"}
      BY DEF OutcomeOf, Outcomes
    <3>2. a = [left EXCEPT !.there = FALSE, !.span = OutcomeOf(error)]
      BY <2>1 DEF CastFinished
    <3>3. a \in Actors
      BY <1>2, <3>1, <3>2 DEF Actors
    <3>4. a.there = FALSE /\ a.span = OutcomeOf(error)
      BY <1>2, <3>2 DEF Actors
    <3> QED
      BY <3>1, <3>3, <3>4
  <2>2. CASE ~left.there
    <3>1. a = left
      BY <2>2 DEF CastFinished
    <3>2. left.there = FALSE
      BY <1>2, <2>2 DEF Actors
    <3> QED
      BY <1>0, <1>2, <2>2, <3>1, <3>2 DEF CastAgrees, Agrees
  <2> QED
    BY <2>1, <2>2
<1>4. /\ p \in {"none", "gone"} /\ s \in {"none", "cancelled", "clean"}
      /\ p = "gone" => started
  BY <1>0, CastRecord DEF CastAgrees, Agrees, FailCast
<1> HIDE DEF a, p, s
<1>5. cast' = [cast EXCEPT ![c] = r] /\ cast'[c] = r
  BY <1>0, <1>1, CastRecord DEF CastTypes, a, p, s, CastStates
<1>6. r \in CastStates /\ r.step = "failed" /\ r.actor = a /\ r.capability = p
  BY <1>0, <1>3, <1>4, CastRecord DEF CastStates, Steps
<1> HIDE DEF r
<1>7. EntryOf(c) = Reserved(c)
  BY <1>0 DEF CastAgrees, Agrees, FailCast
<1>8. registry' = [registry EXCEPT ![NameOf[c]] = Unused] /\ EntryOf(c)' = Unused
  BY <1>0, <1>7 DEF FailCast, Rollback, SetEntry, EntryOf, CastTypes
<1>9. CastAgrees(c)'
  <2>1. p = "gone" => a.span \in Outcomes
    BY <1>0, <1>3, <1>4, CastRecord DEF CastAgrees, Agrees
  <2> QED
    BY <1>3, <1>4, <1>5, <1>6, <1>8, <2>1, EntriesDiffer DEF CastAgrees, Agrees
<1> QED
  BY <1>5, <1>6, <1>7, <1>8, <1>9, OneCastChanges

\* commit finds the reservation it made.
LEMMA CommitKeepsNames ==
  ASSUME NamesInv, NEW c \in Casts, CommitCast(c)
  PROVE  NamesInv'
<1> DEFINE x == cast[c].actor
           a == Committed(x)
           r == [cast[c] EXCEPT !.step = "done", !.actor = a]
<1>0. CastTypes /\ CastAgrees(c) /\ NameOf[c] \in Names
  BY CastAssumption DEF NamesInv
<1>1. /\ x \in Actors /\ a \in Actors
      /\ a.span = x.span /\ a.there = x.there
      /\ a.constructed = x.constructed /\ a.detached = x.detached
      /\ x.there => a.committed = TRUE
  BY <1>0, CastRecord, CommittedActor
<1>2. a.there => a.committed
  BY <1>1
<1>3. EntryOf(c) = Reserved(c) /\ CastFinished(a, "none") = a
  BY <1>0 DEF CastAgrees, Agrees, CommitCast, CastFinished
<1> HIDE DEF a
<1>4. r \in CastStates /\ cast' = [cast EXCEPT ![c] = r] /\ cast'[c] = r
  BY <1>0, <1>1, <1>3, CastRecord DEF CommitCast, CastStates, Steps, CastTypes, a
<1>5. registry' = [registry EXCEPT ![NameOf[c]] = Live(c)] /\ EntryOf(c)' = Live(c)
  BY <1>0 DEF CommitCast, SetEntry, EntryOf, CastTypes
<1>6. r.step = "done" /\ r.capability = cast[c].capability /\ r.actor = a
  BY <1>0, CastRecord DEF CastStates
<1> HIDE DEF r
<1>7. Agrees(r, a, FALSE, TRUE)
  BY <1>0, <1>1, <1>2, <1>6, CastRecord DEF CastAgrees, Agrees, CommitCast
<1>8. (EntryOf(c)' = Reserved(c)) = FALSE /\ (EntryOf(c)' = Live(c)) = TRUE
  BY <1>5, EntriesDiffer
<1>9. CastAgrees(c)'
  BY <1>4, <1>6, <1>7, <1>8 DEF CastAgrees, Agrees, Reserved, Live
<1> QED
  BY <1>3, <1>4, <1>5, <1>9, OneCastChanges

\* The capability dies before its entry goes.
LEMMA DropKeepsNames ==
  ASSUME NamesInv, NEW c \in Casts, DropCapability(c)
  PROVE  NamesInv'
<1> DEFINE s == IF cast[c].session = "open" THEN "cancelled" ELSE cast[c].session
           r == [cast[c] EXCEPT !.capability = "dropping", !.session = s]
<1>0. CastTypes /\ CastAgrees(c) /\ NameOf[c] \in Names
  BY CastAssumption DEF NamesInv
<1>1. r \in CastStates /\ cast' = [cast EXCEPT ![c] = r] /\ cast'[c] = r
  BY <1>0, CastRecord DEF DropCapability, CastStates, CastTypes
<1>2. registry' = [registry EXCEPT ![NameOf[c]] = EntryOf(c)] /\ EntryOf(c)' = EntryOf(c)
  BY <1>0 DEF DropCapability, EntryOf, CastTypes
<1>3. r.step = "done" /\ r.capability = "dropping" /\ r.actor = cast[c].actor
  BY <1>0, CastRecord DEF CastStates, DropCapability
<1> HIDE DEF r
<1>4. CastAgrees(c)'
  BY <1>0, <1>1, <1>2, <1>3 DEF CastAgrees, Agrees, DropCapability, Reserved
<1> QED
  BY <1>1, <1>2, <1>4, OneCastChanges

\* detach removes the entry only if it is still that of this Actor.
LEMMA DetachKeepsNames ==
  ASSUME NamesInv, NEW c \in Casts, DetachActor(c)
  PROVE  NamesInv'
<1> DEFINE x == cast[c].actor
           a == Detached(x, TRUE)
           r == [cast[c] EXCEPT !.capability = "gone", !.actor = a]
           e == IF EntryOf(c) = Live(c) THEN Unused ELSE EntryOf(c)
<1>0. CastTypes /\ CastAgrees(c) /\ NameOf[c] \in Names
  BY CastAssumption DEF NamesInv
<1>1. x \in Actors /\ x.there /\ cast[c].step = "done"
  BY <1>0, CastRecord DEF DetachActor, CastAgrees, Agrees
<1>2. a = [x EXCEPT !.detached = TRUE, !.there = FALSE, !.span = "completed"]
  BY <1>1 DEF Detached
<1>3. a \in Actors /\ a.there = FALSE /\ a.span = "completed"
  BY <1>1, <1>2 DEF Actors, Outcomes
<1> HIDE DEF a
<1>4. r \in CastStates /\ cast' = [cast EXCEPT ![c] = r] /\ cast'[c] = r
  BY <1>0, <1>3, CastRecord DEF DetachActor, CastStates, CastTypes, a
<1>5. registry' = [registry EXCEPT ![NameOf[c]] = e] /\ EntryOf(c)' = e
  BY <1>0 DEF DetachActor, RemoveLive, SetEntry, EntryOf, CastTypes
<1>6. r.step = "done" /\ r.capability = "gone" /\ r.actor = a
  BY <1>0, <1>1, CastRecord DEF CastStates
<1> HIDE DEF r
<1>7. e # Reserved(c)
  BY <1>0, <1>1, EntriesDiffer DEF CastAgrees, Agrees
<1>8. CastAgrees(c)'
  BY <1>3, <1>4, <1>5, <1>6, <1>7 DEF CastAgrees, Agrees, Outcomes, Reserved
<1> QED
  BY <1>4, <1>5, <1>8, OneCastChanges

\* A step that leaves the registry, and all of the casts but their sessions, alone.
LEMMA SessionsDoNotName ==
  ASSUME NamesInv, cast' \in [Casts -> CastStates], UNCHANGED registry,
         \A c \in Casts : /\ cast'[c].step = cast[c].step
                          /\ cast'[c].capability = cast[c].capability
                          /\ cast'[c].actor = cast[c].actor
  PROVE  NamesInv'
<1>1. CastTypes'
  BY DEF NamesInv, CastTypes
<1>2. ASSUME NEW c \in Casts PROVE CastAgrees(c)'
  BY DEF NamesInv, CastAgrees, Agrees, EntryOf, Reserved, Live
<1> QED
  BY <1>1, <1>2 DEF NamesInv

\* A session ends.
LEMMA CleanKeepsNames ==
  ASSUME NamesInv, NEW c \in Casts, SessionCleans(c)
  PROVE  NamesInv'
<1>1. CastTypes
  BY DEF NamesInv
<1>2. cast' \in [Casts -> CastStates]
  BY <1>1, CastRecord DEF SessionCleans, CastTypes, CastStates
<1>3. ASSUME NEW d \in Casts
      PROVE  /\ cast'[d].step = cast[d].step
             /\ cast'[d].capability = cast[d].capability
             /\ cast'[d].actor = cast[d].actor
  BY <1>1, CastRecord DEF SessionCleans, CastTypes, CastStates
<1> QED
  BY <1>2, <1>3, SessionsDoNotName DEF SessionCleans

\* The shutdown cancels the sessions.
LEMMA CancelKeepsNames ==
  ASSUME NamesInv, CancelSessions
  PROVE  NamesInv'
<1>1. CastTypes
  BY DEF NamesInv
<1>2. cast' \in [Casts -> CastStates]
  BY <1>1, CastRecord DEF CancelSessions, CastTypes, CastStates
<1>3. ASSUME NEW d \in Casts
      PROVE  /\ cast'[d].step = cast[d].step
             /\ cast'[d].capability = cast[d].capability
             /\ cast'[d].actor = cast[d].actor
  BY <1>1, CastRecord DEF CancelSessions, CastTypes, CastStates
<1> QED
  BY <1>2, <1>3, SessionsDoNotName DEF CancelSessions, Shuts

\* get and snapshot drop dead entries only.
LEMMA LookupKeepsNames ==
  ASSUME NamesInv, NEW n \in Names, Lookup(n)
  PROVE  NamesInv'
<1>1. CastTypes /\ cast' = cast /\ registry' = [registry EXCEPT ![n] = Unused]
  BY DEF NamesInv, Lookup
<1>2. CastTypes'
  BY <1>1 DEF CastTypes
<1>3. PICK k \in Casts : registry[n] = Live(k)
  <2>1. registry[n] \in {Unused} \cup {Reserved(k) : k \in Casts} \cup {Live(k) : k \in Casts}
    BY <1>1 DEF CastTypes
  <2>2. registry[n] # Unused
    BY DEF Lookup, Unused
  <2>3. \A k \in Casts : registry[n] # Reserved(k)
    BY DEF Lookup, Reserved
  <2> QED
    BY <2>1, <2>2, <2>3
<1>4. cast[k].capability # "held"
  BY <1>3 DEF Lookup, Live
<1>5. ASSUME NEW d \in Casts PROVE CastAgrees(d)'
  <2>1. CastAgrees(d) /\ NameOf[d] \in Names
    BY CastAssumption DEF NamesInv
  <2>2. CASE NameOf[d] # n
    <3>1. EntryOf(d)' = EntryOf(d)
      BY <1>1, <2>1, <2>2 DEF EntryOf, CastTypes
    <3> QED
      BY <1>1, <2>1, <3>1 DEF CastAgrees, Agrees, Reserved, Live
  <2>3. CASE NameOf[d] = n
    <3>1. EntryOf(d)' = Unused /\ EntryOf(d) = Live(k)
      BY <1>1, <1>3, <2>1, <2>3 DEF EntryOf, CastTypes
    <3>2. EntryOf(d) # Reserved(d) /\ EntryOf(d)' # Reserved(d)
      BY <3>1, EntriesDiffer
    <3>3. EntryOf(d) = Live(d) => cast[d].capability # "held"
      BY <1>4, <3>1, EntriesDiffer
    <3> QED
      BY <1>1, <2>1, <3>2, <3>3 DEF CastAgrees, Agrees, Reserved, Live
  <2> QED
    BY <2>2, <2>3
<1> QED
  BY <1>2, <1>5 DEF NamesInv

\* A step of anything else.
LEMMA OthersKeepNames ==
  ASSUME NamesInv, UNCHANGED <<cast, registry>>
  PROVE  NamesInv'
BY DEF NamesInv, CastTypes, CastAgrees, Agrees, EntryOf, Reserved, Live

\* In the initial state all names are free.
LEMMA NamesInit ==
  ASSUME ProdInit
  PROVE  NamesInv
<1>1. NoActor \in Actors /\ NoCast \in CastStates
  BY DEF NoActor, NoCast, Actors, CastStates, Steps, Outcomes
<1>2. CastTypes
  BY <1>1 DEF ProdInit, CastTypes
<1>3. ASSUME NEW c \in Casts PROVE CastAgrees(c)
  <2>1. EntryOf(c) = Unused /\ cast[c] = NoCast
    BY CastAssumption DEF ProdInit, EntryOf
  <2>2. /\ NoCast.step = "idle" /\ NoCast.capability = "none" /\ NoCast.actor = NoActor
        /\ NoActor.there = FALSE /\ NoActor.span = "none"
    BY DEF NoCast, NoActor
  <2> QED
    BY <2>1, <2>2, EntriesDiffer DEF CastAgrees, Agrees
<1> QED
  BY <1>2, <1>3 DEF NamesInv

\* Every step of a Production keeps the names.
LEMMA NamesStep ==
  ASSUME NamesInv, [ProdNext]_prodVars
  PROVE  NamesInv'
<1>1. CASE (RunNext /\ UNCHANGED castVars) \/ UNCHANGED prodVars
  BY <1>1, OthersKeepNames DEF castVars, prodVars
<1>2. CASE Shutdown
  <2>1. CASE CancelSessions
    BY <2>1, CancelKeepsNames
  <2>2. CASE RefuseCasts \/ RegisterWaiter \/ CheckCasts \/ AwaitChange \/ AwaitSessions
    <3>1. UNCHANGED <<cast, registry>>
      BY <2>2 DEF RefuseCasts, RegisterWaiter, CheckCasts, AwaitChange, AwaitSessions, Shuts,
                  castVars
    <3> QED
      BY <3>1, OthersKeepNames
  <2> QED
    BY <1>2, <2>1, <2>2 DEF Shutdown
<1>3. ASSUME NEW c \in Casts,
             \/ BeginCast(c) \/ CastStep(c) \/ DropCapability(c) \/ DetachActor(c)
             \/ SessionCleans(c) \/ ReleaseSession(c)
      PROVE  NamesInv'
  <2>1. CASE ReleaseSession(c)
    BY <2>1, OthersKeepNames DEF ReleaseSession
  <2>2. CASE CastStep(c)
    BY <2>2, ReserveKeepsNames, ConstructKeepsNames, StartKeepsNames, CommitKeepsNames,
       FailKeepsNames DEF CastStep
  <2> QED
    BY <1>3, <2>1, <2>2, BeginKeepsNames, DropKeepsNames, DetachKeepsNames, CleanKeepsNames
<1>4. ASSUME NEW n \in Names, Lookup(n) PROVE NamesInv'
  BY <1>4, LookupKeepsNames
<1> QED
  BY <1>1, <1>2, <1>3, <1>4 DEF ProdNext, CastNext

\* In every Production a name stands for one Actor (NamesIdentifyActors), whatever the
\* number of casts, names and lookups and whenever Actors are dropped: the registry's
\* reserve, commit, rollback, detach and get keep the entry of each cast with its step.
THEOREM NamesAlwaysIdentifyActors == ProdSpec => []NamesIdentifyActors
<1>1. NamesInv => NamesIdentifyActors
  BY DEF NamesInv, CastAgrees, Agrees, NamesIdentifyActors
<1> QED
  BY <1>1, NamesInit, NamesStep, PTL DEF ProdSpec

-----------------------------------------------------------------------------
(* The diagnostics of the Run.                                             *)

\* No transition of an Actor is out of turn, so none fails the Run it belongs to.
LEMMA ActorsNeverLatch ==
  ASSUME NamesInv, NEW c \in Casts, ConstructActor(c) \/ CommitCast(c) \/ DetachActor(c)
  PROVE  UNCHANGED diag
<1> DEFINE x == cast[c].actor
<1>1. CastAgrees(c) /\ x \in Actors
  BY CastRecord DEF NamesInv, CastStates
<1>2. CASE ConstructActor(c)
  <2>1. x.there => ~x.constructed
    BY <1>1, <1>2 DEF ConstructActor, CastAgrees, Agrees
  <2> QED
    BY <1>2, <2>1 DEF ConstructActor, ActorLatches
<1>3. CASE CommitCast(c)
  <2> DEFINE a == Committed(x)
  <2>1. x.there => x.constructed /\ ~x.committed
    BY <1>1, <1>3 DEF CommitCast, CastAgrees, Agrees
  <2>2. a.there = x.there /\ a.constructed = x.constructed
    BY <1>1 DEF Committed, Actors
  <2>3. diag' = ActorLatches(diag, a, a.constructed /\ ~x.committed)
    BY <1>3 DEF CommitCast
  <2> HIDE DEF a
  <2> QED
    BY <2>1, <2>2, <2>3 DEF ActorLatches
<1>4. CASE DetachActor(c)
  <2>1. x.there => ~x.detached
    BY <1>1 DEF CastAgrees, Agrees
  <2> QED
    BY <1>4, <2>1 DEF DetachActor, ActorLatches
<1> QED
  BY <1>2, <1>3, <1>4

\* The casts, and the shutdown of their sessions, leave the Run alone, but for the place
\* of the lifecycle in shutdown_and_wait.
LEMMA CastsLeaveTheRun ==
  ASSUME NamesInv, CastNext
  PROVE  /\ UNCHANGED <<story, core, python, returned, failures, diag>>
         /\ \/ UNCHANGED <<stage, at>>
            \/ /\ stage = "sessions" /\ stage' = "sessions"
               /\ at' \in {"register", "check", "await", "list", "wait"}
            \/ stage = "sessions" /\ stage' = "done" /\ at' = "entry"
<1>1. CASE Shutdown
  BY <1>1 DEF Shutdown, RefuseCasts, RegisterWaiter, CheckCasts, AwaitChange, CancelSessions,
              AwaitSessions, Shuts, At, To, rest, python
<1>2. ASSUME NEW c \in Casts,
             \/ BeginCast(c) \/ ReserveName(c) \/ StartSession(c) \/ FailCast(c)
             \/ DropCapability(c) \/ SessionCleans(c) \/ ReleaseSession(c)
      PROVE  UNCHANGED runVars
  BY <1>2 DEF BeginCast, ReserveName, StartSession, FailCast, DropCapability, SessionCleans,
              ReleaseSession
<1>3. ASSUME NEW c \in Casts, ConstructActor(c) \/ CommitCast(c) \/ DetachActor(c)
      PROVE  UNCHANGED runVars
  <2>1. UNCHANGED diag
    BY <1>3, ActorsNeverLatch
  <2> QED
    BY <1>3, <2>1 DEF ConstructActor, CommitCast, DetachActor, runVars, python
<1>4. ASSUME NEW n \in Names, Lookup(n) PROVE UNCHANGED runVars
  BY <1>4 DEF Lookup
<1> QED
  BY <1>1, <1>2, <1>3, <1>4 DEF CastNext, CastStep, runVars, python

\* The invariant of the Run does not depend on what the casts change.
LEMMA CastsKeepTheRun ==
  ASSUME RunInv, UNCHANGED <<story, core, python, returned, failures, diag>>,
         \/ UNCHANGED <<stage, at>>
         \/ /\ stage = "sessions" /\ stage' = "sessions"
            /\ at' \in {"register", "check", "await", "list", "wait"}
         \/ stage = "sessions" /\ stage' = "done" /\ at' = "entry"
  PROVE  RunInv'
<1>1. RunTypes'
  BY DEF RunInv, FlowInv, RunTypes, python
<1>2. ControlInv'
  BY DEF RunInv, FlowInv, ControlInv, python, Waits, Finals
<1>3. SceneInv'
  BY DEF RunInv, FlowInv, SceneInv, python, Waits, Finals
<1>4. CASE Broken(diag)
  BY <1>1, <1>2, <1>3, <1>4, BrokenFrame DEF RunInv, FlowInv, DiagInv
<1>5. CASE ~Broken(diag)
  <2>1. RunSpans(diag)'
    BY <1>5 DEF RunInv, DiagInv, RunSpans, Finals
  <2>2. SceneSpans(diag)'
    BY <1>5 DEF RunInv, FlowInv, RunTypes, ControlInv, SceneInv, DiagInv, SceneSpans, Runs,
                Drains, Drained,
                NoSpans, python
  <2> QED
    BY <1>1, <1>2, <1>3, <1>5, <2>1, <2>2 DEF RunInv, FlowInv, DiagInv, Broken
<1> QED
  BY <1>4, <1>5

\* Every step of a Production keeps the invariant of its Run.
LEMMA RunInvStep ==
  ASSUME NamesInv, RunInv, [ProdNext]_prodVars
  PROVE  RunInv'
<1>1. CASE RunNext
  BY <1>1, RunStep
<1>2. CASE CastNext
  BY <1>2, CastsLeaveTheRun, CastsKeepTheRun
<1>3. CASE UNCHANGED prodVars
  BY <1>3, CastsKeepTheRun DEF prodVars, runVars, python
<1> QED
  BY <1>1, <1>2, <1>3 DEF ProdNext

\* A Production begins with the invariant of its Run.
LEMMA ProdRunInit ==
  ASSUME ProdInit
  PROVE  RunInv
<1>1. story.results \subseteq Errors
  BY CastAssumption DEF ProdInit, RunInit, StoryType, Errors
<1> QED
  BY <1>1, RunInvInit DEF ProdInit

\* The diagnostics tell the story of every Run (ReportsMatchTheRun): no order of the
\* hooks that run_lifecycle, its loop callbacks, the requesters of a shutdown and the
\* casts reach makes a producer refuse one, and the outcomes it records are those of the
\* Run.  The inductive invariant is RunInv, with NamesInv for the casts.
THEOREM ReportsAlwaysMatchTheRun == ProdSpec => []ReportsMatchTheRun
<1>1. RunInv => ReportsMatchTheRun
  <2> SUFFICES ASSUME RunInv PROVE ReportsMatchTheRun
    OBVIOUS
  <2>1. Over /\ replaced => failures # << >>
    BY DEF RunInv, FlowInv, SceneInv, Over, Finals
  <2>2. diag.run.failure # "state"
    BY DEF RunInv, DiagInv, Broken
  <2>3. ASSUME diag.run.span \in Outcomes
        PROVE  ~Broken(diag) /\ stage \in {"sessions", "done"}
    BY <2>3 DEF RunInv, DiagInv, RunSpans, Outcomes
  <2>4. ASSUME diag.run.span \in Outcomes
        PROVE  /\ diag.run.span = "completed" <=> failures = << >>
               /\ diag.run.span = "cancelled" => "cancelled" \in {diag.run.start, diag.run.stop}
               /\ diag.run.shutdown \in {"none", diag.run.span}
               /\ "open" \notin {diag.run.start, diag.run.stop}
               /\ diag.run.stop = "none" <=> diag.run.start # "completed"
    BY <2>3, <2>4 DEF RunInv, DiagInv, RunSpans, Outcomes, Finals
  <2> QED
    BY <2>1, <2>2, <2>4 DEF ReportsMatchTheRun
<1> QED
  BY <1>1, NamesInit, NamesStep, ProdRunInit, RunInvStep, PTL DEF ProdSpec

-----------------------------------------------------------------------------
(* The sessions.                                                           *)

UnderWay == {"permitted", "reserved", "constructed", "started"}
Active == {c \in Casts : cast[c].step \in UnderWay}
Alive(c) == cast[c].session \in {"open", "cancelled"}
Within(places) == stage = "sessions" /\ at \in places

\* The supervisor counts the casts under way and tracks their sessions; from the moment
\* it refuses casts it only waits for what is there: the inductive invariant behind
\* NothingOutlivesTheRun.
SessionInv ==
  /\ supervisor \in [shutting_down : BOOLEAN, active_casts : Nat, sessions : SUBSET Casts,
                     notified : BOOLEAN, listed : SUBSET Casts]
  /\ IsFiniteSet(Active) /\ supervisor.active_casts = Cardinality(Active)
  /\ \A c \in Casts : Alive(c) => c \in supervisor.sessions
  /\ Within({"register", "check", "await", "list", "wait"}) \/ stage = "done" =>
       supervisor.shutting_down
  /\ Within({"list", "wait"}) \/ stage = "done" => Active = {}
  /\ Within({"wait"}) => \A c \in Casts : Alive(c) => c \in supervisor.listed
  /\ stage = "done" => \A c \in Casts : ~Alive(c)

\* Once the lifecycle has returned, no step of the Run moves it.
LEMMA RunStaysOver ==
  ASSUME FlowInv, RunNext
  PROVE  /\ stage \in {"sessions", "done"} => UNCHANGED <<stage, at>>
         /\ stage \notin {"sessions", "done"} =>
              stage' # "done" /\ (stage' = "sessions" => at' = "entry")
<1>1. CASE Tokio
  BY <1>1 DEF Tokio, BindRun, AwaitTask, ShutdownObserved, AwaitCancelled, WaitSceneClosed,
              ReturnStart, NextScene, ReturnScene, EnterStopHook, ReturnStop, DropPermit, At, To,
              After, FlowInv, ControlInv, Finals
<1>2. CASE LoopCallbacks
  BY <1>2 DEF LoopCallbacks, InstallWrapper, RestoreFactory, CallHook, SceneRefused,
              SceneNotCreated, SceneCreates, CancelTask, CheckFactory, ObserveClosed, At, To,
              FlowInv, ControlInv, Finals
<1>3. CASE UserCode \/ DiagnosticsFail \/ \E r \in Requesters : RequestShutdown(r) \/ ObserveShutdown(r)
  <2>1. UNCHANGED <<stage, at>>
    BY <1>3 DEF UserCode, TaskEnds, StartCue, OperationFinished, ReplaceFactory, DiagnosticsFail,
                RequestShutdown, ObserveShutdown
  <2> QED
    BY <2>1
<1> QED
  BY <1>1, <1>2, <1>3 DEF RunNext

\* What one cast makes of the set of those under way.
LEMMA OneCastMoves ==
  ASSUME NEW c \in Casts, \A d \in Casts : d # c => cast'[d] = cast[d]
  PROVE  /\ cast'[c].step \in UnderWay => Active' = Active \cup {c}
         /\ cast'[c].step \notin UnderWay => Active' = Active \ {c}
         /\ \A d \in Casts : d # c => (Alive(d)' <=> Alive(d))
BY DEF Active, Alive

\* A step that neither begins nor ends a cast, and starts no session.
LEMMA SessionFrame ==
  ASSUME SessionInv, Active' = Active,
         \A c \in Casts : Alive(c)' => Alive(c) /\ c \in supervisor'.sessions,
         supervisor' \in [shutting_down : BOOLEAN, active_casts : Nat, sessions : SUBSET Casts,
                          notified : BOOLEAN, listed : SUBSET Casts],
         supervisor'.active_casts = supervisor.active_casts,
         supervisor'.shutting_down = supervisor.shutting_down,
         supervisor'.listed = supervisor.listed, UNCHANGED <<stage, at>>
  PROVE  SessionInv'
BY DEF SessionInv, Within

\* A cast is over, and its permit dropped.
LEMMA CastLeaves ==
  ASSUME SessionInv, NEW c \in Active, Active' = Active \ {c}, supervisor' = PermitDropped,
         \A d \in Casts : Alive(d)' => Alive(d), UNCHANGED <<stage, at>>
  PROVE  SessionInv'
<1>1. /\ IsFiniteSet(Active') /\ Cardinality(Active') \in Nat
      /\ Cardinality(Active') = Cardinality(Active) - 1
  BY FS_RemoveElement, FS_CardinalityType DEF SessionInv
<1>2. /\ supervisor' \in [shutting_down : BOOLEAN, active_casts : Nat, sessions : SUBSET Casts,
                          notified : BOOLEAN, listed : SUBSET Casts]
      /\ supervisor'.active_casts = Cardinality(Active')
      /\ supervisor'.shutting_down = supervisor.shutting_down
      /\ supervisor'.listed = supervisor.listed /\ supervisor'.sessions = supervisor.sessions
  BY <1>1 DEF SessionInv, PermitDropped
<1> QED
  BY <1>1, <1>2 DEF SessionInv, Within

\* begin_cast counts the cast, unless the shutdown has begun.
LEMMA BeginKeepsSessions ==
  ASSUME CastTypes, SessionInv, NEW c \in Casts, BeginCast(c)
  PROVE  SessionInv'
<1>1. /\ \A d \in Casts : d # c => cast'[d] = cast[d]
      /\ cast'[c].session = cast[c].session /\ cast[c].step = "idle" /\ UNCHANGED <<stage, at>>
      /\ cast'[c].step = IF supervisor.shutting_down THEN "failed" ELSE "permitted"
      /\ supervisor' = IF supervisor.shutting_down THEN supervisor
                       ELSE [supervisor EXCEPT !.active_casts = @ + 1]
  BY DEF BeginCast, CastTypes, CastStates, runVars
<1>2. c \notin Active /\ \A d \in Casts : Alive(d)' <=> Alive(d)
  BY <1>1, OneCastMoves DEF Active, UnderWay, Alive
<1>3. CASE supervisor.shutting_down
  <2>1. Active' = Active
    BY <1>1, <1>2, <1>3, OneCastMoves DEF UnderWay
  <2> QED
    BY <1>1, <1>2, <1>3, <2>1, SessionFrame DEF SessionInv
<1>4. CASE ~supervisor.shutting_down
  <2>1. Active' = Active \cup {c}
    BY <1>1, <1>4, OneCastMoves DEF UnderWay
  <2>2. /\ IsFiniteSet(Active') /\ Cardinality(Active') \in Nat
        /\ Cardinality(Active') = Cardinality(Active) + 1
    BY <1>2, <2>1, FS_AddElement, FS_CardinalityType DEF SessionInv
  <2>3. /\ supervisor' \in [shutting_down : BOOLEAN, active_casts : Nat, sessions : SUBSET Casts,
                            notified : BOOLEAN, listed : SUBSET Casts]
        /\ supervisor'.active_casts = Cardinality(Active')
        /\ supervisor'.shutting_down = supervisor.shutting_down
        /\ supervisor'.listed = supervisor.listed /\ supervisor'.sessions = supervisor.sessions
    BY <1>1, <1>4, <2>2 DEF SessionInv
  <2>4. /\ ~Within({"register", "check", "await", "list", "wait"}) /\ stage # "done"
    BY <1>4 DEF SessionInv
  <2> QED
    BY <1>1, <1>2, <2>2, <2>3, <2>4 DEF SessionInv, Within
<1> QED
  BY <1>3, <1>4

\* start_inner tracks the session it opens, and drops those that are clean.
LEMMA StartKeepsSessions ==
  ASSUME CastTypes, SessionInv, NEW c \in Casts, StartSession(c)
  PROVE  SessionInv'
<1>1. /\ \A d \in Casts : d # c => cast'[d] = cast[d]
      /\ cast[c].step = "constructed" /\ cast'[c].step = "started" /\ UNCHANGED <<stage, at>>
  BY DEF StartSession, CastTypes, CastStates, runVars
<1>2. c \in Active /\ Active' = Active /\ \A d \in Casts : d # c => (Alive(d)' <=> Alive(d))
  BY <1>1, OneCastMoves DEF Active, UnderWay
<1>3. /\ supervisor'.sessions = {s \in supervisor.sessions : cast[s].session # "clean"} \cup {c}
      /\ supervisor'.active_casts = supervisor.active_casts
      /\ supervisor'.shutting_down = supervisor.shutting_down
      /\ supervisor'.listed = supervisor.listed
      /\ supervisor' \in [shutting_down : BOOLEAN, active_casts : Nat, sessions : SUBSET Casts,
                          notified : BOOLEAN, listed : SUBSET Casts]
  BY DEF StartSession, SessionInv
<1>4. \A d \in Casts : Alive(d)' => d \in supervisor'.sessions
  BY <1>2, <1>3 DEF SessionInv, Alive
<1>5. ~Within({"list", "wait"}) /\ stage # "done"
  BY <1>2 DEF SessionInv
<1> QED
  BY <1>1, <1>2, <1>3, <1>4, <1>5 DEF SessionInv, Within

\* The steps that end a cast: a name that is taken, a failure, the commit.
LEMMA EndKeepsSessions ==
  ASSUME NamesInv, SessionInv, NEW c \in Casts,
         \/ ReserveName(c) /\ EntryOf(c) # Unused
         \/ FailCast(c) \/ CommitCast(c)
  PROVE  SessionInv'
<1>1. CastTypes /\ cast[c] \in CastStates
  BY CastRecord DEF NamesInv
<1> DEFINE Ends == /\ \A d \in Casts : d # c => cast'[d] = cast[d]
                   /\ cast[c].step \in UnderWay /\ cast'[c].step \notin UnderWay
                   /\ supervisor' = PermitDropped /\ UNCHANGED <<stage, at>>
                   /\ cast'[c].session = cast[c].session \/ cast[c].session = "open"
<1>2. Ends
  <2>1. CASE ReserveName(c) /\ EntryOf(c) # Unused
    BY <1>1, <2>1 DEF ReserveName, CastTypes, CastStates, runVars, UnderWay
  <2>2. CASE FailCast(c)
    <3> DEFINE started == cast[c].step = "started"
               left == IF started THEN Detached(cast[c].actor, FALSE) ELSE cast[c].actor
    <3>1. PICK error \in {"cancelled", "error"} :
            cast' = [cast EXCEPT ![c].step = "failed", ![c].actor = CastFinished(left, error),
                       ![c].capability = IF started THEN "gone" ELSE @,
                       ![c].session = IF @ = "open" THEN "cancelled" ELSE @]
      BY <2>2 DEF FailCast
    <3> HIDE DEF started, left
    <3>2. /\ \A d \in Casts : d # c => cast'[d] = cast[d]
          /\ cast'[c].step = "failed"
          /\ cast'[c].session = IF cast[c].session = "open" THEN "cancelled" ELSE cast[c].session
      BY <1>1, <3>1 DEF CastTypes, CastStates
    <3>3. cast[c].step \in UnderWay /\ supervisor' = PermitDropped /\ UNCHANGED <<stage, at>>
      BY <2>2 DEF FailCast, runVars, UnderWay
    <3> QED
      BY <3>2, <3>3 DEF UnderWay
  <2>3. CASE CommitCast(c)
    <3> DEFINE actor == CastFinished(Committed(cast[c].actor), "none")
    <3>1. cast' = [cast EXCEPT ![c].step = IF EntryOf(c) = Reserved(c) THEN "done" ELSE "panicked",
                               ![c].actor = actor]
      BY <2>3 DEF CommitCast
    <3> HIDE DEF actor
    <3>2. /\ \A d \in Casts : d # c => cast'[d] = cast[d]
          /\ cast'[c].step \in {"done", "panicked"} /\ cast'[c].session = cast[c].session
      BY <1>1, <3>1 DEF CastTypes, CastStates
    <3>3. cast[c].step \in UnderWay /\ supervisor' = PermitDropped /\ UNCHANGED <<stage, at>>
      BY <2>3 DEF CommitCast, UnderWay
    <3> QED
      BY <3>2, <3>3 DEF UnderWay
  <2> QED
    BY <2>1, <2>2, <2>3
<1>3. c \in Active /\ Active' = Active \ {c}
  BY <1>2, OneCastMoves DEF Active
<1>4. \A d \in Casts : Alive(d)' => Alive(d)
  BY <1>2, OneCastMoves DEF Alive
<1> QED
  BY <1>2, <1>3, <1>4, CastLeaves

\* The steps that leave the count of the casts alone.
LEMMA QuietKeepsSessions ==
  ASSUME NamesInv, SessionInv, NEW c \in Casts,
         \/ ReserveName(c) /\ EntryOf(c) = Unused
         \/ ConstructActor(c) \/ DropCapability(c) \/ DetachActor(c) \/ SessionCleans(c)
  PROVE  SessionInv'
<1>1. CastTypes /\ cast[c] \in CastStates
  BY CastRecord DEF NamesInv
<1> DEFINE Stays == /\ \A d \in Casts : d # c => cast'[d] = cast[d]
                    /\ cast[c].step \in UnderWay <=> cast'[c].step \in UnderWay
                    /\ supervisor' = supervisor /\ UNCHANGED <<stage, at>>
                    /\ \/ cast'[c].session = cast[c].session
                       \/ cast[c].session = "open" \/ cast'[c].session = "clean"
<1>2. Stays
  <2>1. CASE ReserveName(c) /\ EntryOf(c) = Unused
    <3>1. PICK constructing \in BOOLEAN :
            cast' = [cast EXCEPT ![c].step = "reserved", ![c].actor = CastStarted(constructing)]
      BY <2>1 DEF ReserveName
    <3>2. /\ \A d \in Casts : d # c => cast'[d] = cast[d]
          /\ cast'[c].step = "reserved" /\ cast'[c].session = cast[c].session
      BY <1>1, <3>1 DEF CastTypes, CastStates
    <3> QED
      BY <2>1, <3>2 DEF ReserveName, UnderWay, runVars
  <2>2. CASE ConstructActor(c)
    <3>1. /\ \A d \in Casts : d # c => cast'[d] = cast[d]
          /\ cast'[c].step = "constructed" /\ cast'[c].session = cast[c].session
      BY <1>1, <2>2 DEF ConstructActor, CastTypes, CastStates
    <3> QED
      BY <2>2, <3>1 DEF ConstructActor, UnderWay
  <2>3. CASE DropCapability(c)
    BY <1>1, <2>3 DEF DropCapability, CastTypes, CastStates, runVars
  <2>4. CASE DetachActor(c)
    BY <1>1, <2>4 DEF DetachActor, CastTypes, CastStates
  <2>5. CASE SessionCleans(c)
    BY <1>1, <2>5 DEF SessionCleans, CastTypes, CastStates, runVars
  <2> QED
    BY <2>1, <2>2, <2>3, <2>4, <2>5
<1>3. Active' = Active
  BY <1>2, OneCastMoves DEF Active
<1>4. \A d \in Casts : Alive(d)' => Alive(d)
  BY <1>2, OneCastMoves DEF Alive
<1> QED
  BY <1>2, <1>3, <1>4, SessionFrame DEF SessionInv

\* A session leaves the table when it is clean.
LEMMA ReleaseKeepsSessions ==
  ASSUME SessionInv, NEW c \in Casts, ReleaseSession(c)
  PROVE  SessionInv'
<1>1. /\ UNCHANGED <<cast, stage, at>> /\ cast[c].session = "clean"
      /\ supervisor'.sessions = supervisor.sessions \ {c}
      /\ supervisor'.active_casts = supervisor.active_casts
      /\ supervisor'.shutting_down = supervisor.shutting_down
      /\ supervisor'.listed = supervisor.listed
      /\ supervisor' \in [shutting_down : BOOLEAN, active_casts : Nat, sessions : SUBSET Casts,
                          notified : BOOLEAN, listed : SUBSET Casts]
  BY DEF ReleaseSession, runVars, SessionInv
<1>2. Active' = Active /\ \A d \in Casts : Alive(d)' => Alive(d) /\ d \in supervisor'.sessions
  BY <1>1 DEF Active, Alive, SessionInv
<1> QED
  BY <1>1, <1>2, SessionFrame

\* shutdown_and_wait: it lists the sessions only when it has seen no cast under way after
\* it refused new ones, and returns only when those it has listed are clean.
LEMMA ShutdownKeepsSessions ==
  ASSUME CastTypes, SessionInv, Shutdown
  PROVE  SessionInv'
<1>1. CASE RefuseCasts
  <2>1. /\ supervisor'.shutting_down = TRUE /\ supervisor'.sessions = supervisor.sessions
        /\ supervisor'.active_casts = supervisor.active_casts
        /\ supervisor' \in [shutting_down : BOOLEAN, active_casts : Nat, sessions : SUBSET Casts,
                            notified : BOOLEAN, listed : SUBSET Casts]
        /\ stage' = "sessions" /\ at' = "register" /\ UNCHANGED cast
    BY <1>1 DEF RefuseCasts, Shuts, At, SessionInv
  <2>2. Active' = Active /\ \A c \in Casts : Alive(c)' <=> Alive(c)
    BY <2>1 DEF Active, Alive
  <2> QED
    BY <2>1, <2>2 DEF SessionInv, Within
<1>2. CASE RegisterWaiter \/ CheckCasts \/ AwaitChange
  <2>1. /\ supervisor'.shutting_down = supervisor.shutting_down
        /\ supervisor'.sessions = supervisor.sessions
        /\ supervisor'.active_casts = supervisor.active_casts
        /\ supervisor' \in [shutting_down : BOOLEAN, active_casts : Nat, sessions : SUBSET Casts,
                            notified : BOOLEAN, listed : SUBSET Casts]
        /\ Within({"register", "check", "await"}) /\ stage' = "sessions" /\ UNCHANGED cast
        /\ at' \in {"register", "check", "await", "list"}
        /\ at' = "list" => supervisor.active_casts = 0
    BY <1>2 DEF RegisterWaiter, CheckCasts, AwaitChange, Shuts, At, SessionInv, Within
  <2>2. Active' = Active /\ \A c \in Casts : Alive(c)' <=> Alive(c)
    BY <2>1 DEF Active, Alive
  <2>3. at' = "list" => Active = {}
    BY <2>1, FS_EmptySet DEF SessionInv
  <2> QED
    BY <2>1, <2>2, <2>3 DEF SessionInv, Within
<1>3. CASE CancelSessions
  <2>1. /\ supervisor'.shutting_down = supervisor.shutting_down
        /\ supervisor'.sessions = supervisor.sessions
        /\ supervisor'.active_casts = supervisor.active_casts
        /\ supervisor'.listed = supervisor.sessions
        /\ supervisor' \in [shutting_down : BOOLEAN, active_casts : Nat, sessions : SUBSET Casts,
                            notified : BOOLEAN, listed : SUBSET Casts]
        /\ Within({"list"}) /\ stage' = "sessions" /\ at' = "wait"
    BY <1>3 DEF CancelSessions, Shuts, At, SessionInv, Within
  <2>2. \A c \in Casts : /\ cast'[c].step = cast[c].step
                         /\ cast'[c].session # cast[c].session => cast[c].session = "open"
    BY <1>3 DEF CancelSessions, CastTypes, CastStates
  <2>3. Active' = Active /\ \A c \in Casts : Alive(c)' => Alive(c)
    BY <2>2 DEF Active, Alive
  <2> QED
    BY <2>1, <2>3 DEF SessionInv, Within
<1>4. CASE AwaitSessions
  <2>1. /\ UNCHANGED <<cast, supervisor>> /\ stage = "sessions" /\ at = "wait" /\ stage' = "done"
        /\ \A c \in supervisor.listed : cast[c].session = "clean"
    BY <1>4 DEF AwaitSessions, At, To, castVars
  <2>2. Active' = Active /\ \A c \in Casts : ~Alive(c) /\ ~Alive(c)'
    BY <2>1 DEF SessionInv, Active, Alive, Within
  <2> QED
    BY <2>1, <2>2 DEF SessionInv, Within
<1> QED
  BY <1>1, <1>2, <1>3, <1>4 DEF Shutdown

\* What leaves the casts alone, and does not move a lifecycle that has returned.
LEMMA OthersKeepSessions ==
  ASSUME SessionInv, UNCHANGED <<cast, supervisor>>,
         \/ UNCHANGED <<stage, at>>
         \/ /\ stage \notin {"sessions", "done"} /\ stage' # "done"
            /\ stage' = "sessions" => at' = "entry"
  PROVE  SessionInv'
<1>1. Active' = Active /\ \A c \in Casts : Alive(c)' <=> Alive(c)
  BY DEF Active, Alive
<1> QED
  BY <1>1 DEF SessionInv, Within

\* Every step of a Production keeps the sessions with their supervisor.
LEMMA SessionStep ==
  ASSUME NamesInv, RunInv, SessionInv, [ProdNext]_prodVars
  PROVE  SessionInv'
<1>1. CASE RunNext /\ UNCHANGED castVars
  BY <1>1, RunStaysOver, OthersKeepSessions DEF RunInv, castVars
<1>2. CASE UNCHANGED prodVars
  BY <1>2, OthersKeepSessions DEF prodVars, runVars, castVars
<1>3. CASE Shutdown
  BY <1>3, ShutdownKeepsSessions DEF NamesInv
<1>4. ASSUME NEW c \in Casts,
             \/ BeginCast(c) \/ CastStep(c) \/ DropCapability(c) \/ DetachActor(c)
             \/ SessionCleans(c) \/ ReleaseSession(c)
      PROVE  SessionInv'
  BY <1>4, BeginKeepsSessions, StartKeepsSessions, EndKeepsSessions, QuietKeepsSessions,
     ReleaseKeepsSessions DEF NamesInv, CastStep
<1>5. ASSUME NEW n \in Names, Lookup(n) PROVE SessionInv'
  BY <1>5, OthersKeepSessions DEF Lookup, runVars
<1> QED
  BY <1>1, <1>2, <1>3, <1>4, <1>5 DEF ProdNext, CastNext

\* A Production begins without casts and sessions.
LEMMA SessionInit ==
  ASSUME ProdInit
  PROVE  SessionInv
<1>1. \A c \in Casts : cast[c].step = "idle" /\ cast[c].session = "none"
  BY DEF ProdInit, NoCast
<1>2. Active = {} /\ \A c \in Casts : ~Alive(c)
  BY <1>1 DEF Active, UnderWay, Alive
<1>3. stage = "bind"
  BY DEF ProdInit, RunInit
<1> QED
  BY <1>2, <1>3, FS_EmptySet DEF SessionInv, ProdInit, Within

\* Nothing outlives a Run (NothingOutlivesTheRun): when the lifecycle returns its Scene is
\* closed and drained and its task factory gone, and when shutdown_and_wait returns every
\* session is cleaned up, whatever the number of casts that race it.  The inductive
\* invariant is RunInv /\ NamesInv /\ SessionInv: the supervisor counts exactly the casts
\* under way, and what it listed is all there is.
THEOREM NothingEverOutlivesTheRun == ProdSpec => []NothingOutlivesTheRun
<1>1. RunInv /\ NamesInv /\ SessionInv => NothingOutlivesTheRun
  <2> SUFFICES ASSUME RunInv, NamesInv, SessionInv PROVE NothingOutlivesTheRun
    OBVIOUS
  <2>1. Over => scene.phase = "Closed" /\ scene.operations = 0 /\ factory # "wrapper" /\ loop = "free"
    BY DEF RunInv, FlowInv, RunTypes, SceneInv, Over
  <2>2. Over /\ ~Broken(diag) => "open" \notin {diag.scene.span, diag.drain.drain, diag.drain.cleanup}
    BY <2>1 DEF RunInv, DiagInv, SceneSpans, NoSpans, Over
  <2>3. stage = "done" => \A c \in Casts : cast[c].session \in {"none", "clean"}
    BY DEF NamesInv, CastTypes, CastStates, SessionInv, Alive
  <2> QED
    BY <2>1, <2>2, <2>3 DEF NothingOutlivesTheRun
<1>2. ProdInit => RunInv /\ NamesInv /\ SessionInv
  BY NamesInit, ProdRunInit, SessionInit
<1>3. RunInv /\ NamesInv /\ SessionInv /\ [ProdNext]_prodVars => (RunInv /\ NamesInv /\ SessionInv)'
  BY NamesStep, RunInvStep, SessionStep
<1> QED
  BY <1>1, <1>2, <1>3, PTL DEF ProdSpec
=============================================================================
