------------------------------ MODULE KarmaProofs ------------------------------
(***************************************************************************)
(* Theorems about users.karma, for any number of workers, readers, reports *)
(* and authors, and any award.                                             *)
(***************************************************************************)
EXTENDS KarmaWorker, OutboxConsumerProofs, FiniteSetTheorems

-----------------------------------------------------------------------------
(* Figures.                                                                *)

\* A product grows with its second factor.
LEMMA TimesIsMonotone ==
  ASSUME NEW k \in Nat, NEW a \in Nat, NEW b \in Nat, a <= b
  PROVE  k * a <= k * b
<1>1. b - a \in Nat /\ b = a + (b - a)
  OBVIOUS
<1>2. PICK d \in Nat : b = a + d
  BY <1>1
<1>3. k * (a + d) = k * a + k * d /\ k * d \in Nat /\ k * a \in Nat
  OBVIOUS
<1> QED
  BY <1>2, <1>3

\* What an author earns is a figure: there are so many reports and flags.
LEMMA EarnedIsFigure ==
  ASSUME flags \in SUBSET (Readers \X Reports), NEW u \in Users
  PROVE  Earned(u) \in Figures
<1> DEFINE mine == {r \in Reports : AuthorOf[r] = u /\ Kept(r)}
           theirs == {f \in flags : f[2] \in mine}
           all == Readers \X Reports
<1>1. IsFiniteSet(Reports) /\ IsFiniteSet(all)
  BY FiniteAssumption, FS_Product
<1>2. mine \subseteq Reports /\ theirs \subseteq all
  OBVIOUS
<1>3. Earned(u) = Award * Cardinality(mine) + Cardinality(theirs)
  BY DEF Earned
<1> HIDE DEF mine, theirs, all
<1>4. /\ IsFiniteSet(mine) /\ Cardinality(mine) <= Cardinality(Reports)
      /\ IsFiniteSet(theirs) /\ Cardinality(theirs) <= Cardinality(all)
  BY <1>1, <1>2, FS_Subset
<1>5. /\ Cardinality(mine) \in Nat /\ Cardinality(Reports) \in Nat
      /\ Cardinality(theirs) \in Nat /\ Cardinality(all) \in Nat
  BY <1>1, <1>4, FS_CardinalityType
<1>6. /\ Award * Cardinality(mine) <= Award * Cardinality(Reports)
      /\ Award * Cardinality(mine) \in Nat /\ Award * Cardinality(Reports) \in Nat
  BY <1>4, <1>5, AwardAssumption, TimesIsMonotone
<1>7. PICK a \in Nat, b \in Nat, c \in Nat, d \in Nat :
        /\ a = Award * Cardinality(mine) /\ b = Award * Cardinality(Reports)
        /\ c = Cardinality(theirs) /\ d = Cardinality(all)
        /\ a <= b /\ c <= d
  BY <1>4, <1>5, <1>6
<1>8. a + c \in 0 .. (b + d)
  BY <1>7
<1> QED
  BY <1>3, <1>7, <1>8 DEF Figures, all

\* No karma is a figure.
LEMMA ZeroIsFigure == 0 \in Figures
<1>1. IsFiniteSet(Reports) /\ IsFiniteSet(Readers \X Reports)
  BY FiniteAssumption, FS_Product
<1>2. PICK a \in Nat, b \in Nat :
        Cardinality(Reports) = a /\ Cardinality(Readers \X Reports) = b
  BY <1>1, FS_CardinalityType
<1>3. Award * a \in Nat
  BY AwardAssumption
<1> QED
  BY <1>2, <1>3 DEF Figures

\* What an author earns depends on the flags and on the author's own reports.
LEMMA SameEarned ==
  ASSUME NEW u \in Users,
         \A r \in Reports : AuthorOf[r] = u => (Kept(r)' <=> Kept(r)),
         {f \in flags' : f[2] \in Reports /\ AuthorOf[f[2]] = u} =
           {f \in flags : f[2] \in Reports /\ AuthorOf[f[2]] = u}
  PROVE  Earned(u)' = Earned(u)
<1> DEFINE mine == {r \in Reports : AuthorOf[r] = u /\ Kept(r)}
           after == {r \in Reports : AuthorOf[r] = u /\ Kept(r)'}
<1>1. after = mine
  OBVIOUS
<1>2. {f \in flags' : f[2] \in after} = {f \in flags : f[2] \in mine}
  BY <1>1
<1>3. /\ Earned(u) = Award * Cardinality(mine) + Cardinality({f \in flags : f[2] \in mine})
      /\ Earned(u)' = Award * Cardinality(after) + Cardinality({f \in flags' : f[2] \in after})
  BY DEF Earned
<1> HIDE DEF mine, after
<1> QED
  BY <1>1, <1>2, <1>3

\* A step away from the reports keeps them as they are.
LEMMA SameKept ==
  ASSUME UNCHANGED feedVars
  PROVE  \A r \in Reports : Kept(r)' <=> Kept(r)
BY DEF feedVars, Kept, Ended

-----------------------------------------------------------------------------
(* Type correctness.                                                       *)

Handling == {"read", "mark"}

FiguresTypeOK ==
  /\ karma \in [Users -> Figures]
  /\ flags \in SUBSET (Readers \X Reports)
  /\ asked \in [Users -> Nat]
  /\ keyed \in SUBSET Users
  /\ calc \in [Actors -> CalcPhases]
  /\ flagging \in [Readers -> Reports \cup {NoReport}]
  /\ owner \in [Actors -> Users \cup {NoUser}]
  /\ before \in [Actors -> Figures]
  /\ total \in [Actors -> Figures]
  /\ overtaken \in SUBSET Actors
  /\ unsure \in SUBSET Users

\* Where an actor is in a recompute, and what it must hold to be there.
ActorsFit ==
  /\ \A p \in Actors : calc[p] \in {"idle", "checked"} <=> owner[p] = NoUser
  /\ \A w \in Workers : /\ calc[w] # "idle" <=> pc[w] = "recompute"
                        /\ calc[w] # "checked"
  /\ \A x \in Readers : calc[x] = "checked" => flagging[x] \in Reports
  /\ \A p \in overtaken : calc[p] \in {"sum", "update"}

TypeInv == QueueInv(Phases, Handling) /\ FiguresTypeOK /\ ActorsFit

\* The phases of a worker.
LEMMA PhasesAreFit == PhasesFit(Phases, Handling)
BY DEF PhasesFit, Phases, Handling

\* The inductive invariant is the type invariant, and more.
LEMMA TypeInvIsTypeOK == TypeInv => TypeOK
BY DEF TypeInv, QueueInv, FiguresTypeOK, TypeOK

\* Nobody has earned anything.
LEMMA InitTypeInv == Init => TypeInv
<1> SUFFICES ASSUME Init PROVE TypeInv
  OBVIOUS
<1>1. QueueInv(Phases, Handling)
  BY InitQueueInv, PhasesAreFit DEF Init
<1>2. FiguresTypeOK
  BY ZeroIsFigure DEF Init, FiguresTypeOK, CalcPhases
<1>3. ActorsFit
  BY DEF Init, ConsumerInit, ActorsFit, Actors
<1> QED
  BY <1>1, <1>2, <1>3 DEF TypeInv

\* What stands in the invariant, and who is an actor.
LEMMA Parts ==
  ASSUME TypeInv
  PROVE  /\ QueueInv(Phases, Handling) /\ FiguresTypeOK /\ ActorsFit
         /\ PhasesFit(Phases, Handling) /\ FeedTypeOK
         /\ pc \in [Workers -> Phases]
         /\ Workers \subseteq Actors /\ Readers \subseteq Actors
         /\ \A p \in Actors : calc[p] \in {"previous", "sum", "update"} => owner[p] \in Users
BY PhasesAreFit DEF TypeInv, QueueInv, JobTypeOK, Actors, FiguresTypeOK, ActorsFit

\* A worker that has an event has a report, and so an author.
LEMMA AuthorIsUser ==
  ASSUME TypeInv, NEW w \in Workers, pc[w] \in Handling
  PROVE  /\ ev[w][1] \in Reports /\ AuthorOf[ev[w][1]] \in Users
         /\ ev[w] \in Committed
<1>1. ev[w] \in Committed
  BY DEF TypeInv, QueueInv
<1>2. ev[w][1] \in Reports
  BY <1>1, EventIdsArePairs DEF Committed
<1> QED
  BY <1>1, <1>2, KarmaAuthorAssumption

\* Every step of a recompute keeps the types.
LEMMA RecomputeKeepsTypeInv == ASSUME TypeInv, NEW p \in Actors, Recompute(p) PROVE TypeInv'
<1>0. /\ QueueInv(Phases, Handling) /\ FiguresTypeOK /\ ActorsFit
      /\ pc \in [Workers -> Phases]
      /\ calc[p] \in {"previous", "sum", "update"} => owner[p] \in Users
  BY Parts
<1>1. CASE ReadPrevious(p)
  <2>1. QueueInv(Phases, Handling)'
    BY <1>0, <1>1, QueueUntouched DEF ReadPrevious
  <2>2. FiguresTypeOK'
    BY <1>0, <1>1 DEF ReadPrevious, FiguresTypeOK, CalcPhases
  <2>3. ActorsFit'
    BY <1>0, <1>1 DEF ReadPrevious, ActorsFit, FiguresTypeOK, consumerVars
  <2> QED
    BY <2>1, <2>2, <2>3 DEF TypeInv
<1>2. CASE Sum(p)
  <2>1. QueueInv(Phases, Handling)'
    BY <1>0, <1>2, QueueUntouched DEF Sum
  <2>2. Earned(owner[p]) \in Figures
    BY <1>0, <1>2, EarnedIsFigure DEF Sum, FiguresTypeOK
  <2>3. FiguresTypeOK'
    BY <1>0, <1>2, <2>2 DEF Sum, FiguresTypeOK, CalcPhases
  <2>4. ActorsFit'
    BY <1>0, <1>2 DEF Sum, ActorsFit, FiguresTypeOK, consumerVars
  <2> QED
    BY <2>1, <2>3, <2>4 DEF TypeInv
<1>3. CASE Update(p)
  <2>1. /\ calc[p] = "update" /\ owner[p] \in Users
        /\ karma' = [karma EXCEPT ![owner[p]] =
             IF total[p] = before[p] THEN karma[owner[p]] ELSE total[p]]
        /\ unsure' = IF p \in overtaken THEN unsure \cup {owner[p]} ELSE unsure
        /\ overtaken' = (overtaken \ {p}) \cup Rivals(p)
        /\ calc' = [calc EXCEPT ![p] = "idle"]
        /\ owner' = [owner EXCEPT ![p] = NoUser]
        /\ before' = [before EXCEPT ![p] = 0]
        /\ total' = [total EXCEPT ![p] = 0]
        /\ pc' = [w \in Workers |-> IF w = p THEN "idle" ELSE pc[w]]
        /\ UNCHANGED <<feedVars, ev, todo, onJob, queueVars, failures>>
        /\ UNCHANGED <<flags, asked, keyed, flagging>>
    BY <1>0, <1>3 DEF Update, Finish, LeaveRecompute
  <2>2. QueueInv(Phases, Handling)'
    <3>1. /\ pc' \in [Workers -> Phases] /\ failures' \in 0 .. MaxFailures
          /\ \A w \in Workers : pc'[w] \in Handling => pc[w] \in Handling
      BY <1>0, <2>1 DEF Phases, Handling, QueueInv, JobTypeOK
    <3> QED
      BY <1>0, <2>1, <3>1, PhasesKeepQueue
  <2>3. /\ Rivals(p) \subseteq Actors
        /\ \A q \in Rivals(p) : q # p /\ calc[q] \in {"sum", "update"}
    BY DEF Rivals
  <2>4. FiguresTypeOK'
    BY <1>0, <2>1, <2>3, ZeroIsFigure DEF FiguresTypeOK, CalcPhases
  <2>5. ActorsFit'
    BY <1>0, <2>1, <2>3 DEF ActorsFit, FiguresTypeOK, Actors
  <2> QED
    BY <2>2, <2>4, <2>5 DEF TypeInv
<1> QED
  BY <1>1, <1>2, <1>3 DEF Recompute

\* Every step of the consumer keeps the types.
LEMMA ConsumerKeepsTypeInv ==
  ASSUME TypeInv, NEW w \in Workers,
         \/ Begin(w)
         \/ Enqueue(w)
         \/ Mark(w)
         \/ \E u \in Users : StartRecompute(w, u)
         \/ Crash(w)
  PROVE  TypeInv'
<1>0. /\ QueueInv(Phases, Handling) /\ FiguresTypeOK /\ ActorsFit
      /\ PhasesFit(Phases, Handling) /\ pc \in [Workers -> Phases]
      /\ w \in Actors
      /\ calc[w] \in {"previous", "sum", "update"} => owner[w] \in Users
  BY Parts
<1>1. CASE Begin(w)
  <2>1. QueueInv(Phases, Handling)'
    BY <1>0, <1>1, StartKeepsQueue DEF Begin
  <2>2. \E p \in {"next", "read"} : pc' = [pc EXCEPT ![w] = p]
    BY <1>1 DEF Begin, Start, StartSweep, Take, StartEventJob, Handle
  <2>3. pc[w] # "recompute"
    BY <1>1 DEF Begin, Start, StartSweep, Take, StartEventJob
  <2>4. FiguresTypeOK' /\ ActorsFit'
    BY <1>0, <1>1, <2>2, <2>3 DEF Begin, karmaVars, FiguresTypeOK, ActorsFit
  <2> QED
    BY <2>1, <2>4 DEF TypeInv
<1>2. CASE Enqueue(w)
  <2>1. QueueInv(Phases, Handling)'
    BY <1>0, <1>2, HandlerKeepsQueue DEF Enqueue, Handling
  <2>2. PICK u \in Users :
          /\ pc[w] = "read" /\ pc' = [pc EXCEPT ![w] = "mark"]
          /\ \/ /\ unsure' \in {unsure, unsure \cup {u}}
                /\ UNCHANGED <<asked, keyed>>
             \/ /\ asked' = [asked EXCEPT ![u] = asked[u] + 1]
                /\ keyed' = keyed \cup {u}
                /\ UNCHANGED unsure
          /\ UNCHANGED <<karma, flags, calc, flagging, owner, before, total, overtaken>>
    BY <1>2, AuthorIsUser DEF Enqueue, Handling
  <2>3. FiguresTypeOK'
    BY <1>0, <2>2 DEF FiguresTypeOK
  <2>4. ActorsFit'
    BY <1>0, <2>2 DEF ActorsFit
  <2> QED
    BY <2>1, <2>3, <2>4 DEF TypeInv
<1>3. CASE Mark(w)
  <2>1. QueueInv(Phases, Handling)'
    BY <1>0, <1>3, StampKeepsQueue DEF Mark
  <2>2. /\ pc[w] = "mark"
        /\ \E p \in {"next", "idle"} : pc' = [pc EXCEPT ![w] = p]
    BY <1>3 DEF Mark, Stamp
  <2>3. FiguresTypeOK' /\ ActorsFit'
    BY <1>0, <1>3, <2>2 DEF Mark, karmaVars, FiguresTypeOK, ActorsFit
  <2> QED
    BY <2>1, <2>3 DEF TypeInv
<1>4. CASE \E u \in Users : StartRecompute(w, u)
  <2>1. PICK u \in Users : StartRecompute(w, u)
    BY <1>4
  <2>2. /\ pc[w] = "idle" /\ asked[u] > 0
        /\ asked' = [asked EXCEPT ![u] = asked[u] - 1]
        /\ pc' = [pc EXCEPT ![w] = "recompute"]
        /\ calc' = [calc EXCEPT ![w] = "previous"]
        /\ owner' = [owner EXCEPT ![w] = u]
        /\ UNCHANGED <<feedVars, ev, todo, onJob, queueVars, failures>>
        /\ UNCHANGED <<karma, flags, keyed, flagging, before, total, overtaken, unsure>>
    BY <2>1 DEF StartRecompute, EnterRecompute
  <2>3. QueueInv(Phases, Handling)'
    <3>1. /\ pc' \in [Workers -> Phases] /\ failures' \in 0 .. MaxFailures
          /\ \A v \in Workers : pc'[v] \in Handling => pc[v] \in Handling
      BY <1>0, <2>2 DEF Phases, Handling, QueueInv, JobTypeOK
    <3> QED
      BY <1>0, <2>2, <3>1, PhasesKeepQueue
  <2>4. FiguresTypeOK'
    BY <1>0, <2>2 DEF FiguresTypeOK, CalcPhases
  <2>5. ActorsFit'
    BY <1>0, <2>2, NoUserAssumption, ActorsAssumption DEF ActorsFit, FiguresTypeOK
  <2> QED
    BY <2>3, <2>4, <2>5 DEF TypeInv
<1>5. CASE Crash(w)
  <2>1. QueueInv(Phases, Handling)'
    BY <1>0, <1>5, FailKeepsQueue DEF Crash
  <2>2. /\ pc' = [pc EXCEPT ![w] = "idle"]
        /\ calc' = [calc EXCEPT ![w] = "idle"]
        /\ owner' = [owner EXCEPT ![w] = NoUser]
        /\ before' = [before EXCEPT ![w] = 0]
        /\ total' = [total EXCEPT ![w] = 0]
        /\ overtaken' = overtaken \ {w}
        /\ UNCHANGED <<karma, flags, keyed, flagging>>
    BY <1>5 DEF Crash, Fail, LeaveRecompute
  <2>3. asked' \in [Users -> Nat] /\ unsure' \in SUBSET Users
    <3>1. CASE pc[w] = "recompute"
      <4>1. owner[w] \in Users
        BY <1>0, <3>1 DEF ActorsFit, FiguresTypeOK, CalcPhases, Actors
      <4>2. \/ asked' = [asked EXCEPT ![owner[w]] = asked[owner[w]] + 1] /\ UNCHANGED unsure
            \/ unsure' = unsure \cup {owner[w]} /\ UNCHANGED asked
        BY <1>5, <3>1 DEF Crash
      <4> QED
        BY <1>0, <4>1, <4>2 DEF FiguresTypeOK
    <3>2. CASE pc[w] # "recompute"
      BY <1>0, <1>5, <3>2 DEF Crash, FiguresTypeOK
    <3> QED
      BY <3>1, <3>2
  <2>4. FiguresTypeOK'
    BY <1>0, <2>2, <2>3, ZeroIsFigure DEF FiguresTypeOK, CalcPhases
  <2>5. ActorsFit'
    BY <1>0, <2>2, ActorsAssumption DEF ActorsFit, FiguresTypeOK
  <2> QED
    BY <2>1, <2>4, <2>5 DEF TypeInv
<1> QED
  BY <1>1, <1>2, <1>3, <1>4, <1>5

\* Every step of a flag request keeps the types.
LEMMA FlagKeepsTypeInv ==
  ASSUME TypeInv, NEW x \in Readers,
         \/ \E r \in Reports : CheckFlag(x, r)
         \/ InsertFlag(x)
         \/ \E r \in Reports : Unflag(x, r)
         \/ AbandonFlag(x)
  PROVE  TypeInv'
<1>0. /\ QueueInv(Phases, Handling) /\ FiguresTypeOK /\ ActorsFit
      /\ pc \in [Workers -> Phases] /\ x \in Actors /\ x \notin Workers
  BY Parts, ActorsAssumption
<1>1. CASE \E r \in Reports : CheckFlag(x, r)
  <2>1. PICK r \in Reports : CheckFlag(x, r)
    BY <1>1
  <2>2. QueueInv(Phases, Handling)'
    BY <1>0, <2>1, QueueUntouched DEF CheckFlag
  <2>3. FiguresTypeOK' /\ ActorsFit'
    BY <1>0, <2>1 DEF CheckFlag, FiguresTypeOK, CalcPhases, ActorsFit, consumerVars
  <2> QED
    BY <2>2, <2>3 DEF TypeInv
<1>2. CASE InsertFlag(x)
  <2>1. QueueInv(Phases, Handling)'
    BY <1>0, <1>2, QueueUntouched DEF InsertFlag
  <2>2. PICK r \in Reports : flagging[x] = r
    BY <1>0, <1>2 DEF InsertFlag, ActorsFit
  <2>3. AuthorOf[r] \in Users /\ AuthorOf[r] # NoUser
    BY KarmaAuthorAssumption, NoUserAssumption
  <2>4. /\ flags' = flags \cup {<<x, r>>}
        /\ calc' = [calc EXCEPT ![x] = "previous"]
        /\ owner' = [owner EXCEPT ![x] = AuthorOf[r]]
        /\ flagging' = [flagging EXCEPT ![x] = NoReport]
        /\ calc[x] = "checked"
        /\ UNCHANGED <<consumerVars, karma, asked, keyed, before, total, overtaken, unsure>>
    BY <1>2, <2>2 DEF InsertFlag, EnterRecompute
  <2>5. FiguresTypeOK' /\ ActorsFit'
    BY <1>0, <2>3, <2>4 DEF FiguresTypeOK, CalcPhases, ActorsFit, consumerVars
  <2> QED
    BY <2>1, <2>5 DEF TypeInv
<1>3. CASE \E r \in Reports : Unflag(x, r)
  <2>1. PICK r \in Reports : Unflag(x, r)
    BY <1>3
  <2>2. QueueInv(Phases, Handling)'
    BY <1>0, <2>1, QueueUntouched DEF Unflag
  <2>3. AuthorOf[r] \in Users /\ AuthorOf[r] # NoUser
    BY KarmaAuthorAssumption, NoUserAssumption
  <2>4. /\ flags' = flags \ {<<x, r>>}
        /\ calc' = [calc EXCEPT ![x] = "previous"]
        /\ owner' = [owner EXCEPT ![x] = AuthorOf[r]]
        /\ calc[x] = "idle"
        /\ UNCHANGED <<consumerVars, karma, asked, keyed, flagging, before, total,
                       overtaken, unsure>>
    BY <2>1 DEF Unflag, EnterRecompute
  <2>5. FiguresTypeOK' /\ ActorsFit'
    BY <1>0, <2>3, <2>4 DEF FiguresTypeOK, CalcPhases, ActorsFit, consumerVars
  <2> QED
    BY <2>2, <2>5 DEF TypeInv
<1>4. CASE AbandonFlag(x)
  <2>1. /\ failures' \in 0 .. MaxFailures
        /\ UNCHANGED <<feedVars, pc, ev, todo, onJob, queueVars>>
    BY <1>0, <1>4, MaxFailuresAssumption DEF AbandonFlag, QueueInv, JobTypeOK
  <2>2. QueueInv(Phases, Handling)'
    BY <1>0, <2>1, PhasesKeepQueue
  <2>3. /\ calc' = [calc EXCEPT ![x] = "idle"]
        /\ owner' = [owner EXCEPT ![x] = NoUser]
        /\ before' = [before EXCEPT ![x] = 0]
        /\ total' = [total EXCEPT ![x] = 0]
        /\ unsure' = IF owner[x] = NoUser THEN unsure ELSE unsure \cup {owner[x]}
        /\ overtaken' = overtaken \ {x}
        /\ flagging' = [flagging EXCEPT ![x] = NoReport]
        /\ UNCHANGED <<karma, flags, asked, keyed>>
    BY <1>4 DEF AbandonFlag, LeaveRecompute
  <2>4. FiguresTypeOK'
    BY <1>0, <2>3, ZeroIsFigure DEF FiguresTypeOK, CalcPhases
  <2>5. ActorsFit'
    BY <1>0, <2>1, <2>3 DEF ActorsFit, FiguresTypeOK
  <2> QED
    BY <2>2, <2>4, <2>5 DEF TypeInv
<1> QED
  BY <1>1, <1>2, <1>3, <1>4

\* Every step keeps the types.
LEMMA NextKeepsTypeInv == ASSUME TypeInv, [Next]_vars PROVE TypeInv'
<1>0. QueueInv(Phases, Handling) /\ FiguresTypeOK /\ ActorsFit
  BY Parts
<1>1. CASE ReportsChange
  <2>1. QueueInv(Phases, Handling)'
    BY <1>0, <1>1, ProduceKeepsQueue DEF ReportsChange, workerVars
  <2>2. FiguresTypeOK' /\ ActorsFit'
    BY <1>0, <1>1 DEF ReportsChange, workerVars, karmaVars, consumerVars,
       FiguresTypeOK, ActorsFit
  <2> QED
    BY <2>1, <2>2 DEF TypeInv
<1>2. CASE Hear
  <2>1. QueueInv(Phases, Handling)'
    BY <1>0, <1>2, NotifyKeepsQueue DEF Hear
  <2>2. FiguresTypeOK' /\ ActorsFit'
    BY <1>0, <1>2 DEF Hear, Notify, jobVars, karmaVars, FiguresTypeOK, ActorsFit
  <2> QED
    BY <2>1, <2>2 DEF TypeInv
<1>3. CASE \E w \in Workers :
             \/ Begin(w)
             \/ Enqueue(w)
             \/ Mark(w)
             \/ \E u \in Users : StartRecompute(w, u)
             \/ Crash(w)
  BY <1>3, ConsumerKeepsTypeInv
<1>4. CASE \E p \in Actors : Recompute(p)
  BY <1>4, RecomputeKeepsTypeInv
<1>5. CASE \E u \in Users : KeyExpires(u)
  <2>1. QueueInv(Phases, Handling)'
    BY <1>0, <1>5, QueueUntouched DEF KeyExpires
  <2>2. FiguresTypeOK' /\ ActorsFit'
    BY <1>0, <1>5 DEF KeyExpires, consumerVars, FiguresTypeOK, ActorsFit
  <2> QED
    BY <2>1, <2>2 DEF TypeInv
<1>6. CASE \E x \in Readers :
             \/ \E r \in Reports : CheckFlag(x, r)
             \/ InsertFlag(x)
             \/ \E r \in Reports : Unflag(x, r)
             \/ AbandonFlag(x)
  BY <1>6, FlagKeepsTypeInv
<1>7. CASE UNCHANGED vars
  <2>1. QueueInv(Phases, Handling)'
    BY <1>0, <1>7, QueueUntouched DEF vars, workerVars
  <2>2. FiguresTypeOK' /\ ActorsFit'
    BY <1>0, <1>7 DEF vars, workerVars, karmaVars, consumerVars, FiguresTypeOK, ActorsFit
  <2> QED
    BY <2>1, <2>2 DEF TypeInv
<1> QED
  BY <1>1, <1>2, <1>3, <1>4, <1>5, <1>6, <1>7 DEF Next

\* Every actor in a recompute has a user, every worker in one is not handling an
\* event, and no figure exceeds what all reports and all flags could earn.
THEOREM KarmaTypeInv == Spec => []TypeInv
BY InitTypeInv, NextKeepsTypeInv, PTL DEF Spec

\* Every variable of the karma consumer and of the flag requests keeps its type.
THEOREM KarmaTypeOK == Spec => []TypeOK
BY KarmaTypeInv, TypeInvIsTypeOK, PTL

-----------------------------------------------------------------------------
(* A figure at rest is right.  SettledKarma is not inductive: while a figure *)
(* is being recomputed it may be wrong, and what makes the recompute end    *)
(* well is that its sum is right and that its UPDATE, which compares the    *)
(* sum with the figure read first, compares it with the figure there is.    *)

\* An event about u that has not asked for a recompute yet.
Owed(u) ==
  \E e \in pending[Mine] :
    /\ AuthorOf[e[1]] = u
    /\ \A w \in Workers : ~ (pc[w] = "mark" /\ ev[w] = e)

\* What u earns may change with nothing to tell, or will be summed again, or
\* was once left behind.
Coming(u) == Owed(u) \/ Awaited(u) \/ u \in unsure \/ \E r \in unannounced : AuthorOf[r] = u

\* The actors that hold a sum of u and have not written it.
Updating(u) == {p \in Actors : owner[p] = u /\ calc[p] = "update"}

\* With nothing coming the figure is right, or the only recompute under way will
\* make it right.
FigureIsRight(u) ==
  ~ Coming(u) =>
    /\ Updating(u) = {} => karma[u] = Earned(u)
    /\ \A p \in Actors : Updating(u) = {p} /\ p \notin overtaken => total[p] = Earned(u)

\* What an actor read first is still the figure, or it was overtaken.
BeforeIsCurrent ==
  \A p \in Actors :
    calc[p] \in {"sum", "update"} /\ p \notin overtaken => before[p] = karma[owner[p]]

KarmaInv == TypeInv /\ BeforeIsCurrent /\ \A u \in Users : FigureIsRight(u)

\* Of a user for whom nothing is left to do nobody holds a sum.
LEMMA KarmaInvSettles == KarmaInv => SettledKarma
<1> SUFFICES ASSUME KarmaInv, NEW u \in Users, Quiet(u), u \notin unsure
             PROVE  karma[u] = Earned(u)
  BY DEF SettledKarma
<1>1. asked[u] = 0 /\ ~ (asked[u] > 0)
  BY DEF Quiet
<1>2. ~ Coming(u) /\ Updating(u) = {}
  BY <1>1 DEF Quiet, Coming, Owed, Awaited, Updating
<1> QED
  BY <1>2 DEF KarmaInv, FigureIsRight

\* Nobody has submitted anything.
LEMMA InitKarmaInv == Init => KarmaInv
<1> SUFFICES ASSUME Init PROVE KarmaInv
  OBVIOUS
<1>1. TypeInv
  BY InitTypeInv
<1>2. BeforeIsCurrent
  BY DEF Init, BeforeIsCurrent
<1>3. ASSUME NEW u \in Users PROVE FigureIsRight(u)
  <2>1. Updating(u) = {}
    BY DEF Init, Updating
  <2>2. \A r \in Reports : ~ Kept(r)
    BY DEF Init, FeedInit, OutboxInit, Kept
  <2> DEFINE mine == {r \in Reports : AuthorOf[r] = u /\ Kept(r)}
  <2>3. mine = {} /\ {f \in flags : f[2] \in mine} = {}
    BY <2>2
  <2>4. Earned(u) = Award * Cardinality({}) + Cardinality({})
    BY <2>3 DEF Earned
  <2>5. Earned(u) = 0
    BY <2>4, FS_EmptySet, AwardAssumption
  <2> QED
    BY <2>1, <2>5 DEF Init, FigureIsRight
<1> QED
  BY <1>1, <1>2, <1>3 DEF KarmaInv

\* A step that leaves u alone, or only gives cause for another recompute of u.
LEMMA OtherFigures ==
  ASSUME NEW u \in Users, FigureIsRight(u),
         Coming(u) => Coming(u)',
         karma'[u] = karma[u], Earned(u)' = Earned(u),
         Updating(u)' = Updating(u),
         \A p \in Updating(u) : total'[p] = total[p] /\ (p \in overtaken => p \in overtaken')
  PROVE  FigureIsRight(u)'
<1>1. SUFFICES ASSUME ~ Coming(u)', ~ Coming(u)
               PROVE  /\ Updating(u)' = {} => karma'[u] = Earned(u)'
                      /\ \A p \in Actors : Updating(u)' = {p} /\ p \notin overtaken'
                                           => total'[p] = Earned(u)'
  BY DEF FigureIsRight
<1>2. /\ Updating(u) = {} => karma[u] = Earned(u)
      /\ \A p \in Actors : Updating(u) = {p} /\ p \notin overtaken => total[p] = Earned(u)
  BY <1>1 DEF FigureIsRight
<1>3. ASSUME NEW p \in Actors, Updating(u)' = {p}, p \notin overtaken'
      PROVE  total'[p] = Earned(u)'
  <2>1. p \in Updating(u) /\ Updating(u) = {p}
    BY <1>3
  <2> QED
    BY <1>2, <1>3, <2>1
<1> QED
  BY <1>2, <1>3

\* While something is coming the figure may be anything.
LEMMA ComingFigure == ASSUME NEW u \in Users, Coming(u)' PROVE FigureIsRight(u)'
BY DEF FigureIsRight

\* A step of the reports that changes what u earns leaves an event about u, or a
\* restored report.
LEMMA ReportsKeepKarmaInv == ASSUME KarmaInv, ReportsChange PROVE KarmaInv'
<1>0. TypeInv /\ BeforeIsCurrent /\ QueueInv(Phases, Handling) /\ FeedTypeOK
  BY Parts DEF KarmaInv
<1>1. FeedStep /\ UNCHANGED workerVars
  BY <1>0, ProduceIsFeedStep DEF ReportsChange
<1>2. UNCHANGED <<pc, ev, karma, flags, asked, keyed, calc, flagging, owner, before, total,
                  overtaken, unsure>>
  BY <1>1 DEF workerVars, consumerVars, karmaVars
<1>3. TypeInv'
  BY <1>0, NextKeepsTypeInv DEF Next
<1>4. BeforeIsCurrent'
  BY <1>0, <1>2 DEF BeforeIsCurrent
<1>5. /\ pending[Mine] \subseteq pending'[Mine] /\ unannounced \subseteq unannounced'
      /\ \A r \in Reports : ChangeIsTold(r)
      /\ \A r \in Reports : log'[r] = log[r] \/ \E c : Told(r, c)
  BY <1>1 DEF FeedStep
<1>6. ASSUME NEW u \in Users PROVE FigureIsRight(u)'
  <2>1. CASE Coming(u)'
    BY <2>1, ComingFigure
  <2>2. CASE ~ Coming(u)'
    <3>1. Coming(u) => Coming(u)'
      BY <1>2, <1>5 DEF Coming, Owed, Awaited
    <3>2. ASSUME NEW r \in Reports, AuthorOf[r] = u
          PROVE  /\ \A c : ~ Told(r, c)
                 /\ r \notin unannounced'
      <4>1. ASSUME NEW c, Told(r, c) PROVE FALSE
        <5>1. PICK e \in EventIds \ Committed : e[1] = r /\ e \in pending'[Mine]
          BY <4>1 DEF Told
        <5>2. \A w \in Workers : ~ (pc'[w] = "mark" /\ ev'[w] = e)
          BY <1>0, <1>2, <5>1, AuthorIsUser DEF Handling
        <5>3. Owed(u)'
          BY <3>2, <5>1, <5>2 DEF Owed
        <5> QED
          BY <2>2, <5>3 DEF Coming
      <4>2. r \notin unannounced'
        BY <2>2, <3>2 DEF Coming
      <4> QED
        BY <4>1, <4>2
    <3>3. ASSUME NEW r \in Reports, AuthorOf[r] = u PROVE Kept(r)' <=> Kept(r)
      <4>1. log'[r] = log[r] /\ content'[r] = content[r]
        BY <1>5, <3>2, <3>3 DEF ChangeIsTold
      <4> QED
        BY <4>1 DEF Kept, Ended
    <3>4. Earned(u)' = Earned(u)
      BY <1>2, <3>3, SameEarned
    <3>5. Updating(u)' = Updating(u)
      BY <1>2 DEF Updating
    <3> QED
      BY <1>2, <3>1, <3>4, <3>5, OtherFigures DEF KarmaInv
  <2> QED
    BY <2>1, <2>2
<1> QED
  BY <1>3, <1>4, <1>6 DEF KarmaInv

\* Away from the reports and the flags nobody earns anything.
LEMMA NothingEarned ==
  ASSUME UNCHANGED <<feedVars, flags>>, NEW u \in Users
  PROVE  Earned(u)' = Earned(u)
<1>1. \A r \in Reports : Kept(r)' <=> Kept(r)
  BY SameKept
<1> QED
  BY <1>1, SameEarned

\* The first statement of a recompute.
LEMMA ReadPreviousKeepsKarmaInv ==
  ASSUME KarmaInv, NEW p \in Actors, ReadPrevious(p) PROVE KarmaInv'
<1>0. TypeInv /\ BeforeIsCurrent /\ FiguresTypeOK
  BY Parts DEF KarmaInv
<1>1. /\ calc[p] = "previous" /\ calc' = [calc EXCEPT ![p] = "sum"]
      /\ before' = [before EXCEPT ![p] = karma[owner[p]]]
      /\ UNCHANGED <<feedVars, pending, unannounced, pc, ev, karma, flags, asked, owner,
                     total, overtaken, unsure>>
  BY DEF ReadPrevious, feedVars, consumerVars
<1>2. TypeInv'
  BY <1>0, NextKeepsTypeInv DEF Next, Recompute
<1>3. BeforeIsCurrent'
  BY <1>0, <1>1 DEF BeforeIsCurrent, FiguresTypeOK
<1>4. ASSUME NEW u \in Users PROVE FigureIsRight(u)'
  <2>1. Coming(u)' <=> Coming(u)
    BY <1>0, <1>1 DEF Coming, Owed, Awaited, FiguresTypeOK
  <2>2. Updating(u)' = Updating(u)
    BY <1>0, <1>1 DEF Updating, FiguresTypeOK
  <2>3. Earned(u)' = Earned(u)
    BY <1>1, NothingEarned
  <2> QED
    BY <1>1, <2>1, <2>2, <2>3, OtherFigures DEF KarmaInv
<1> QED
  BY <1>2, <1>3, <1>4 DEF KarmaInv

\* The sum is right when it is made, and nothing else is asked of the figure.
LEMMA SumKeepsKarmaInv ==
  ASSUME KarmaInv, NEW p \in Actors, Sum(p) PROVE KarmaInv'
<1>0. TypeInv /\ BeforeIsCurrent /\ FiguresTypeOK
  BY Parts DEF KarmaInv
<1>1. /\ calc[p] = "sum" /\ calc' = [calc EXCEPT ![p] = "update"]
      /\ total' = [total EXCEPT ![p] = Earned(owner[p])]
      /\ unsure' = unsure \ {owner[p]}
      /\ UNCHANGED <<feedVars, pending, unannounced, pc, ev, karma, flags, asked, owner,
                     before, overtaken>>
  BY DEF Sum, feedVars, consumerVars
<1>2. TypeInv'
  BY <1>0, NextKeepsTypeInv DEF Next, Recompute
<1>3. BeforeIsCurrent'
  BY <1>0, <1>1 DEF BeforeIsCurrent, FiguresTypeOK
<1>4. ASSUME NEW u \in Users PROVE FigureIsRight(u)'
  <2>1. Earned(u)' = Earned(u)
    BY <1>1, NothingEarned
  <2>2. CASE u = owner[p]
    <3>1. p \in Updating(u)'
      BY <1>0, <1>1, <2>2 DEF Updating, FiguresTypeOK
    <3>2. total'[p] = Earned(u)'
      BY <1>0, <1>1, <2>1, <2>2 DEF FiguresTypeOK
    <3> QED
      BY <3>1, <3>2 DEF FigureIsRight
  <2>3. CASE u # owner[p]
    <3>1. Coming(u)' <=> Coming(u)
      BY <1>0, <1>1, <2>3 DEF Coming, Owed, Awaited, FiguresTypeOK
    <3>2. Updating(u)' = Updating(u) /\ p \notin Updating(u)
      BY <1>0, <1>1, <2>3 DEF Updating, FiguresTypeOK
    <3>3. \A q \in Updating(u) : total'[q] = total[q]
      BY <1>0, <1>1, <3>2 DEF FiguresTypeOK
    <3> QED
      BY <1>1, <2>1, <3>1, <3>2, <3>3, OtherFigures DEF KarmaInv
  <2> QED
    BY <2>2, <2>3
<1> QED
  BY <1>2, <1>3, <1>4 DEF KarmaInv

\* The figure is written.  Whoever recomputes the same user at that time has read
\* the old figure, and is overtaken.
LEMMA UpdateKeepsKarmaInv ==
  ASSUME KarmaInv, NEW p \in Actors, Update(p) PROVE KarmaInv'
<1>0. TypeInv /\ BeforeIsCurrent /\ FiguresTypeOK /\ ActorsFit /\ owner[p] \in Users
  BY Parts DEF KarmaInv, Update, Finish
<1>1. /\ calc[p] = "update"
      /\ karma' = [karma EXCEPT ![owner[p]] =
           IF total[p] = before[p] THEN karma[owner[p]] ELSE total[p]]
      /\ unsure' = IF p \in overtaken THEN unsure \cup {owner[p]} ELSE unsure
      /\ overtaken' = (overtaken \ {p}) \cup Rivals(p)
      /\ calc' = [calc EXCEPT ![p] = "idle"]
      /\ owner' = [owner EXCEPT ![p] = NoUser]
      /\ before' = [before EXCEPT ![p] = 0]
      /\ total' = [total EXCEPT ![p] = 0]
      /\ pc' = [w \in Workers |-> IF w = p THEN "idle" ELSE pc[w]]
      /\ UNCHANGED <<feedVars, pending, unannounced, ev, flags, asked>>
  BY DEF Update, Finish, LeaveRecompute, feedVars
<1>2. TypeInv'
  BY <1>0, NextKeepsTypeInv DEF Next, Recompute
<1>3. BeforeIsCurrent'
  <2> SUFFICES ASSUME NEW q \in Actors, calc'[q] \in {"sum", "update"}, q \notin overtaken'
               PROVE  before'[q] = karma'[owner'[q]]
    BY DEF BeforeIsCurrent
  <2>1. /\ q # p /\ calc[q] \in {"sum", "update"} /\ q \notin overtaken
        /\ owner'[q] = owner[q] /\ before'[q] = before[q]
    BY <1>0, <1>1 DEF FiguresTypeOK
  <2>2. owner[q] # owner[p]
    BY <1>1, <2>1 DEF Rivals
  <2>3. karma'[owner[q]] = karma[owner[q]]
    <3>1. owner[q] \in Users
      BY <1>0, <2>1, Parts
    <3> QED
      BY <1>0, <1>1, <2>2, <3>1 DEF FiguresTypeOK
  <2> QED
    BY <1>0, <2>1, <2>3 DEF BeforeIsCurrent
<1>4. \A u \in Users : Owed(u)' <=> Owed(u)
  <2>1. \A w \in Workers : pc'[w] = "mark" <=> pc[w] = "mark"
    BY <1>0, <1>1 DEF ActorsFit
  <2> QED
    BY <1>1, <2>1 DEF Owed
<1>5. ASSUME NEW u \in Users PROVE FigureIsRight(u)'
  <2>1. Earned(u)' = Earned(u)
    BY <1>1, NothingEarned
  <2>2. Coming(u) => Coming(u)'
    BY <1>0, <1>1, <1>4 DEF Coming, Awaited, FiguresTypeOK
  <2>3. Updating(u)' = Updating(u) \ {p}
    BY <1>0, <1>1, NoUserAssumption DEF Updating, FiguresTypeOK
  <2>4. CASE u = owner[p]
    <3> SUFFICES ASSUME ~ Coming(u)' PROVE FigureIsRight(u)'
      BY DEF FigureIsRight
    <3>1. ~ Coming(u) /\ p \notin overtaken /\ p \in Updating(u)
      BY <1>0, <1>1, <2>2, <2>4 DEF Coming, Updating
    <3>2. ASSUME Updating(u)' = {} PROVE karma'[u] = Earned(u)'
      <4>1. Updating(u) = {p}
        BY <2>3, <3>1, <3>2
      <4>2. total[p] = Earned(u)
        BY <3>1, <4>1 DEF KarmaInv, FigureIsRight
      <4>3. before[p] = karma[u]
        BY <1>0, <1>1, <2>4, <3>1 DEF BeforeIsCurrent
      <4> QED
        BY <1>0, <1>1, <2>1, <2>4, <4>2, <4>3 DEF FiguresTypeOK
    <3>3. ASSUME NEW q \in Actors, Updating(u)' = {q} PROVE q \in overtaken'
      <4>1. q \in Updating(u) /\ q # p
        BY <2>3, <3>3
      <4> QED
        BY <1>1, <2>4, <4>1 DEF Updating, Rivals
    <3> QED
      BY <3>2, <3>3 DEF FigureIsRight
  <2>5. CASE u # owner[p]
    <3>1. p \notin Updating(u)
      BY <2>5 DEF Updating
    <3>2. karma'[u] = karma[u]
      BY <1>0, <1>1, <2>5 DEF FiguresTypeOK
    <3>3. \A q \in Updating(u) : total'[q] = total[q] /\ (q \in overtaken => q \in overtaken')
      BY <1>0, <1>1, <3>1 DEF FiguresTypeOK, Updating
    <3>4. Updating(u)' = Updating(u)
      BY <2>3, <3>1
    <3> QED
      BY <2>1, <2>2, <3>2, <3>3, <3>4, OtherFigures DEF KarmaInv
  <2> QED
    BY <2>4, <2>5
<1> QED
  BY <1>2, <1>3, <1>5 DEF KarmaInv

\* Stage one: the event of u no longer owes a request, for now there is one, or
\* u is remembered as left behind.
LEMMA EnqueueKeepsKarmaInv ==
  ASSUME KarmaInv, NEW w \in Workers, Enqueue(w) PROVE KarmaInv'
<1>0. /\ TypeInv /\ BeforeIsCurrent /\ FiguresTypeOK /\ pc \in [Workers -> Phases]
      /\ AuthorOf[ev[w][1]] \in Users
  BY Parts, AuthorIsUser DEF KarmaInv, Enqueue, Handling
<1>1. PICK a \in Users : a = AuthorOf[ev[w][1]]
  BY <1>0
<1>2. /\ pc' = [pc EXCEPT ![w] = "mark"]
      /\ UNCHANGED <<feedVars, pending, unannounced, ev, karma, flags, calc, owner, before,
                     total, overtaken>>
      /\ \/ unsure' = (IF Awaited(a) THEN unsure ELSE unsure \cup {a}) /\ UNCHANGED asked
         \/ asked' = [asked EXCEPT ![a] = asked[a] + 1] /\ UNCHANGED unsure
  BY <1>1 DEF Enqueue, feedVars
<1>3. TypeInv'
  BY <1>0, NextKeepsTypeInv DEF Next
<1>4. BeforeIsCurrent'
  BY <1>0, <1>2 DEF BeforeIsCurrent
<1>5. ASSUME NEW u \in Users PROVE FigureIsRight(u)'
  <2>1. CASE u = a
    <3>1. CASE unsure' = (IF Awaited(a) THEN unsure ELSE unsure \cup {a}) /\ UNCHANGED asked
      <4>1. Awaited(u)' <=> Awaited(u)
        BY <1>2, <3>1 DEF Awaited
      <4>2. Coming(u)'
        BY <2>1, <3>1, <4>1 DEF Coming
      <4> QED
        BY <4>2, ComingFigure
    <3>2. CASE asked' = [asked EXCEPT ![a] = asked[a] + 1] /\ UNCHANGED unsure
      <4>1. asked'[u] > 0
        BY <1>0, <2>1, <3>2 DEF FiguresTypeOK
      <4>2. Coming(u)'
        BY <4>1 DEF Coming, Awaited
      <4> QED
        BY <4>2, ComingFigure
    <3> QED
      BY <1>2, <3>1, <3>2
  <2>2. CASE u # a
    <3>1. Owed(u) => Owed(u)'
      <4> SUFFICES ASSUME NEW e \in pending[Mine], AuthorOf[e[1]] = u,
                          \A v \in Workers : ~ (pc[v] = "mark" /\ ev[v] = e)
                   PROVE  Owed(u)'
        BY DEF Owed
      <4>1. e # ev[w]
        BY <1>1, <2>2
      <4>2. \A v \in Workers : ~ (pc'[v] = "mark" /\ ev'[v] = e)
        BY <1>0, <1>2, <4>1
      <4> QED
        BY <1>2, <4>2 DEF Owed
    <3>2. Awaited(u) => Awaited(u)'
      BY <1>0, <1>2, <2>2 DEF Awaited, FiguresTypeOK
    <3>3. Coming(u) => Coming(u)'
      BY <1>2, <3>1, <3>2 DEF Coming
    <3>4. Earned(u)' = Earned(u) /\ Updating(u)' = Updating(u)
      BY <1>2, NothingEarned DEF Updating
    <3> QED
      BY <1>2, <3>3, <3>4, OtherFigures DEF KarmaInv
  <2> QED
    BY <2>1, <2>2
<1> QED
  BY <1>3, <1>4, <1>5 DEF KarmaInv

\* Stage two: the job in the queue is now one that has begun.
LEMMA StartRecomputeKeepsKarmaInv ==
  ASSUME KarmaInv, NEW w \in Workers, NEW a \in Users, StartRecompute(w, a) PROVE KarmaInv'
<1>0. /\ TypeInv /\ BeforeIsCurrent /\ FiguresTypeOK /\ ActorsFit /\ w \in Actors
      /\ pc \in [Workers -> Phases]
  BY Parts DEF KarmaInv
<1>1. /\ pc[w] = "idle" /\ pc' = [pc EXCEPT ![w] = "recompute"]
      /\ asked' = [asked EXCEPT ![a] = asked[a] - 1]
      /\ calc' = [calc EXCEPT ![w] = "previous"]
      /\ owner' = [owner EXCEPT ![w] = a]
      /\ UNCHANGED <<feedVars, pending, unannounced, ev, karma, flags, before, total,
                     overtaken, unsure>>
  BY DEF StartRecompute, EnterRecompute, feedVars
<1>2. TypeInv'
  BY <1>0, NextKeepsTypeInv DEF Next
<1>3. calc[w] = "idle" /\ owner[w] = NoUser
  BY <1>0, <1>1 DEF ActorsFit
<1>4. BeforeIsCurrent'
  BY <1>0, <1>1 DEF BeforeIsCurrent, FiguresTypeOK
<1>5. ASSUME NEW u \in Users PROVE FigureIsRight(u)'
  <2>1. CASE u = a
    <3>1. owner'[w] = u /\ calc'[w] = "previous"
      BY <1>0, <1>1, <2>1 DEF FiguresTypeOK
    <3>2. Coming(u)'
      BY <1>0, <3>1 DEF Coming, Awaited
    <3> QED
      BY <3>2, ComingFigure
  <2>2. CASE u # a
    <3>1. Owed(u)' <=> Owed(u)
      BY <1>0, <1>1 DEF Owed
    <3>2. Awaited(u) => Awaited(u)'
      BY <1>0, <1>1, <1>3, <2>2, NoUserAssumption DEF Awaited, FiguresTypeOK
    <3>3. Coming(u) => Coming(u)'
      BY <1>1, <3>1, <3>2 DEF Coming
    <3>4. Updating(u)' = Updating(u)
      BY <1>0, <1>1, <1>3 DEF Updating, FiguresTypeOK
    <3>5. Earned(u)' = Earned(u)
      BY <1>1, NothingEarned
    <3> QED
      BY <1>1, <3>3, <3>4, <3>5, OtherFigures DEF KarmaInv
  <2> QED
    BY <2>1, <2>2
<1> QED
  BY <1>2, <1>4, <1>5 DEF KarmaInv

\* An actor dies in its recompute: its user is remembered, or asked for again.
LEMMA LeavingKeepsFigures ==
  ASSUME KarmaInv, NEW p \in Actors, LeaveRecompute(p),
         overtaken' = overtaken \ {p},
         UNCHANGED <<feedVars, karma, flags>>,
         NEW u \in Users, Owed(u) => Owed(u)',
         u \in unsure => u \in unsure',
         asked'[u] \in Nat, asked'[u] >= asked[u],
         owner[p] = u => u \in unsure' \/ asked'[u] > 0
  PROVE  FigureIsRight(u)'
<1>0. FiguresTypeOK /\ asked[u] \in Nat
  BY Parts DEF KarmaInv, FiguresTypeOK
<1>1. /\ calc' = [calc EXCEPT ![p] = "idle"] /\ owner' = [owner EXCEPT ![p] = NoUser]
      /\ total' = [total EXCEPT ![p] = 0]
      /\ UNCHANGED unannounced
  BY DEF LeaveRecompute, feedVars
<1>2. CASE owner[p] = u
  <2>1. Coming(u)'
    BY <1>2 DEF Coming, Awaited
  <2> QED
    BY <2>1, ComingFigure
<1>3. CASE owner[p] # u
  <2>1. Awaited(u) => Awaited(u)'
    BY <1>0, <1>1, <1>3 DEF Awaited, FiguresTypeOK
  <2>2. Coming(u) => Coming(u)'
    BY <1>1, <2>1 DEF Coming
  <2>3. Updating(u)' = Updating(u) /\ p \notin Updating(u)
    BY <1>0, <1>1, <1>3, NoUserAssumption DEF Updating, FiguresTypeOK
  <2>4. \A q \in Updating(u) : total'[q] = total[q] /\ (q \in overtaken => q \in overtaken')
    BY <1>0, <1>1, <2>3 DEF FiguresTypeOK, Updating
  <2>5. Earned(u)' = Earned(u)
    BY NothingEarned
  <2> QED
    BY <2>2, <2>3, <2>4, <2>5, OtherFigures DEF KarmaInv
<1> QED
  BY <1>2, <1>3

\* What the others read first is untouched by an actor that leaves.
LEMMA LeavingKeepsBefore ==
  ASSUME TypeInv, BeforeIsCurrent, NEW p \in Actors, LeaveRecompute(p),
         overtaken' = overtaken \ {p}, UNCHANGED karma
  PROVE  BeforeIsCurrent'
<1>0. FiguresTypeOK
  BY Parts
<1>1. /\ calc' = [calc EXCEPT ![p] = "idle"] /\ owner' = [owner EXCEPT ![p] = NoUser]
      /\ before' = [before EXCEPT ![p] = 0]
  BY DEF LeaveRecompute
<1> QED
  BY <1>0, <1>1 DEF BeforeIsCurrent, FiguresTypeOK

\* A job fails: its event is owed again, its recompute is asked for again or lost.
LEMMA CrashKeepsKarmaInv ==
  ASSUME KarmaInv, NEW w \in Workers, Crash(w) PROVE KarmaInv'
<1>0. /\ TypeInv /\ BeforeIsCurrent /\ FiguresTypeOK /\ ActorsFit /\ w \in Actors
      /\ pc \in [Workers -> Phases]
      /\ ev \in [Workers -> EventIds \cup {NoEvent}]
  BY Parts DEF KarmaInv, QueueInv, JobTypeOK
<1>1. /\ pc' = [pc EXCEPT ![w] = "idle"] /\ ev' = [ev EXCEPT ![w] = NoEvent]
      /\ LeaveRecompute(w) /\ overtaken' = overtaken \ {w}
      /\ UNCHANGED <<feedVars, pending, karma, flags>>
  BY DEF Crash, Fail, feedVars
<1>2. TypeInv'
  BY <1>0, NextKeepsTypeInv DEF Next
<1>3. BeforeIsCurrent'
  BY <1>0, <1>1, LeavingKeepsBefore
<1>4. ASSUME NEW u \in Users PROVE FigureIsRight(u)'
  <2>1. Owed(u) => Owed(u)'
    BY <1>0, <1>1 DEF Owed
  <2>2. asked \in [Users -> Nat] /\ unsure \subseteq Users
    BY <1>0 DEF FiguresTypeOK
  <2>3. CASE pc[w] = "recompute"
    <3>1. \/ asked' = [asked EXCEPT ![owner[w]] = asked[owner[w]] + 1] /\ UNCHANGED unsure
          \/ unsure' = unsure \cup {owner[w]} /\ UNCHANGED asked
      BY <2>3 DEF Crash
    <3>2. /\ u \in unsure => u \in unsure'
          /\ asked'[u] \in Nat /\ asked'[u] >= asked[u]
          /\ owner[w] = u => u \in unsure' \/ asked'[u] > 0
      BY <2>2, <3>1
    <3> QED
      BY <1>0, <1>1, <2>1, <3>2, LeavingKeepsFigures
  <2>4. CASE pc[w] # "recompute"
    <3>1. owner[w] # u /\ UNCHANGED <<asked, unsure>>
      BY <1>0, <2>4, NoUserAssumption DEF Crash, ActorsFit
    <3> QED
      BY <1>0, <1>1, <2>1, <2>2, <3>1, LeavingKeepsFigures
  <2> QED
    BY <2>3, <2>4
<1> QED
  BY <1>2, <1>3, <1>4 DEF KarmaInv

\* An event that is stamped has asked for its recompute before.
LEMMA MarkKeepsKarmaInv ==
  ASSUME KarmaInv, NEW w \in Workers, Mark(w) PROVE KarmaInv'
<1>0. /\ TypeInv /\ BeforeIsCurrent /\ FeedTypeOK /\ pc \in [Workers -> Phases]
      /\ ev \in [Workers -> EventIds \cup {NoEvent}]
  BY Parts DEF KarmaInv, QueueInv, JobTypeOK
<1>1. /\ pc[w] = "mark"
      /\ pending' = [pending EXCEPT ![Mine] = @ \ {ev[w]}]
      /\ pc' = [pc EXCEPT ![w] = IF todo[w] = {} THEN "idle" ELSE "next"]
      /\ ev' = [ev EXCEPT ![w] = NoEvent]
      /\ UNCHANGED <<log, content, unannounced, karma, flags, asked, calc, owner, before,
                     total, overtaken, unsure>>
  BY DEF Mark, Stamp, MarkEventProcessed, karmaVars
<1>2. TypeInv'
  BY <1>0, NextKeepsTypeInv DEF Next
<1>3. BeforeIsCurrent'
  BY <1>0, <1>1 DEF BeforeIsCurrent
<1>4. pending'[Mine] = pending[Mine] \ {ev[w]}
  BY <1>0, <1>1, MineAssumption DEF FeedTypeOK, OutboxTypeOK
<1>5. ASSUME NEW u \in Users PROVE FigureIsRight(u)'
  <2>1. Owed(u) => Owed(u)'
    <3> SUFFICES ASSUME NEW e \in pending[Mine], AuthorOf[e[1]] = u,
                        \A v \in Workers : ~ (pc[v] = "mark" /\ ev[v] = e)
                 PROVE  Owed(u)'
      BY DEF Owed
    <3>1. e \in pending'[Mine]
      BY <1>1, <1>4
    <3>2. \A v \in Workers : ~ (pc'[v] = "mark" /\ ev'[v] = e)
      BY <1>0, <1>1
    <3> QED
      BY <3>1, <3>2 DEF Owed
  <2>2. Coming(u) => Coming(u)'
    BY <1>1, <2>1 DEF Coming, Awaited
  <2>3. Updating(u)' = Updating(u)
    BY <1>1 DEF Updating
  <2>4. \A r \in Reports : Kept(r)' <=> Kept(r)
    BY <1>1 DEF Kept, Ended
  <2>5. Earned(u)' = Earned(u)
    BY <1>1, <2>4, SameEarned
  <2> QED
    BY <1>1, <2>2, <2>3, <2>5, OtherFigures DEF KarmaInv
<1> QED
  BY <1>2, <1>3, <1>5 DEF KarmaInv

\* Taking up a job or hearing of an event stamps nothing.
LEMMA WaitingKeepsKarmaInv ==
  ASSUME KarmaInv, Hear \/ \E w \in Workers : Begin(w) PROVE KarmaInv'
<1>0. /\ TypeInv /\ BeforeIsCurrent /\ pc \in [Workers -> Phases]
      /\ ev \in [Workers -> EventIds \cup {NoEvent}]
  BY Parts DEF KarmaInv, QueueInv, JobTypeOK
<1>1. UNCHANGED <<feedVars, pending, unannounced, karma, flags, asked, calc, owner, before,
                  total, overtaken, unsure>>
  BY DEF Hear, Notify, Begin, Start, StartSweep, Take, StartEventJob, karmaVars, feedVars
<1>2. \A v \in Workers : pc'[v] = "mark" => pc[v] = "mark" /\ ev'[v] = ev[v]
  <2>1. CASE Hear
    BY <2>1 DEF Hear, Notify, jobVars
  <2>2. CASE \E w \in Workers : Begin(w)
    BY <1>0, <2>2 DEF Begin, Start, StartSweep, Take, StartEventJob, Handle
  <2> QED
    BY <2>1, <2>2
<1>3. TypeInv'
  BY <1>0, NextKeepsTypeInv DEF Next
<1>4. BeforeIsCurrent'
  BY <1>0, <1>1 DEF BeforeIsCurrent
<1>5. ASSUME NEW u \in Users PROVE FigureIsRight(u)'
  <2>1. Coming(u) => Coming(u)'
    BY <1>1, <1>2 DEF Coming, Owed, Awaited
  <2>2. Earned(u)' = Earned(u) /\ Updating(u)' = Updating(u)
    BY <1>1, NothingEarned DEF Updating
  <2> QED
    BY <1>1, <2>1, <2>2, OtherFigures DEF KarmaInv
<1> QED
  BY <1>3, <1>4, <1>5 DEF KarmaInv

\* A reader sets or takes back a flag on r: only the author of r earns by it, and
\* is about to be recomputed.
LEMMA FlagKeepsFigures ==
  ASSUME KarmaInv, NEW x \in Readers, NEW r \in Reports,
         EnterRecompute(x, AuthorOf[r]), owner[x] = NoUser,
         flags' = flags \cup {<<x, r>>} \/ flags' = flags \ {<<x, r>>},
         UNCHANGED <<feedVars, pc, ev, karma, asked, before, total, overtaken, unsure>>
  PROVE  BeforeIsCurrent' /\ \A u \in Users : FigureIsRight(u)'
<1>0. /\ BeforeIsCurrent /\ FiguresTypeOK /\ ActorsFit /\ x \in Actors
      /\ AuthorOf[r] \in Users
  BY Parts, KarmaAuthorAssumption DEF KarmaInv
<1>1. /\ calc' = [calc EXCEPT ![x] = "previous"]
      /\ owner' = [owner EXCEPT ![x] = AuthorOf[r]]
      /\ UNCHANGED <<pending, unannounced>>
  BY DEF EnterRecompute, feedVars
<1>2. BeforeIsCurrent'
  BY <1>0, <1>1 DEF BeforeIsCurrent, FiguresTypeOK
<1>3. ASSUME NEW u \in Users PROVE FigureIsRight(u)'
  <2>1. CASE u = AuthorOf[r]
    <3>1. owner'[x] = u /\ calc'[x] = "previous"
      BY <1>0, <1>1, <2>1 DEF FiguresTypeOK
    <3>2. Coming(u)'
      BY <1>0, <3>1 DEF Coming, Awaited
    <3> QED
      BY <3>2, ComingFigure
  <2>2. CASE u # AuthorOf[r]
    <3>1. \A s \in Reports : Kept(s)' <=> Kept(s)
      BY SameKept
    <3>2. {f \in flags' : f[2] \in Reports /\ AuthorOf[f[2]] = u} =
            {f \in flags : f[2] \in Reports /\ AuthorOf[f[2]] = u}
      BY <2>2
    <3>3. Earned(u)' = Earned(u)
      BY <3>1, <3>2, SameEarned
    <3>4. Coming(u) => Coming(u)'
      BY <1>0, <1>1, NoUserAssumption DEF Coming, Owed, Awaited, FiguresTypeOK
    <3>5. Updating(u)' = Updating(u)
      BY <1>0, <1>1, <2>2, NoUserAssumption DEF Updating, FiguresTypeOK
    <3> QED
      BY <3>3, <3>4, <3>5, OtherFigures DEF KarmaInv
  <2> QED
    BY <2>1, <2>2
<1> QED
  BY <1>2, <1>3

\* Every step of a flag request.
LEMMA FlagKeepsKarmaInv ==
  ASSUME KarmaInv, NEW x \in Readers,
         \/ \E r \in Reports : CheckFlag(x, r)
         \/ InsertFlag(x)
         \/ \E r \in Reports : Unflag(x, r)
         \/ AbandonFlag(x)
  PROVE  KarmaInv'
<1>0. /\ TypeInv /\ BeforeIsCurrent /\ FiguresTypeOK /\ ActorsFit /\ x \in Actors
  BY Parts DEF KarmaInv
<1>1. TypeInv'
  BY <1>0, FlagKeepsTypeInv
<1>2. CASE \E r \in Reports : CheckFlag(x, r)
  <2>1. /\ calc[x] = "idle" /\ calc' = [calc EXCEPT ![x] = "checked"]
        /\ UNCHANGED <<feedVars, pending, unannounced, pc, ev, karma, flags, asked, owner,
                       before, total, overtaken, unsure>>
    BY <1>2 DEF CheckFlag, feedVars, consumerVars
  <2>2. BeforeIsCurrent'
    BY <1>0, <2>1 DEF BeforeIsCurrent, FiguresTypeOK
  <2>3. ASSUME NEW u \in Users PROVE FigureIsRight(u)'
    <3>1. Coming(u) => Coming(u)'
      BY <1>0, <2>1 DEF Coming, Owed, Awaited, FiguresTypeOK
    <3>2. Updating(u)' = Updating(u)
      BY <1>0, <2>1 DEF Updating, FiguresTypeOK
    <3>3. Earned(u)' = Earned(u)
      BY <2>1, NothingEarned
    <3> QED
      BY <2>1, <3>1, <3>2, <3>3, OtherFigures DEF KarmaInv
  <2> QED
    BY <1>1, <2>2, <2>3 DEF KarmaInv
<1>3. CASE InsertFlag(x)
  <2>1. PICK r \in Reports : flagging[x] = r
    BY <1>0, <1>3 DEF InsertFlag, ActorsFit
  <2>2. owner[x] = NoUser
    BY <1>0, <1>3 DEF InsertFlag, ActorsFit
  <2>3. BeforeIsCurrent' /\ \A u \in Users : FigureIsRight(u)'
    BY <1>3, <2>1, <2>2, FlagKeepsFigures DEF InsertFlag, consumerVars
  <2> QED
    BY <1>1, <2>3 DEF KarmaInv
<1>4. CASE \E r \in Reports : Unflag(x, r)
  <2>1. PICK r \in Reports : Unflag(x, r)
    BY <1>4
  <2>2. owner[x] = NoUser
    BY <1>0, <2>1 DEF Unflag, ActorsFit
  <2>3. BeforeIsCurrent' /\ \A u \in Users : FigureIsRight(u)'
    BY <2>1, <2>2, FlagKeepsFigures DEF Unflag, consumerVars
  <2> QED
    BY <1>1, <2>3 DEF KarmaInv
<1>5. CASE AbandonFlag(x)
  <2>1. /\ LeaveRecompute(x) /\ overtaken' = overtaken \ {x}
        /\ unsure' = IF owner[x] = NoUser THEN unsure ELSE unsure \cup {owner[x]}
        /\ UNCHANGED <<feedVars, pending, pc, ev, karma, flags, asked>>
    BY <1>5 DEF AbandonFlag, feedVars
  <2>2. BeforeIsCurrent'
    BY <1>0, <2>1, LeavingKeepsBefore
  <2>3. ASSUME NEW u \in Users PROVE FigureIsRight(u)'
    <3>1. /\ Owed(u) => Owed(u)'
          /\ u \in unsure => u \in unsure'
          /\ owner[x] = u => u \in unsure'
      BY <2>1, NoUserAssumption DEF Owed
    <3>2. asked'[u] \in Nat /\ asked'[u] >= asked[u]
      BY <1>0, <2>1 DEF FiguresTypeOK
    <3> QED
      BY <1>0, <2>1, <3>1, <3>2, LeavingKeepsFigures
  <2> QED
    BY <1>1, <2>2, <2>3 DEF KarmaInv
<1> QED
  BY <1>2, <1>3, <1>4, <1>5

\* Every step.
LEMMA NextKeepsKarmaInv == ASSUME KarmaInv, [Next]_vars PROVE KarmaInv'
<1>1. TypeInv' /\ BeforeIsCurrent
  BY NextKeepsTypeInv DEF KarmaInv
<1>2. CASE ReportsChange
  BY <1>2, ReportsKeepKarmaInv
<1>3. CASE Hear \/ \E w \in Workers : Begin(w)
  BY <1>3, WaitingKeepsKarmaInv
<1>4. CASE \E w \in Workers : Enqueue(w) \/ Mark(w) \/ Crash(w)
  BY <1>4, EnqueueKeepsKarmaInv, MarkKeepsKarmaInv, CrashKeepsKarmaInv
<1>5. CASE \E w \in Workers, u \in Users : StartRecompute(w, u)
  BY <1>5, StartRecomputeKeepsKarmaInv
<1>6. CASE \E p \in Actors : Recompute(p)
  BY <1>6, ReadPreviousKeepsKarmaInv, SumKeepsKarmaInv, UpdateKeepsKarmaInv DEF Recompute
<1>7. CASE \E x \in Readers :
             \/ \E r \in Reports : CheckFlag(x, r)
             \/ InsertFlag(x)
             \/ \E r \in Reports : Unflag(x, r)
             \/ AbandonFlag(x)
  BY <1>7, FlagKeepsKarmaInv
<1>8. CASE (\E u \in Users : KeyExpires(u)) \/ UNCHANGED vars
  <2>1. UNCHANGED <<feedVars, pending, unannounced, pc, ev, karma, flags, asked, calc, owner,
                    before, total, overtaken, unsure>>
    BY <1>8 DEF KeyExpires, vars, workerVars, consumerVars, karmaVars, feedVars
  <2>2. BeforeIsCurrent'
    BY <1>1, <2>1 DEF BeforeIsCurrent
  <2>3. ASSUME NEW u \in Users PROVE FigureIsRight(u)'
    <3>1. (Coming(u) => Coming(u)') /\ Updating(u)' = Updating(u)
      BY <2>1 DEF Coming, Owed, Awaited, Updating
    <3>2. Earned(u)' = Earned(u)
      BY <2>1, NothingEarned
    <3> QED
      BY <2>1, <3>1, <3>2, OtherFigures DEF KarmaInv
  <2> QED
    BY <1>1, <2>2, <2>3 DEF KarmaInv
<1> QED
  BY <1>2, <1>3, <1>4, <1>5, <1>6, <1>7, <1>8 DEF Next

\* A figure with nothing left to do for it is what its author earned, or its
\* author is one of those whom a request ignored too late, a recompute out of
\* attempts or an overlap left behind; for any number of workers and readers.
THEOREM SettledKarmaHolds == Spec => []SettledKarma
BY InitKarmaInv, NextKeepsKarmaInv, KarmaInvSettles, PTL DEF Spec

=============================================================================
