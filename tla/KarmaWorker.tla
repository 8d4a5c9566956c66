------------------------------ MODULE KarmaWorker ------------------------------
(***************************************************************************)
(* users.karma, a cache of what an author earned, and those who rebuild    *)
(* it: the recompute-karma consumer of the outbox, in two stages (an event *)
(* asks for the recompute of an author, a job of the same queue performs   *)
(* it), and the web requests that set or take back a helpful flag, which   *)
(* recompute inline.                                                       *)
(*                                                                         *)
(* recomputeUserKarma is a transaction of three statements run at READ     *)
(* COMMITTED: the figure so far, the sum, and the update if they differ.   *)
(* An award per report stands for the tiers, which depend on verifications *)
(* no code writes; the likes of comments are left out.                     *)
(***************************************************************************)
EXTENDS OutboxConsumer

CONSTANTS
  Users,
  AuthorOf,   \* AuthorOf[r]: created_by_user_id
  Readers,    \* verified users, each with at most one flag request in flight
  Award,      \* KARMA_EARN.unverified
  NoUser, NoReport

ASSUME KarmaAuthorAssumption == AuthorOf \in [Reports -> Users]
ASSUME AwardAssumption == Award \in Nat \ {0}
ASSUME ActorsAssumption == Readers \cap Workers = {}
ASSUME NoUserAssumption == NoUser \notin Users
ASSUME KarmaNoReportAssumption == NoReport \notin Reports
ASSUME FiniteAssumption == IsFiniteSet(Reports) /\ IsFiniteSet(Readers)

Actors == Workers \cup Readers

VARIABLES
  karma,      \* users.karma
  flags,      \* helpful_flags: pairs of a reader and a report
  asked,      \* asked[u]: recompute jobs of u in the queue
  keyed,      \* users whose deduplication key has not expired
  calc,       \* calc[p]: where actor p is in its flag request or recompute
  flagging,   \* flagging[x]: the report reader x is about to flag
  owner,      \* owner[p]: the user p recomputes
  before,     \* the figure p read first
  total,      \* the sum p read next
  overtaken,  \* actors whose recompute another one of the same user overlapped
  unsure      \* users whose figure may have been left behind; see Enqueue

karmaVars == <<karma, flags, asked, keyed, calc, flagging, owner, before, total,
               overtaken, unsure>>
workerVars == <<consumerVars, karmaVars>>
vars == <<feedVars, workerVars>>

Phases == {"idle", "next", "read", "mark", "recompute"}
CalcPhases == {"idle", "checked", "previous", "sum", "update"}

Figures == 0 .. (Award * Cardinality(Reports) + Cardinality(Readers \X Reports))

TypeOK ==
  /\ FeedTypeOK
  /\ JobTypeOK(Phases)
  /\ karma \in [Users -> Figures]
  /\ flags \in SUBSET (Readers \X Reports)
  /\ asked \in [Users -> Nat]
  /\ keyed \in SUBSET Users
  /\ calc \in [Actors -> CalcPhases]
  /\ flagging \in [Readers -> Reports \cup {NoReport}]
  /\ owner \in [Actors -> Users \cup {NoUser}]
  /\ before \in [Actors -> Figures]
  /\ total \in [Actors -> Figures]
  /\ overtaken \in SUBSET Actors
  /\ unsure \in SUBSET Users

Init ==
  /\ FeedInit
  /\ ConsumerInit
  /\ karma = [u \in Users |-> 0]
  /\ flags = {}
  /\ asked = [u \in Users |-> 0]
  /\ keyed = {}
  /\ calc = [p \in Actors |-> "idle"]
  /\ flagging = [x \in Readers |-> NoReport]
  /\ owner = [p \in Actors |-> NoUser]
  /\ before = [p \in Actors |-> 0]
  /\ total = [p \in Actors |-> 0]
  /\ overtaken = {}
  /\ unsure = {}

-----------------------------------------------------------------------------
(* recomputeUserKarma, by a job of the queue or by a flag request.         *)

\* Reports in any status but 'deleted' earn, and so do the flags on them.
Earned(u) ==
  LET mine == {r \in Reports : AuthorOf[r] = u /\ Kept(r)} IN
  Award * Cardinality(mine) + Cardinality({f \in flags : f[2] \in mine})

\* p leaves its recompute, or never was in one.
LeaveRecompute(p) ==
  /\ calc' = [calc EXCEPT ![p] = "idle"]
  /\ owner' = [owner EXCEPT ![p] = NoUser]
  /\ before' = [before EXCEPT ![p] = 0]
  /\ total' = [total EXCEPT ![p] = 0]

EnterRecompute(p, u) ==
  /\ calc' = [calc EXCEPT ![p] = "previous"]
  /\ owner' = [owner EXCEPT ![p] = u]

ReadPrevious(p) ==
  /\ calc[p] = "previous"
  /\ before' = [before EXCEPT ![p] = karma[owner[p]]]
  /\ calc' = [calc EXCEPT ![p] = "sum"]
  /\ UNCHANGED <<feedVars, consumerVars, karma, flags, asked, keyed, flagging, owner,
                 total, overtaken, unsure>>

Sum(p) ==
  /\ calc[p] = "sum"
  /\ total' = [total EXCEPT ![p] = Earned(owner[p])]
  /\ unsure' = unsure \ {owner[p]}
  /\ calc' = [calc EXCEPT ![p] = "update"]
  /\ UNCHANGED <<feedVars, consumerVars, karma, flags, asked, keyed, flagging, owner,
                 before, overtaken>>

Rivals(p) ==
  {q \in Actors \ {p} : owner[q] = owner[p] /\ calc[q] \in {"sum", "update"}}

\* The recompute commits, and with it the job or the request ends.
Finish(p) ==
  /\ calc[p] = "update"
  /\ unsure' = IF p \in overtaken THEN unsure \cup {owner[p]} ELSE unsure
  /\ overtaken' = (overtaken \ {p}) \cup Rivals(p)
  /\ LeaveRecompute(p)
  /\ pc' = [w \in Workers |-> IF w = p THEN "idle" ELSE pc[w]]
  /\ UNCHANGED <<feedVars, ev, todo, onJob, queueVars, failures, flags, asked, keyed,
                 flagging>>

\* A defect: the figure is incremented by the sum.
Increment(p) ==
  /\ Finish(p)
  /\ karma' = [karma EXCEPT ![owner[p]] = @ + total[p]]

\* Written only if it differs from what was read first.
Update(p) ==
  /\ Finish(p)
  /\ karma' = [karma EXCEPT ![owner[p]] = IF total[p] = before[p] THEN @ ELSE total[p]]

Recompute(p) == ReadPrevious(p) \/ Sum(p) \/ Update(p)

-----------------------------------------------------------------------------
(* The consumer.                                                           *)

\* A recompute of u that has not read the reports yet: in the queue or begun.
Awaited(u) ==
  asked[u] > 0 \/ \E p \in Actors : owner[p] = u /\ calc[p] \in {"previous", "sum"}

\* Stage one: ask for a recompute of the author.  BullMQ ignores the request
\* while the deduplication key of an earlier one lives, which it does for two
\* seconds, whatever has become of that one by then.
Enqueue(w) ==
  LET u == AuthorOf[ev[w][1]] IN
  /\ pc[w] = "read"
  /\ IF u \in keyed
       THEN /\ unsure' = IF Awaited(u) THEN unsure ELSE unsure \cup {u}
            /\ UNCHANGED <<asked, keyed>>
       ELSE /\ asked' = [asked EXCEPT ![u] = @ + 1]
            /\ keyed' = keyed \cup {u}
            /\ UNCHANGED unsure
  /\ pc' = [pc EXCEPT ![w] = "mark"]
  /\ UNCHANGED <<feedVars, ev, todo, onJob, queueVars, failures, karma, flags, calc,
                 flagging, owner, before, total, overtaken>>

Mark(w) == Stamp(w) /\ UNCHANGED karmaVars

\* Stage two.
StartRecompute(w, u) ==
  /\ pc[w] = "idle"
  /\ asked[u] > 0
  /\ asked' = [asked EXCEPT ![u] = @ - 1]
  /\ pc' = [pc EXCEPT ![w] = "recompute"]
  /\ EnterRecompute(w, u)
  /\ UNCHANGED <<feedVars, ev, todo, onJob, queueVars, failures, karma, flags, keyed,
                 flagging, before, total, overtaken, unsure>>

KeyExpires(u) ==
  /\ u \in keyed
  /\ keyed' = keyed \ {u}
  /\ UNCHANGED <<feedVars, consumerVars, karma, flags, asked, calc, flagging, owner,
                 before, total, overtaken, unsure>>

Begin(w) == Start(w) /\ UNCHANGED karmaVars

\* A recompute that fails is tried again, or has no attempt left.
Crash(w) ==
  /\ Fail(w)
  /\ IF pc[w] = "recompute"
       THEN \/ /\ asked' = [asked EXCEPT ![owner[w]] = @ + 1]
               /\ UNCHANGED unsure
            \/ /\ unsure' = unsure \cup {owner[w]}
               /\ UNCHANGED asked
       ELSE UNCHANGED <<asked, unsure>>
  /\ LeaveRecompute(w)
  /\ overtaken' = overtaken \ {w}
  /\ UNCHANGED <<karma, flags, keyed, flagging>>

Hear == (\E e \in EventIds : Notify(e)) /\ UNCHANGED karmaVars

-----------------------------------------------------------------------------
(* The flag requests.                                                      *)

\* flagReportHelpful, up to its guards: not deleted, not one's own, not
\* flagged yet.
CheckFlag(x, r) ==
  /\ calc[x] = "idle"
  /\ Kept(r) /\ AuthorOf[r] # x /\ <<x, r>> \notin flags
  /\ calc' = [calc EXCEPT ![x] = "checked"]
  /\ flagging' = [flagging EXCEPT ![x] = r]
  /\ UNCHANGED <<feedVars, consumerVars, karma, flags, asked, keyed, owner, before,
                 total, overtaken, unsure>>

\* The insertion, whatever has become of the report since.
InsertFlag(x) ==
  /\ calc[x] = "checked"
  /\ flags' = flags \cup {<<x, flagging[x]>>}
  /\ EnterRecompute(x, AuthorOf[flagging[x]])
  /\ flagging' = [flagging EXCEPT ![x] = NoReport]
  /\ UNCHANGED <<feedVars, consumerVars, karma, asked, keyed, before, total, overtaken,
                 unsure>>

\* A defect: the author keeps what the flag earned.
UnflagWithoutRecompute(x, r) ==
  /\ calc[x] = "idle"
  /\ <<x, r>> \in flags
  /\ flags' = flags \ {<<x, r>>}
  /\ UNCHANGED <<feedVars, consumerVars, karma, asked, keyed, calc, flagging, owner,
                 before, total, overtaken, unsure>>

\* unflagReportHelpful; taking back what is not there recomputes, too.
Unflag(x, r) ==
  /\ calc[x] = "idle"
  /\ log[r] # << >>
  /\ flags' = flags \ {<<x, r>>}
  /\ EnterRecompute(x, AuthorOf[r])
  /\ UNCHANGED <<feedVars, consumerVars, karma, asked, keyed, flagging, before, total,
                 overtaken, unsure>>

\* The request dies; its flag stays.
AbandonFlag(x) ==
  /\ calc[x] # "idle"
  /\ failures < MaxFailures
  /\ failures' = failures + 1
  /\ unsure' = IF owner[x] = NoUser THEN unsure ELSE unsure \cup {owner[x]}
  /\ overtaken' = overtaken \ {x}
  /\ LeaveRecompute(x)
  /\ flagging' = [flagging EXCEPT ![x] = NoReport]
  /\ UNCHANGED <<feedVars, pc, ev, todo, onJob, queueVars, karma, flags, asked, keyed>>

-----------------------------------------------------------------------------

ReportsChange == Produce /\ UNCHANGED workerVars

Next ==
  \/ ReportsChange
  \/ Hear
  \/ \E w \in Workers : Begin(w)
  \/ \E w \in Workers : Enqueue(w)
  \/ \E w \in Workers : Mark(w)
  \/ \E w \in Workers, u \in Users : StartRecompute(w, u)
  \/ \E w \in Workers : Crash(w)
  \/ \E p \in Actors : Recompute(p)
  \/ \E u \in Users : KeyExpires(u)
  \/ \E x \in Readers, r \in Reports : CheckFlag(x, r)
  \/ \E x \in Readers : InsertFlag(x)
  \/ \E x \in Readers, r \in Reports : Unflag(x, r)
  \/ \E x \in Readers : AbandonFlag(x)

Spec == Init /\ [][Next]_vars

-----------------------------------------------------------------------------

\* Nothing is left that would recompute u, and no report of u was restored,
\* which no event tells.
Quiet(u) ==
  /\ asked[u] = 0
  /\ \A p \in Actors : owner[p] # u
  /\ \A e \in pending[Mine] : AuthorOf[e[1]] # u
  /\ \A r \in unannounced : AuthorOf[r] # u

\* A figure at rest is what the author earned, however events, jobs and flags
\* interleave and wherever a job dies (recomputeUserKarma, handleEvent), but
\* for three ways to be left behind, which unsure records: a request that was
\* ignored after the recompute before it had read, one that ran out of attempts,
\* and two recomputes of one user that overlapped.
SettledKarma ==
  \A u \in Users : Quiet(u) /\ u \notin unsure => karma[u] = Earned(u)

\* "a backfill, a retry, or a double-fire all converge on the same value"
\* (ADR 0007): with nothing left to do, every figure is what was earned.
KarmaConverges == \A u \in Users : Quiet(u) => karma[u] = Earned(u)

=============================================================================
