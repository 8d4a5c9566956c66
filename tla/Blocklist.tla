------------------------------ MODULE Blocklist ------------------------------
(***************************************************************************)
(* regex_blocklist, the patterns a suggested name is tested against before *)
(* it may be promoted without a moderator, and the copy of the enabled     *)
(* patterns that every server process keeps for BLOCKLIST_TTL_MS.          *)
(*                                                                         *)
(* An edit is one statement followed, in the process that made it, by      *)
(* invalidateBlocklistCache().  A load is two steps of a request: the      *)
(* query, and the assignment of the copy when its rows arrive.  Nothing    *)
(* orders the two against an edit made by the same process.                *)
(***************************************************************************)
EXTENDS Naturals, FiniteSets

CONSTANTS
  Processes,   \* server processes (web instances, the sweep script)
  Requests,    \* requests that test a name
  ProcessOf,   \* ProcessOf[q]: the process that serves request q
  Patterns,    \* rows the table may have
  Broken,      \* patterns that do not compile: refused when added, skipped by a load
  MaxEdits,    \* bound: edits of the table
  NoList       \* nothing cached, nothing loading

ASSUME ProcessOfAssumption == ProcessOf \in [Requests -> Processes]
ASSUME BrokenAssumption == Broken \subseteq Patterns
ASSUME MaxEditsAssumption == MaxEdits \in Nat

VARIABLES
  listed,    \* the rows of the table
  enabled,   \* the rows whose enabled column is true
  edits,     \* edits made so far
  own,       \* own[p]: the number of the last edit process p made
  cache,     \* cache[p]: the copy p keeps
  loading    \* loading[q]: what the query of q's load returned

tableVars == <<listed, enabled, edits, own>>
blocklistVars == <<listed, enabled, edits, own, cache, loading>>

\* A list, the number of edits it reflects, and (for the properties alone)
\* whether the process made an edit while the load of it was under way.
Copy == [list : SUBSET Patterns, at : 0 .. MaxEdits, crossed : BOOLEAN]

BlocklistTypeOK ==
  /\ listed \in SUBSET Patterns
  /\ enabled \in SUBSET listed
  /\ edits \in 0 .. MaxEdits
  /\ own \in [Processes -> 0 .. MaxEdits]
  /\ cache \in [Processes -> Copy \cup {NoList}]
  /\ loading \in [Requests -> Copy \cup {NoList}]

BlocklistInit ==
  /\ listed \in SUBSET Broken /\ enabled = listed
  /\ edits = 0
  /\ own = [p \in Processes |-> 0]
  /\ cache = [p \in Processes |-> NoList]
  /\ loading = [q \in Requests |-> NoList]

-----------------------------------------------------------------------------
(* The admin's edits, made through process p.                              *)

ValidateBlocklistInput(x) == x \notin Broken

NumberEdit(p) ==
  /\ edits < MaxEdits
  /\ edits' = edits + 1
  /\ own' = [own EXCEPT ![p] = edits + 1]
  /\ loading' = [q \in Requests |->
                   IF ProcessOf[q] = p /\ loading[q] # NoList
                   THEN [loading[q] EXCEPT !.crossed = TRUE] ELSE loading[q]]

\* A defect: the edit leaves the copy of its process alone.
KeepCopy(p) == UNCHANGED cache

InvalidateBlocklistCache(p) == cache' = [cache EXCEPT ![p] = NoList]

AddBlocklistEntry(p, x) ==
  /\ ValidateBlocklistInput(x)
  /\ x \notin listed
  /\ listed' = listed \cup {x}
  /\ enabled' = enabled \cup {x}
  /\ NumberEdit(p)
  /\ InvalidateBlocklistCache(p)

SetBlocklistEnabled(p, x, on) ==
  /\ enabled' = IF on THEN enabled \cup ({x} \cap listed) ELSE enabled \ {x}
  /\ NumberEdit(p)
  /\ InvalidateBlocklistCache(p)
  /\ UNCHANGED listed

RemoveBlocklistEntry(p, x) ==
  /\ listed' = listed \ {x}
  /\ enabled' = enabled \ {x}
  /\ NumberEdit(p)
  /\ InvalidateBlocklistCache(p)

AdminEdit(p) ==
  \E x \in Patterns :
    \/ AddBlocklistEntry(p, x)
    \/ \E on \in BOOLEAN : SetBlocklistEnabled(p, x, on)
    \/ RemoveBlocklistEntry(p, x)

-----------------------------------------------------------------------------
(* loadActive, for request q.                                              *)

Stored(q) == cache[ProcessOf[q]]

\* A defect: a hit restarts the clock of a copy that is in use, so it stays.
ExpireUnused(p) ==
  /\ cache[p] # NoList
  /\ cache[p].at = edits
  /\ cache' = [cache EXCEPT ![p] = NoList]
  /\ UNCHANGED <<tableVars, loading>>

\* BLOCKLIST_TTL_MS have passed since the copy was fetched.
Expire(p) ==
  /\ cache[p] # NoList
  /\ cache' = [cache EXCEPT ![p] = NoList]
  /\ UNCHANGED <<tableVars, loading>>

LoadQuery(q) ==
  /\ Stored(q) = NoList
  /\ loading[q] = NoList
  /\ loading' = [loading EXCEPT ![q] =
                   [list |-> enabled \ Broken, at |-> edits, crossed |-> FALSE]]
  /\ UNCHANGED <<tableVars, cache>>

\* The rows arrive: they answer q and become the copy, whatever it was.
LoadReturn(q) ==
  /\ loading[q] # NoList
  /\ cache' = [cache EXCEPT ![ProcessOf[q]] = loading[q]]
  /\ loading' = [loading EXCEPT ![q] = NoList]
  /\ UNCHANGED tableVars

-----------------------------------------------------------------------------

\* blocklist.ts:10: an edit is in force at once in the process that made it.
\* The copy of a process is older than its last edit only when a load crossed
\* that edit: loadActive (blocklist.ts:84) stores rows it read before it.
OwnEditsAreInForce ==
  \A p \in Processes :
    cache[p] # NoList /\ cache[p].at < own[p] => cache[p].crossed

\* blocklist.ts:11: every other process picks an edit up when its copy has
\* expired.  Once the edits stop, every copy comes to agree with the table.
EditsReachEveryProcess ==
  <>[](\A p \in Processes :
         cache[p] # NoList => cache[p].list = enabled \ Broken)

=============================================================================
