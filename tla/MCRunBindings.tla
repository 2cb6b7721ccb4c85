--------------------------- MODULE MCRunBindings ---------------------------
(* Small instances of RunBindings.                                         *)
EXTENDS RunBindings, TLC

\* Request slots are interchangeable.
Slots == Permutations(Requests)

Reg(run, dispatch, key, notBefore, expiresAt, max) ==
  [kind |-> "register", run |-> run, dispatch |-> dispatch, key |-> key,
   credential |-> "c1", executor |-> "e1",
   notBefore |-> notBefore, expiresAt |-> expiresAt, max |-> max]

\* One run that may be claimed twice and outlives the clock, another that starts
\* later and expires; and a registration that has the key and the dispatch of
\* the second with other content, and the run of the first.
CompetingBindings ==
  { Reg("r1", "d1", "k1", 0, 3, 2),
    Reg("r2", "d2", "k2", 1, 2, 1),
    Reg("r1", "d2", "k2", 0, 3, 1) }

OneBinding == { Reg("r1", "d1", "k1", 0, 2, 1) }

OneCancel == { [kind |-> "cancel", run |-> "r1", dispatch |-> "d1"] }

CancelFirst == [kind : {"cancel"}, run : {"r1"}, dispatch : Dispatches]

ClaimOf(run, attempt, executor, stamp) ==
  [kind |-> "claim", run |-> run, attempt |-> attempt, executor |-> executor,
   stamp |-> stamp]

\* Two attempts, one reused by the second run (whose limit it reaches) and by
\* another executor.
ClaimMix ==
  { ClaimOf("r1", "a1", "e1", "s1"), ClaimOf("r1", "a2", "e1", "s1"),
    ClaimOf("r2", "a1", "e1", "s1"), ClaimOf("r1", "a1", "e2", "s1") }

ClaimPair == { ClaimOf("r1", "a1", "e1", "s1"), ClaimOf("r1", "a2", "e1", "s1") }

=============================================================================
