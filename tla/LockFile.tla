------------------------------ MODULE LockFile ------------------------------
(***************************************************************************)
(* The lock file that guards the JSON stores shared by the processes of    *)
(* one host.  Several stores carry a copy of it, in three kinds: the       *)
(* collection jobs, the research cases and the source intake ("plain")     *)
(* never take over a lock they find, saved hunts and accounts ("takeover") *)
(* take over one that is old, and so does the evidence ledger ("ledger"),  *)
(* which appends a block to its file instead of renaming a new one.  The   *)
(* document reviews take the same lock, but do not load the file under it; *)
(* they are not one of these stores.                                       *)
(*                                                                         *)
(* A writer is one call of mutate.  The code of a call is synchronous, but *)
(* every file operation is a step in which the other processes may act.    *)
(* The lock is known by its path only, so nobody can see whose it is.      *)
(* Its frame is named LockInit, LockNext and LockSpec, so that one module  *)
(* can extend this one and FileJobs.                                       *)
(***************************************************************************)
EXTENDS Naturals, Sequences, FiniteSets

CONSTANTS
  Writer,     \* calls of mutate, each by a process of its own
  NoWriter,   \* no lock file
  Kind,       \* the kinds of store in the instance
  Stale,      \* ticks after which a lock is stale
  MaxDead     \* bound: processes that die

ASSUME WriterAssumption == NoWriter \notin Writer
ASSUME KindAssumption   == Kind \subseteq {"plain", "takeover", "ledger"}
ASSUME LimitAssumption  == Stale \in Nat /\ MaxDead \in Nat

VARIABLES
  kind,  \* of the store
  lock,  \* who created the lock file, and the age of its mtime
  store, \* the file: the writes in it, each with the length it was based on
  at,    \* where the call is
  mem,   \* what the call has loaded
  stolen \* history: a lock was unlinked that was not the stale one looked at

moving   == <<lock, store, at, mem, stolen>>
lockVars == <<kind, moving>>

-----------------------------------------------------------------------------
Step == {"open", "stat", "unlink", "reopen", "load", "write", "close",
         "busy", "done", "failed", "dead"}
Inside == {"load", "write", "close"}
Taking == {"stat", "unlink", "reopen"}
Over   == {"done", "failed", "dead"}

Takeover   == kind # "plain"
AppendOnly == kind = "ledger"

Block == [by : Writer, on : Nat]

LockTypeOK ==
  /\ kind \in Kind
  /\ lock \in [by : Writer \cup {NoWriter}, age : 0 .. Stale + 1]
  /\ store \in Seq(Block)
  /\ at \in [Writer -> IF Takeover THEN Step ELSE Step \ Taking]
  /\ mem \in [Writer -> Seq(Block)]
  /\ stolen \in BOOLEAN

NoLock == [by |-> NoWriter, age |-> 0]

LockInit ==
  /\ kind \in Kind
  /\ lock = NoLock
  /\ store = <<>>
  /\ at = [w \in Writer |-> "open"]
  /\ mem = [w \in Writer |-> <<>>]
  /\ stolen = FALSE

Go(w, step) == at' = [at EXCEPT ![w] = step]

\* Block i of a valid chain was computed from the i - 1 blocks before it.
Valid(chain) == \A i \in DOMAIN chain : chain[i].on = i - 1

-----------------------------------------------------------------------------
(* A definition Name_Suffix is Name with a plausible mistake in it.          *)

\* openSync(lockPath, 'wx') succeeds.
Free_NotExclusive == TRUE
Free == lock.by = NoWriter

OnBusy == IF Takeover THEN "stat" ELSE "busy"

Open(w) ==
  /\ at[w] = "open"
  /\ IF Free THEN lock' = [by |-> w, age |-> 0] /\ Go(w, "load")
     ELSE UNCHANGED lock /\ Go(w, OnBusy)
  /\ UNCHANGED <<store, mem, stolen>>

\* Date.now() - mtimeMs > staleLockMs; a lock that is gone counts as not stale.
IsStale_Never == FALSE
IsStale == ~Free /\ lock.age > Stale

Stat(w) ==
  /\ at[w] = "stat"
  /\ Go(w, IF IsStale THEN "unlink" ELSE "busy")
  /\ UNCHANGED <<lock, store, mem, stolen>>

\* The lock that is unlinked need not be the one that was looked at.  When there
\* is none, the ledger fails with the error of unlinkSync, the others go on.
Unlink(w) ==
  /\ at[w] = "unlink"
  /\ lock' = NoLock
  /\ stolen' = (stolen \/ (~Free /\ lock.age <= Stale))
  /\ Go(w, IF Free /\ AppendOnly THEN "failed" ELSE "reopen")
  /\ UNCHANGED <<store, mem>>

Reopen(w) ==
  /\ at[w] = "reopen"
  /\ IF Free THEN lock' = [by |-> w, age |-> 0] /\ Go(w, "load")
     ELSE UNCHANGED lock /\ Go(w, "busy")
  /\ UNCHANGED <<store, mem, stolen>>

\* The caller comes back: appendLedgerToFile every 10 ms, other callers when
\* they are asked again.
ComeBack(w) == at[w] = "busy" /\ Go(w, "open") /\ UNCHANGED <<lock, store, mem, stolen>>

\* A ledger that does not verify is refused; the lock is released all the same.
Load(w) ==
  /\ at[w] = "load"
  /\ mem' = [mem EXCEPT ![w] = store]
  /\ Go(w, IF AppendOnly /\ ~Valid(store) THEN "close" ELSE "write")
  /\ UNCHANGED <<lock, store, stolen>>

Base_Boot(w) == <<>>
Base(w) == mem[w]

Write(w) ==
  /\ at[w] = "write"
  /\ LET block == [by |-> w, on |-> Len(Base(w))]
     IN  store' = Append(IF AppendOnly THEN store ELSE Base(w), block)
  /\ Go(w, "close")
  /\ UNCHANGED <<lock, mem, stolen>>

Written(w) == \E i \in DOMAIN store : store[i].by = w

\* finally: whatever lock file there is goes.  In the ledger a missing one turns
\* the call into an error, written block or not.
Close(w) ==
  /\ at[w] = "close"
  /\ lock' = NoLock
  /\ Go(w, IF Written(w) /\ ~(Free /\ AppendOnly) THEN "done" ELSE "failed")
  /\ UNCHANGED <<store, mem, stolen>>

Die(w) ==
  /\ at[w] \notin Over
  /\ Cardinality({q \in Writer : at[q] = "dead"}) < MaxDead
  /\ Go(w, "dead")
  /\ UNCHANGED <<lock, store, mem, stolen>>

\* A live holder of a lock that may be taken over is done before it is stale:
\* a mutation takes milliseconds, and locks are stale after 30 seconds.
Tick ==
  /\ ~Free
  /\ lock.age <= Stale
  /\ Takeover /\ lock.age = Stale => \A w \in Writer : at[w] \notin Inside
  /\ lock' = [lock EXCEPT !.age = @ + 1]
  /\ UNCHANGED <<store, at, mem, stolen>>

\* Every call has ended and no process is left to act.
Ended == (\A w \in Writer : at[w] \in Over) /\ UNCHANGED moving

WriterStep(w) == Open(w) \/ Stat(w) \/ Unlink(w) \/ Reopen(w) \/ ComeBack(w)
                 \/ Load(w) \/ Write(w) \/ Close(w)

LockNext == /\ (\E w \in Writer : WriterStep(w) \/ Die(w)) \/ Tick \/ Ended
        /\ UNCHANGED kind

LockSpec == LockInit /\ [][LockNext]_lockVars

\* A process that is not dead goes on, a caller comes back, time passes.
FairLockSpec == LockSpec /\ WF_moving(Tick) /\ \A w \in Writer : WF_moving(WriterStep(w))

-----------------------------------------------------------------------------
(* What the lock is for.                                                     *)

\* No two live writers are between acquisition and release (docs/
\* hunts-workflow.md:114: "Writes use an exclusive sibling lock"), unless two had
\* judged the same lock stale and the second unlinked the lock of the first: the
\* code does nothing to prevent that, and nothing else parts them.
Exclusive == stolen \/ Cardinality({w \in Writer : at[w] \in Inside}) <= 1

\* Every block of the ledger follows from the blocks before it, whoever else
\* appends (evidence-ledger.js:300); otherwise every later load is refused.
ChainValid == AppendOnly /\ ~stolen => Valid(store)

\* As long as no lock is stolen the store behind it is an atomic one: no update is
\* lost, a write that was reported is there (hunt-store.js:70, accounts/store.js:62).
Content == {store[i].by : i \in DOMAIN store}
Told    == {w \in Writer : at[w] = "done"}
Contract == INSTANCE AtomicStore WITH content <- Content, told <- Told
KeepsContract == Contract!Init /\ [][stolen' \/ Contract!Next]_<<Content, Told>>

\* A dead process locks nobody out for good: whoever keeps asking is answered.
EveryoneAnswered == \A w \in Writer : Takeover /\ at[w] = "open" ~> at[w] \in Over
=============================================================================
