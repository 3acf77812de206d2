--------------------------- MODULE CanonicalWriter ---------------------------
(***************************************************************************)
(* What the Governance writer guard promises to the durable runtime: a     *)
(* namespace has at most one owner, a live owner keeps the namespace until *)
(* it gives it up itself, and only the owner commits durable state.        *)
(***************************************************************************)
EXTENDS Naturals

CONSTANTS Writers, NoWriter

VARIABLES owner,   \* the writer the namespace belongs to, or NoWriter
          live,    \* the writer processes that have not crashed
          commits  \* durable snapshots committed so far, per writer

cvars == <<owner, live, commits>>

CInit == /\ owner = NoWriter
         /\ live = Writers
         /\ commits = [w \in Writers |-> 0]

\* A live process becomes the owner of a free namespace.
CAcquire(w) == /\ w \in live
               /\ owner = NoWriter
               /\ owner' = w
               /\ UNCHANGED <<live, commits>>

\* The owner gives the namespace up.
CRelease(w) == /\ w \in live
               /\ owner = w
               /\ owner' = NoWriter
               /\ UNCHANGED <<live, commits>>

\* A crashed owner is removed on behalf of a contender.
CReclaim == /\ owner \in Writers \ live
            /\ owner' = NoWriter
            /\ UNCHANGED <<live, commits>>

\* The owner commits one durable snapshot.
CCommit(w) == /\ w \in live
              /\ owner = w
              /\ commits' = [commits EXCEPT ![w] = @ + 1]
              /\ UNCHANGED <<owner, live>>

CCrash(w) == /\ w \in live
             /\ live' = live \ {w}
             /\ UNCHANGED <<owner, commits>>

CNext == \/ CReclaim
         \/ \E w \in Writers : CAcquire(w) \/ CRelease(w) \/ CCommit(w) \/ CCrash(w)

CSpec == CInit /\ [][CNext]_cvars
=============================================================================
