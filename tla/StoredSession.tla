---------------------------- MODULE StoredSession ----------------------------
(***************************************************************************)
(* Rehandshake with SessionStore (client core): a user keeps a copy of the *)
(* session of their chat in the sessions table, and the application can    *)
(* end at any moment and go on from that copy.  Nothing in the library     *)
(* calls SessionStore: when to save is the caller's business, so a save    *)
(* can come at any time, or never.  SaveSession returns nothing and drops  *)
(* the result of sqlite3_step, so a save that fails is no step at all: its *)
(* caller goes on as if it had been made.  The conversion of a             *)
(* SessionState to the stored blob is the caller's, and external.          *)
(***************************************************************************)
EXTENDS Rehandshake

CONSTANTS Keeper,       \* the users whose application keeps its session
          MaxRestarts   \* bound: restarts of applications, of all keepers together

ASSUME StoreAssumption == Keeper \subseteq Peer /\ MaxRestarts \in Nat

VARIABLES store,        \* store[p]: the row for the chat, or NoSession
          unsaved,      \* the session changed since the last save that was made
          rolledBack,   \* p has gone on from a copy that was behind its session
          restarts      \* restarts so far

stored == <<store, unsaved, rolledBack, restarts>>

storedVars == <<vars, stored>>

\* Mutated: INSERT OR IGNORE in the place of REPLACE.
SaveSessionOnce(p) ==
    /\ sess[p] # NoSession
    /\ restarts < MaxRestarts
    /\ store' = [store EXCEPT ![p] = IF @ = NoSession THEN sess[p] ELSE @]
    /\ unsaved' = [unsaved EXCEPT ![p] = FALSE]
    /\ UNCHANGED <<vars, rolledBack, restarts>>

\* REPLACE INTO sessions.  (A save that no restart follows within the bound is
\* left out.)
SaveSession(p) ==
    /\ sess[p] # NoSession
    /\ restarts < MaxRestarts
    /\ store' = [store EXCEPT ![p] = sess[p]]
    /\ unsaved' = [unsaved EXCEPT ![p] = FALSE]
    /\ UNCHANGED <<vars, rolledBack, restarts>>

\* The application of p ends, comes back and calls LoadSession; std::nullopt
\* leaves it without a session.
LoadSession(p) ==
    /\ restarts < MaxRestarts
    /\ restarts' = restarts + 1
    /\ sess' = [sess EXCEPT ![p] = store[p]]
    /\ rolledBack' = [rolledBack EXCEPT ![p] = @ \/ unsaved[p]]
    /\ unsaved' = [unsaved EXCEPT ![p] = FALSE]
    /\ UNCHANGED <<generated, wire, read, delivered, failed, store>>

\* Whatever CryptoEngine does happens to the session in memory.
InMemory == /\ RestartNext
            /\ unsaved' = [p \in Peer |-> unsaved[p] \/ sess'[p] # sess[p]]
            /\ UNCHANGED <<store, rolledBack, restarts>>

StoredInit == /\ Init
              /\ store = [p \in Peer |-> NoSession]
              /\ unsaved = [p \in Peer |-> FALSE]
              /\ rolledBack = [p \in Peer |-> FALSE]
              /\ restarts = 0

StoredNext == \/ InMemory
              \/ \E p \in Keeper : SaveSession(p) \/ LoadSession(p)

StoredSpec == StoredInit /\ [][StoredNext]_storedVars

-----------------------------------------------------------------------------
(***************************************************************************)
(* Properties.                                                             *)
(***************************************************************************)

\* A key pair made by X25519Generate never seals two messages under one message
\* key and nonce, however often sessions are replaced, saved and restored, for
\* a user who was never restored from a copy older than the session in memory.
\* The saves need not follow every message: only the last before the end counts.
SavedKeysSealOnce ==
    \A p \in Peer : ~ rolledBack[p] =>
        LET sealed == wire[Other(p)]
        IN  \A i, j \in 1 .. Len(sealed) :
            /\ sealed[i].ct.key = sealed[j].ct.key
            /\ sealed[i].header.dh_pub.kind = "ephemeral"
            => i = j
=============================================================================
