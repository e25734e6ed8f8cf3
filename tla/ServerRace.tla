------------------------------ MODULE ServerRace ------------------------------
(***************************************************************************)
(* Server without the assumption that the registration of a pqxx::work is  *)
(* one step.  connection::register_transaction tests m_trans and then      *)
(* stores it, unsynchronised; two handlers can both pass the test.  Their  *)
(* statements then share one PostgreSQL session: the second BEGIN is only  *)
(* a warning, one COMMIT or ROLLBACK ends the transaction for both, and    *)
(* what the other one still sends is committed statement by statement.     *)
(* This is the mildest outcome of the race: statements stay whole.         *)
(***************************************************************************)
EXTENDS Server

VARIABLE checked    \* handlers between the test of m_trans and the store

racyVars == <<vars, checked>>

\* The test: throws if a pqxx::work is registered.
CheckRegistered(h) ==
    /\ At(h, "begin")
    /\ open
    /\ h \notin checked
    /\ \/ /\ trans = NoHandler
          /\ checked' = checked \cup {h}
          /\ UNCHANGED vars
       \/ /\ trans # NoHandler
          /\ Answer(h, "INTERNAL", <<>>)
          /\ UNCHANGED <<tables, work, connection, events, checked>>

\* The store, and BEGIN.
StoreRegistered(h) ==
    /\ h \in checked
    /\ checked' = checked \ {h}
    /\ IF open THEN RegisterTransaction(h) ELSE Leave(h, "INTERNAL", <<>>)

RacyStep(h) == h \notin checked /\ Step(h) /\ UNCHANGED checked

RacyInit == Init /\ checked = {}

RacyNext == \/ \E h \in Handler : CheckRegistered(h) \/ StoreRegistered(h) \/ RacyStep(h)
            \/ LoseConnection /\ UNCHANGED checked
            \/ Restart /\ checked' = {}

RacySpec == RacyInit /\ [][RacyNext]_racyVars
=============================================================================
