----------------------------- MODULE TableStore -----------------------------
(***************************************************************************)
(* What the storage engine promises, without indexes, commands or the      *)
(* order of writes: named tables whose rows always satisfy their schema,   *)
(* changed one row at a time, saved one table at a time, and after a stop  *)
(* found again as they were saved.                                         *)
(***************************************************************************)
EXTENDS Functions

CONSTANTS
    Names,         \* <<database, table>>
    RowIds,
    Legal(_, _)    \* whether a schema allows a set of rows

VARIABLES
    up,      \* whether the tables can be used
    store,   \* the tables that exist, as [schema, rows]
    saved    \* the tables a start would find

vars == <<up, store, saved>>

Init == up = FALSE /\ store = <<>> /\ saved = <<>>

\* The difference between rows and rows' is at most the row id.
DiffersAt(id, rows, new) ==
    /\ DOMAIN new \ {id} = DOMAIN rows \ {id}
    /\ \A i \in DOMAIN rows \ {id} : new[i] = rows[i]

Create(n) ==
    /\ up /\ n \notin DOMAIN store
    /\ DOMAIN store' = DOMAIN store \cup {n}
    /\ \A m \in DOMAIN store : store'[m] = store[m]
    /\ store'[n].rows = <<>>
    /\ UNCHANGED <<up, saved>>

\* One table, or all those of a database.
Drop(n) ==
    /\ up /\ n \in DOMAIN store
    /\ \E gone \in {{n}, {m \in DOMAIN store : m[1] = n[1]}} :
           store' = Restrict(store, DOMAIN store \ gone)
    /\ UNCHANGED <<up, saved>>

ChangeRow(n, id) ==
    /\ up /\ n \in DOMAIN store
    /\ store' = [store EXCEPT ![n].rows = store'[n].rows]
    /\ DiffersAt(id, store[n].rows, store'[n].rows)
    /\ Legal(store[n].schema, store'[n].rows)
    /\ UNCHANGED <<up, saved>>

Save(n) ==
    /\ up /\ n \in DOMAIN store
    /\ saved' = [m \in DOMAIN saved \cup {n} |-> IF m = n THEN store[n] ELSE saved[m]]
    /\ UNCHANGED <<up, store>>

Discard(n) ==
    /\ up /\ n \in DOMAIN saved \ DOMAIN store
    /\ saved' = Restrict(saved, DOMAIN saved \ {n})
    /\ UNCHANGED <<up, store>>

Stop == up /\ up' = FALSE /\ store' = <<>> /\ UNCHANGED saved

Start == ~up /\ up' = TRUE /\ store' = saved /\ UNCHANGED saved

Next ==
    \/ Stop \/ Start
    \/ \E n \in Names :
          \/ Create(n) \/ Drop(n) \/ Save(n) \/ Discard(n)
          \/ \E id \in RowIds : ChangeRow(n, id)

Spec == Init /\ [][Next]_vars

=============================================================================
