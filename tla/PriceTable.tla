------------------------------ MODULE PriceTable ------------------------------
(***************************************************************************)
(* What an event costs (cost.rs).  The collector loads the price table     *)
(* once per round and prices the events it inserts; import_prices, run by  *)
(* hand, adds prices and then prices the events that have no cost.  A      *)
(* price is known by its id.  A model is found by an alias, by its whole   *)
(* name, or by its last path segment if that names one price.              *)
(***************************************************************************)
EXTENDS SequencesExt, FiniteSets

CONSTANTS
  PriceId,      \* the ids of the catalogue
  BareOf,       \* the last path segment of an id or of a model's name
  Bill,         \* the usage events
  ModelOf,      \* the model an event names
  AliasOf,      \* model_alias: a price id, Ignored or NoAlias
  Ignored, NoAlias,
  NoCost        \* NULL

ASSUME PricesAssumption == IsFiniteSet(PriceId)

VARIABLES
  catalogue,    \* model_price, in the order of its rows
  cost,         \* cost_usd of the stored events, and the table it came from
  unresolved,   \* the models in unresolved_model
  loaded,       \* the collector's table of this round: {} or one
  importer      \* where import_prices is

priceVars == <<catalogue, cost, unresolved, loaded, importer>>

PricesInit ==
  /\ catalogue = <<>>
  /\ cost = <<>>
  /\ unresolved = {}
  /\ loaded = {}
  /\ importer = [at |-> "idle"]

-----------------------------------------------------------------------------
(* Mutant: of two prices with one bare name the last one stays.            *)
LastOfName(table) ==
  {table[i] : i \in {i \in DOMAIN table :
     \A j \in DOMAIN table : j > i => BareOf[table[j]] # BareOf[table[i]]}}

(* by_bare_name: a second price of a name takes the entry away -- and a    *)
(* third one puts itself there.                                            *)
Added(chosen, id) ==
  LET same == {c \in chosen : BareOf[c] = BareOf[id]}
  IN  IF same = {} THEN chosen \cup {id} ELSE chosen \ same
ByBareName(table) ==
  LET upto[n \in 0..Len(table)] == IF n = 0 THEN {} ELSE Added(upto[n - 1], table[n])
  IN  upto[Len(table)]

(* resolve: the price ids (at most one) an event of this model is billed.  *)
Resolve(table, raw) ==
  LET ids  == Range(table)
      bare == BareOf[raw]
  IN  IF AliasOf[raw] # NoAlias THEN {AliasOf[raw]} \cap ids
      ELSE IF raw \in ids THEN {raw}
      ELSE IF bare \in ids THEN {bare}
      ELSE {id \in ByBareName(table) : BareOf[id] = bare}

(* The cost an event gets from a table.                                    *)
Priced(table, e) ==
  [price |-> LET found == Resolve(table, ModelOf[e])
             IN  IF found = {} THEN NoCost ELSE CHOOSE id \in found : TRUE,
   table |-> Range(table)]

(* A round loads both tables when it starts, and prices by them until it   *)
(* ends or fails.                                                          *)
LoadTable ==
  /\ loaded = {}
  /\ loaded' = {catalogue}
  /\ UNCHANGED <<catalogue, cost, unresolved, importer>>

RoundEnds ==
  /\ loaded # {}
  /\ loaded' = {}
  /\ UNCHANGED <<catalogue, cost, unresolved, importer>>

(* note_unresolved: a model without a price is in the ledger once, however *)
(* often it is seen; one that is ignored is not.                           *)
NoteUnresolved(table, raw) ==
  unresolved' = unresolved \cup
    {m \in {raw} : Resolve(table, m) = {} /\ AliasOf[m] # Ignored}

(* insert_events: a row of its own for a new event only, and its model if  *)
(* that has no price, in one transaction.                                  *)
InsertBill(e) ==
  /\ e \notin DOMAIN cost
  /\ \E table \in loaded :
       /\ cost' = [x \in DOMAIN cost \cup {e} |->
                     IF x = e THEN Priced(table, e) ELSE cost[x]]
       /\ NoteUnresolved(table, ModelOf[e])
  /\ UNCHANGED <<catalogue, loaded, importer>>

(* The fetched catalogue is upserted in one transaction: known ids keep    *)
(* their rows, bad entries are left out.                                   *)
ImportPrices ==
  /\ importer.at = "idle"
  /\ \E new \in SUBSET (PriceId \ Range(catalogue)) :
       \E order \in SetToSeqs(new) : catalogue' = catalogue \o order
  /\ importer' = [at |-> "imported"]
  /\ UNCHANGED <<cost, unresolved, loaded>>

(* The new table, and the events it finds a price for among those without. *)
FindUnpriced ==
  /\ importer.at = "imported"
  /\ importer' =
       [at |-> "found", table |-> catalogue,
        bills |-> {e \in DOMAIN cost : cost[e].price = NoCost
                                         /\ Resolve(catalogue, ModelOf[e]) # {}}]
  /\ UNCHANGED <<catalogue, cost, unresolved, loaded>>

(* Their costs, in a second transaction; the ledger is left as it is.      *)
Reprice ==
  /\ importer.at = "found"
  /\ cost' = [e \in DOMAIN cost |-> IF e \in importer.bills
                                    THEN Priced(importer.table, e) ELSE cost[e]]
  /\ importer' = [at |-> "idle"]
  /\ UNCHANGED <<catalogue, unresolved, loaded>>

(* The importer fails or is killed between its transactions.               *)
ImportFails ==
  /\ importer.at # "idle"
  /\ importer' = [at |-> "idle"]
  /\ UNCHANGED <<catalogue, cost, unresolved, loaded>>

PricesNext ==
  \/ LoadTable \/ RoundEnds \/ ImportPrices \/ FindUnpriced \/ Reprice
  \/ ImportFails \/ \E e \in Bill : InsertBill(e)

PricesSpec == PricesInit /\ [][PricesNext]_priceVars

-----------------------------------------------------------------------------
(* "guessing which one a client meant would silently mis-bill" (cost.rs:27):*)
(* a cost never comes from one of several prices the table it was computed *)
(* from has for a bare name, at whatever point of imports, rounds and      *)
(* repricing.  It holds while at most two ids share a name; with a third   *)
(* one it does not (cost.rs:93).                                           *)
NoGuess ==
  \A e \in DOMAIN cost : LET m == ModelOf[e] IN
    cost[e].price \notin {NoCost, AliasOf[m], m, BareOf[m]} =>
      {id \in cost[e].table : BareOf[id] = BareOf[m]} = {cost[e].price}
=============================================================================
