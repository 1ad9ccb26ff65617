------------------------------ MODULE Catalogue ------------------------------
(***************************************************************************)
(* Barcodes in app/modules/inventory: create_product looks a barcode up    *)
(* and inserts the product later, update_product sets one without looking, *)
(* and no constraint keeps them unique.  get_by_barcode raises where two   *)
(* products share a barcode, be they deleted or not.                       *)
(***************************************************************************)
EXTENDS Integers, FiniteSets

CONSTANTS
  Keepers,   \* requests to the products router, each handled once
  Barcodes

VARIABLES
  barcode,   \* per product, named by the request that created it, committed
  inactive,  \* products with is_active = FALSE
  keeper,    \* where each request is, what it asks for and saw
  source,    \* history: the request that gave a product its barcode
  while      \* history: the requests that ended while this one was open

catalogueVars == <<barcode, inactive, keeper, source, while>>

NoBarcode == "no_barcode"
ASSUME BarcodeAssumption == NoBarcode \notin Barcodes

Products == {p \in Keepers : keeper[p].at = "done" /\ keeper[p].op = "create"}
Holders(b) == {p \in Products : barcode[p] = b}

CatalogueInit ==
  /\ barcode = [p \in Keepers |-> NoBarcode]
  /\ inactive = {}
  /\ keeper = [k \in Keepers |-> [at |-> "new", op |-> "none", product |-> k, barcode |-> NoBarcode]]
  /\ source = [p \in Keepers |-> p]
  /\ while = [k \in Keepers |-> {}]
----------------------------------------------------------------------------
Handle(k, where, op, p, b) ==
  /\ keeper' = [keeper EXCEPT ![k] = [at |-> where, op |-> op, product |-> p, barcode |-> b]]
  /\ while' = IF where # "done" THEN while
              ELSE [j \in Keepers |-> IF keeper[j].at = "open" /\ j # k THEN while[j] \cup {k}
                                      ELSE while[j]]

(* Faulty: only active products are looked at.                             *)
FoundActive(b) == Cardinality(Holders(b) \ inactive)
(* get_by_barcode: an inactive product is found as well.                   *)
Found(b) == Cardinality(Holders(b))

(* create_product, 62-64: taken, or taken twice and the query raises.      *)
StartProduct(k, b) ==
  /\ keeper[k].at = "new"
  /\ CASE b = NoBarcode \/ Found(b) = 0 -> Handle(k, "open", "create", k, b)
       [] b # NoBarcode /\ Found(b) = 1 -> Handle(k, "refused", "create", k, b)
       [] OTHER -> Handle(k, "failed", "create", k, b)
  /\ UNCHANGED <<barcode, inactive, source>>

(* barcode_lookup.                                                         *)
Lookup(k, b) ==
  /\ keeper[k].at = "new"
  /\ Handle(k, IF Found(b) < 2 THEN "done" ELSE "failed", "lookup", k, b)
  /\ UNCHANGED <<barcode, inactive, source>>

(* update_product with a barcode; nothing is compared.                     *)
StartEdit(k, p, b) ==
  /\ keeper[k].at = "new" /\ p \in Products
  /\ Handle(k, "open", "edit", p, b)
  /\ UNCHANGED <<barcode, inactive, source>>

StartRemove(k, p) ==
  /\ keeper[k].at = "new" /\ p \in Products
  /\ Handle(k, "open", "remove", p, NoBarcode)
  /\ UNCHANGED <<barcode, inactive, source>>

(* ProductRepository.create and its commit: the barcode is not looked for  *)
(* again.                                                                  *)
CommitProduct(k) ==
  LET p == keeper[k].product IN
  /\ keeper[k].at = "open" /\ keeper[k].op \in {"create", "edit"}
  /\ barcode' = [barcode EXCEPT ![p] = keeper[k].barcode]
  /\ source' = [source EXCEPT ![p] = k]
  /\ Handle(k, "done", keeper[k].op, p, keeper[k].barcode)
  /\ UNCHANGED inactive

(* delete_product only switches is_active off: the barcode stays taken.    *)
CommitRemove(k) ==
  LET p == keeper[k].product IN
  /\ keeper[k].at = "open" /\ keeper[k].op = "remove"
  /\ inactive' = inactive \cup {p}
  /\ Handle(k, "done", "remove", p, NoBarcode)
  /\ UNCHANGED <<barcode, source>>

LoseProduct(k) ==
  /\ keeper[k].at = "open"
  /\ Handle(k, "lost", keeper[k].op, keeper[k].product, keeper[k].barcode)
  /\ UNCHANGED <<barcode, inactive, source>>

CatalogueNext ==
  \E k \in Keepers :
    \/ \E b \in Barcodes \cup {NoBarcode} :
         \/ StartProduct(k, b) \/ \E p \in Keepers : StartEdit(k, p, b)
    \/ \E b \in Barcodes : Lookup(k, b)
    \/ \E p \in Keepers : StartRemove(k, p)
    \/ CommitProduct(k) \/ CommitRemove(k) \/ LoseProduct(k)

CatalogueSpec == CatalogueInit /\ [][CatalogueNext]_catalogueVars
----------------------------------------------------------------------------
CatalogueTypeOK ==
  /\ barcode \in [Keepers -> Barcodes \cup {NoBarcode}]
  /\ inactive \subseteq Products
  /\ source \in [Keepers -> Keepers] /\ while \in [Keepers -> SUBSET Keepers]
  /\ \A k \in Keepers : keeper[k].at \in {"new", "open", "done", "refused", "failed", "lost"}

(* A creation never repeats a barcode (inventory/router.py:62-64) that was *)
(* on file when it began, deleted or not: two products share one only if a *)
(* request that gave it to either was open while the other ended, or was   *)
(* an edit, which looks for nothing.                                       *)
SharedBarcodesAreRaces ==
  \A b \in Barcodes : \A p, q \in Holders(b) : p # q =>
    \/ source[p] \in while[source[q]] \/ source[q] \in while[source[p]]
    \/ \E r \in {source[p], source[q]} : keeper[r].op = "edit"
=============================================================================
