------------------------------- MODULE Catalogue -------------------------------
(****************************************************************************)
(* InventoryService.setPricing for one cylinder type of one station: the    *)
(* inventory row it updates or inserts, and the history it writes behind.   *)
(* All prices of a row change together and are one value here.              *)
(****************************************************************************)
EXTENDS Requests

CONSTANTS
    Prices,
    NoPrice         \* the row, or its history, does not exist

ASSUME CatalogueAssumption == NoPrice \notin Prices

VARIABLES
    price,          \* cylinder_inventory
    lastEntry       \* the newest row of pricing_history

catalogueVars == <<price, lastEntry>>

CatalogueCalls == [op : {"reprice", "stock", "history"}, price : Prices]

CatalogueTypeOK ==
    /\ price \in Prices \cup {NoPrice}
    /\ lastEntry \in Prices \cup {NoPrice}

CatalogueInit == price = NoPrice /\ lastEntry = NoPrice

\* upsertInventory: findOne, then UPDATE or INSERT.
SetPricing(w, p) ==
    /\ MayStart(w)
    /\ Continue(w, [op |-> IF price = NoPrice THEN "stock" ELSE "reprice", price |-> p])
    /\ UNCHANGED catalogueVars

PricingUpdate(w) ==
    /\ call[w].op = "reprice"
    /\ price' = call[w].price
    /\ Continue(w, [call[w] EXCEPT !.op = "history"])
    /\ UNCHANGED lastEntry

\* (stationId, cylinderTypeId) is unique: the second of two INSERTs fails, and
\* with it the request.
PricingInsert(w) ==
    /\ call[w].op = "stock"
    /\ IF price # NoPrice
       THEN Finish(w) /\ UNCHANGED price
       ELSE /\ price' = call[w].price
            /\ Continue(w, [call[w] EXCEPT !.op = "history"])
    /\ UNCHANGED lastEntry

\* Bug: only the first price is recorded.
HistoryOfFirstPrice(w) ==
    /\ call[w].op = "history"
    /\ lastEntry' = IF lastEntry = NoPrice THEN call[w].price ELSE lastEntry
    /\ Finish(w)
    /\ UNCHANGED price

PricingHistory(w) ==
    /\ call[w].op = "history"
    /\ lastEntry' = call[w].price
    /\ Finish(w)
    /\ UNCHANGED price

CatalogueNext ==
    \E w \in Slots :
        \/ \E p \in Prices : SetPricing(w, p)
        \/ PricingUpdate(w) \/ PricingInsert(w) \/ PricingHistory(w)
        \/ Crash(w) /\ UNCHANGED catalogueVars

--------------------------------------------------------------------------------
(* Properties.                                                              *)

\* "recording history": the price customers see is the last one recorded.  A crash
\* between the two writes, or two of them crossing, breaks it.
CalmPriceIsRecorded == calm /\ AtRest => lastEntry = price
================================================================================
