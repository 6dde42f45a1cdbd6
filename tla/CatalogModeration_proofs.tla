---------------------- MODULE CatalogModeration_proofs ----------------------
(* The books of the catalog for any number of products, listings, barcodes,   *)
(* merges and requests: price histories are chains, merges lose no price and  *)
(* no scan, verdicts stand, and the ledger tells what the tables do.          *)
(*                                                                            *)
(* A price is written where its version is the one the author saw, and no     *)
(* version comes back, so what a pending edit has read is either still there  *)
(* or will not match (EditOK).  A merge snapshots a price it has read before; *)
(* it does so only if the listing has no history, and then the price is still *)
(* the one it read (SoundMerge).                                              *)
EXTENDS CatalogModeration, SequenceTheorems, FiniteSetTheorems, TLAPS

USE PricingAssumption, CatalogAssumption

Changed == {"update", "batch"}
HistoryRows == [listing: ListingIds, of: ListingIds, by: {"update", "batch", "merge"},
                previous: Prices \cup {Null}, new: Prices]
EditRows == [id: ListingIds, price: Prices \cup {Null}, version: Nat]

\* What a request has read and what it makes of it, while it has not written.
EditOK(e, seen) ==
    /\ initial[e.id] # Null /\ seen[e.id] \in Rows
    /\ listing[e.id] # Null =>
         /\ e.version <= listing[e.id].version
         /\ e.version = listing[e.id].version => seen[e.id].price = listing[e.id].price
SoundEdits(x) ==
    x.kind \in Changed =>
        /\ x.obj.edits \in Seq(EditRows) /\ x.obj.edits # <<>>
        /\ DOMAIN x.obj.seen = ListingIds
        /\ \A n \in 1 .. Len(x.obj.edits) : EditOK(x.obj.edits[n], x.obj.seen)
SoundListing(x) ==
    x.kind \in {"list", "stock"} => x.obj.product \in Products /\ x.obj.price \in Prices
SoundStatus(x) == x.kind = "status" => x.obj.id \in ListingIds /\ x.obj.active \in BOOLEAN
SoundReview(x) ==
    /\ x.kind \in {"product", "merge"} => x.obj.was = "PENDING"
    /\ x.kind = "merge" => x.obj.id \in MergeIds /\ merge[x.obj.id] # Null
    /\ x.kind = "propose" => x.obj \in Merges
SoundMerge(x) ==
    /\ x.kind = "merge" /\ x.obj.was = "PENDING" /\ x.obj.target \in Products
    /\ x.obj.id \in MergeIds /\ merge[x.obj.id] # Null
    /\ x.obj.from \subseteq ListingIds /\ x.obj.to \subseteq ListingIds
    /\ \A i \in x.obj.from :
         /\ initial[i] # Null /\ x.obj.shown[i] \in Prices
         /\ listing[i] # Null /\ ~HasHistory(i) => x.obj.shown[i] = listing[i].price

Sound(x) ==
    /\ x # Null /\ x.pc = "read" =>
         SoundEdits(x) /\ SoundListing(x) /\ SoundStatus(x) /\ SoundReview(x)
    /\ x # Null /\ x.pc = "gathered" => SoundMerge(x)

Typed ==
    /\ listing \in [ListingIds -> Rows \cup {Null}]
    /\ initial \in [ListingIds -> Prices \cup {Null}]
    /\ history \in Seq(HistoryRows)
Domains ==
    /\ DOMAIN product = Products /\ DOMAIN req = Requests
    /\ merge \in [MergeIds -> Merges \cup {Null}]
\* A listing that is there was inserted, and so was one with a history; and the
\* price of a listing with entries of its own is in one of them.
Written ==
    /\ \A i \in ListingIds : listing[i] # Null => initial[i] # Null
    /\ \A n \in DOMAIN history : initial[history[n].of] # Null
    /\ \A i \in ListingIds : listing[i] # Null /\ (\E n \in DOMAIN history : history[n].of = i) =>
          \E n \in DOMAIN history : history[n].of = i /\ history[n].new = listing[i].price

Books == Typed /\ Written /\ HistoryChains
IInv == Books /\ Domains /\ \A r \in Requests : Sound(req[r])

\* What no step does to a listing another request has read: its id is given once,
\* its version never falls, and its price changes with a version and an entry.
Moves ==
    \A i \in ListingIds :
        /\ initial[i] # Null => initial'[i] # Null
        /\ initial[i] # Null /\ listing'[i] # Null =>
             /\ listing[i] # Null /\ listing[i].version <= listing'[i].version
             /\ listing'[i].price # listing[i].price =>
                   listing[i].version < listing'[i].version /\ HasHistory(i)'
             /\ HasHistory(i) => HasHistory(i)'

\* A price is recorded for a listing, and what becomes of it.
InBooks(i, q) ==
    \/ i \in ListingIds /\ listing[i] # Null /\ listing[i].price = q
    \/ \E n \in DOMAIN history :
         /\ history[n].of = i
         /\ history[n].new = q \/ (history[n].previous = q /\ q # Null)
Keeps ==
    \A i \in ListingIds, q \in Prices :
        InBooks(i, q) =>
            InBooks(i, q)' \/ (listing[i] # Null /\ listing'[i] = Null /\ Inherited(i))

Good == Books' /\ Moves /\ Keeps

\* A proposal stays; so the one a moderator reads is there when it is decided.
Proposals ==
    /\ merge' \in [MergeIds -> Merges \cup {Null}]
    /\ \A m \in MergeIds : merge[m] # Null => merge'[m] # Null

-----------------------------------------------------------------------------
\* The books, by what may be written into them.

LEMMA HistoryTyped ==
  ASSUME Typed
  PROVE  \A n \in DOMAIN history :
            /\ history[n] \in HistoryRows
            /\ history[n].of \in ListingIds /\ history[n].new \in Prices
<1>1. history \in Seq(HistoryRows)
  BY DEF Typed
<1>2. \A n \in DOMAIN history : history[n] \in HistoryRows
  BY <1>1
<1>3. ASSUME NEW e \in HistoryRows PROVE e.of \in ListingIds /\ e.new \in Prices
  BY DEF HistoryRows
<1>4. ASSUME NEW n \in DOMAIN history
      PROVE  history[n] \in HistoryRows /\ history[n].of \in ListingIds /\ history[n].new \in Prices
  <2>1. PICK e \in HistoryRows : e = history[n]
    BY <1>2
  <2> QED BY <1>3, <2>1
<1> QED BY <1>4

\* An entry is appended, and those before stay where they are.
LEMMA Appended ==
  ASSUME Typed, NEW e \in HistoryRows, history' = Append(history, e)
  PROVE  /\ history' \in Seq(HistoryRows)
         /\ Len(history) + 1 \notin DOMAIN history /\ DOMAIN history \subseteq Nat
         /\ \A n \in DOMAIN history : n < Len(history) + 1
         /\ DOMAIN history' = DOMAIN history \cup {Len(history) + 1}
         /\ history'[Len(history) + 1] = e
         /\ \A n \in DOMAIN history : history'[n] = history[n]
<1>1. history \in Seq(HistoryRows)
  BY DEF Typed
<1> HIDE DEF HistoryRows
<1>2. /\ Len(history') = Len(history) + 1 /\ history' \in Seq(HistoryRows)
      /\ Len(history) \in Nat /\ DOMAIN history = 1 .. Len(history)
      /\ DOMAIN history' = 1 .. Len(history')
  BY <1>1
<1> QED BY <1>1, <1>2

\* A chain stays one while its entries say the same and its price stays.
LEMMA SameChain ==
  ASSUME NEW i, IsChain(i), Changes(i)' = Changes(i), initial'[i] = initial[i],
         listing'[i] # Null => listing[i] # Null /\ listing'[i].price = listing[i].price,
         \A n \in Changes(i) : /\ history'[n].previous = history[n].previous
                               /\ history'[n].new = history[n].new
  PROVE  IsChain(i)'
<1>1. \A m, n : Follows(m, n, i)' <=> Follows(m, n, i)
  BY DEF Follows
<1>2. Changes(i)' = {} /\ listing'[i] # Null => listing'[i].price = initial'[i]
  BY DEF IsChain
<1>3. ASSUME NEW n \in Changes(i)', \A m \in Changes(i)' : n <= m
      PROVE  history'[n].previous = initial'[i]
  <2>1. n \in Changes(i) /\ \A m \in Changes(i) : n <= m
    BY <1>3
  <2>2. history[n].previous = initial[i]
    BY <2>1 DEF IsChain
  <2> QED BY <2>1, <2>2
<1>4. ASSUME NEW n \in Changes(i)', NEW m \in Changes(i)', Follows(m, n, i)'
      PROVE  history'[n].previous = history'[m].new
  <2>1. n \in Changes(i) /\ m \in Changes(i) /\ Follows(m, n, i)
    BY <1>1, <1>4
  <2>2. history[n].previous = history[m].new
    BY <2>1 DEF IsChain
  <2> QED BY <2>1, <2>2
<1>5. ASSUME NEW n \in Changes(i)', \A m \in Changes(i)' : m <= n, listing'[i] # Null
      PROVE  listing'[i].price = history'[n].new
  <2>1. n \in Changes(i) /\ \A m \in Changes(i) : m <= n
    BY <1>5
  <2>2. listing[i].price = history[n].new
    BY <1>5, <2>1 DEF IsChain
  <2> QED BY <1>5, <2>1, <2>2
<1> QED BY <1>2, <1>3, <1>4, <1>5 DEF IsChain

LEMMA SameBooks ==
  ASSUME Books, UNCHANGED <<listing, initial, history>>
  PROVE  Good
<1>1. Books'
  BY DEF Books, Typed, Written, HistoryChains, IsChain, Changes, Follows
<1>2. Moves
  BY DEF Books, Typed, Moves, HasHistory, Rows
<1>3. Keeps
  BY DEF Keeps, InBooks
<1> QED BY <1>1, <1>2, <1>3 DEF Good

\* A listing is inserted.
LEMMA Insertion ==
  ASSUME Books, NEW p \in Products, NEW price \in Prices, InsertListing(p, price), UNCHANGED history
  PROVE  Good
<1>1. PICK i \in ListingIds :
        /\ initial[i] = Null
        /\ listing' = [listing EXCEPT ![i] = NewRow(p, price)]
        /\ initial' = [initial EXCEPT ![i] = price]
  BY DEF InsertListing, NextListing
<1>2. NewRow(p, price) \in Rows /\ NewRow(p, price).price = price
  BY DEF NewRow, Rows
<1>3. /\ \A j \in ListingIds : listing'[j] = IF j = i THEN NewRow(p, price) ELSE listing[j]
      /\ \A j \in ListingIds : initial'[j] = IF j = i THEN price ELSE initial[j]
  BY <1>1 DEF Books, Typed
<1>4. \A n \in DOMAIN history : history[n].of # i
  BY <1>1 DEF Books, Written
<1>5. Typed'
  BY <1>1, <1>2 DEF Books, Typed
<1>6. Written'
  <2>1. \A n \in DOMAIN history : history[n].of \in ListingIds
    <3>1. Typed
      BY DEF Books
    <3> QED BY <3>1, HistoryTyped
  <2>2. \A j \in ListingIds : listing'[j] # Null => initial'[j] # Null
    BY <1>2, <1>3 DEF Books, Written
  <2>3. \A n \in DOMAIN history : initial'[history[n].of] # Null
    BY <1>3, <1>4, <2>1 DEF Books, Written
  <2>4. ASSUME NEW j \in ListingIds, listing'[j] # Null, NEW n \in DOMAIN history, history[n].of = j
        PROVE  \E m \in DOMAIN history : history[m].of = j /\ history[m].new = listing'[j].price
    BY <1>3, <1>4, <2>4 DEF Books, Written
  <2> QED BY <2>2, <2>3, <2>4 DEF Written
<1>7. HistoryChains'
  <2>1. Changes(i) = {} /\ \A j \in ListingIds : Changes(j)' = Changes(j)
    BY <1>4 DEF Changes
  <2>2. ASSUME NEW j \in ListingIds, j # i, IsChain(j) PROVE IsChain(j)'
    BY <1>3, <2>1, <2>2 DEF IsChain, Follows
  <2>3. IsChain(i)'
    BY <1>2, <1>3, <2>1 DEF IsChain
  <2> QED BY <1>3, <2>2, <2>3 DEF HistoryChains, Books
<1>8. Moves
  BY <1>1, <1>3 DEF Books, Typed, Moves, HasHistory, Rows
<1>9. Keeps
  BY <1>1, <1>3 DEF Books, Written, Keeps, InBooks
<1> QED BY <1>5, <1>6, <1>7, <1>8, <1>9 DEF Good, Books

\* Rows change, and not in their prices.
LEMMA Relabelling ==
  ASSUME Books, UNCHANGED <<initial, history>>, listing' \in [ListingIds -> Rows \cup {Null}],
         \A i \in ListingIds :
            IF listing[i] = Null THEN listing'[i] = Null
            ELSE /\ listing'[i] # Null /\ listing'[i].price = listing[i].price
                 /\ listing[i].version <= listing'[i].version
  PROVE  Good
<1>1. Typed' /\ Written'
  BY DEF Books, Typed, Written
<1>2. HistoryChains'
  <2>1. \A j \in ListingIds : Changes(j)' = Changes(j)
    BY DEF Changes
  <2>2. ASSUME NEW j \in ListingIds, IsChain(j) PROVE IsChain(j)'
    BY <2>1, <2>2 DEF IsChain, Follows
  <2> QED BY <2>2 DEF Books, HistoryChains
<1>3. Moves
  BY DEF Books, Typed, Moves, HasHistory, Rows
<1>4. Keeps
  BY DEF Keeps, InBooks
<1> QED BY <1>1, <1>2, <1>3, <1>4 DEF Good, Books

\* A price is written over the one its author saw.
LEMMA Edition ==
  ASSUME Books, UNCHANGED initial, NEW i \in ListingIds, listing[i] # Null,
         NEW row \in Rows, listing[i].version < row.version,
         listing' = [listing EXCEPT ![i] = row],
         NEW e \in HistoryRows, history' = Append(history, e),
         e.listing = i, e.of = i, e.by # "merge", e.previous = listing[i].price, e.new = row.price
  PROVE  Good
<1> DEFINE last == Len(history) + 1
<1>1. /\ history' \in Seq(HistoryRows)
      /\ last \notin DOMAIN history /\ DOMAIN history \subseteq Nat
      /\ \A n \in DOMAIN history : n < last
      /\ DOMAIN history' = DOMAIN history \cup {last} /\ history'[last] = e
      /\ \A n \in DOMAIN history : history'[n] = history[n]
  BY Appended DEF Books
<1>2. last \in Nat
  BY DEF Books, Typed
<1> HIDE DEF last
<1>3. \A j \in ListingIds : listing'[j] = IF j = i THEN row ELSE listing[j]
  BY DEF Books, Typed
<1>4. initial[i] # Null /\ row # Null /\ e.previous # Null
  BY DEF Books, Typed, Written, Rows
<1>5. Typed'
  BY <1>1 DEF Books, Typed
<1>6. Written'
  <2>1. \A j \in ListingIds : listing'[j] # Null => initial'[j] # Null
    BY <1>3, <1>4 DEF Books, Written
  <2>2. \A n \in DOMAIN history' : initial'[history'[n].of] # Null
    BY <1>1, <1>4 DEF Books, Written
  <2>3. ASSUME NEW j \in ListingIds, listing'[j] # Null, NEW n \in DOMAIN history', history'[n].of = j
        PROVE  \E m \in DOMAIN history' : history'[m].of = j /\ history'[m].new = listing'[j].price
    <3>1. CASE j = i
      BY <1>1, <1>3, <3>1
    <3>2. CASE j # i
      <4>1. n \in DOMAIN history /\ listing'[j] = listing[j]
        BY <1>1, <1>3, <2>3, <3>2
      <4>2. \E m \in DOMAIN history : history[m].of = j /\ history[m].new = listing[j].price
        BY <1>1, <2>3, <4>1 DEF Books, Written
      <4> QED BY <1>1, <4>1, <4>2
    <3> QED BY <3>1, <3>2
  <2> QED BY <2>1, <2>2, <2>3 DEF Written
<1>7. HistoryChains'
  <2>1. /\ \A j \in ListingIds : j # i => Changes(j)' = Changes(j)
        /\ Changes(i)' = Changes(i) \cup {last}
    BY <1>1 DEF Changes
  <2>2. \A j \in ListingIds : \A n \in Changes(j) : n \in Nat /\ n < last /\ history'[n] = history[n]
    BY <1>1 DEF Changes
  <2>3. ASSUME NEW j \in ListingIds, j # i, IsChain(j) PROVE IsChain(j)'
    BY <1>3, <2>1, <2>2, <2>3, SameChain
  <2>4. IsChain(i)
    BY <1>4 DEF Books, HistoryChains
  <2>5. IsChain(i)'
    <3>1. ASSUME NEW n \in Changes(i)', \A m \in Changes(i)' : n <= m
          PROVE  history'[n].previous = initial'[i]
      <4>1. CASE n = last
        <5>1. Changes(i) = {}
          BY <1>2, <2>1, <2>2, <3>1, <4>1
        <5> QED BY <1>1, <2>4, <4>1, <5>1 DEF IsChain
      <4>2. CASE n # last
        BY <2>1, <2>2, <2>4, <3>1, <4>2 DEF IsChain
      <4> QED BY <4>1, <4>2
    <3>2. ASSUME NEW n \in Changes(i)', NEW m \in Changes(i)', Follows(m, n, i)'
          PROVE  history'[n].previous = history'[m].new
      <4>1. m < n /\ ~\E k \in Changes(i)' : m < k /\ k < n
        BY <3>2 DEF Follows
      <4>2. m \in Changes(i)
        BY <1>2, <2>1, <2>2, <4>1
      <4>3. CASE n = last
        <5>1. \A k \in Changes(i) : k <= m
          <6>1. SUFFICES ASSUME NEW k \in Changes(i), ~(k <= m) PROVE FALSE
            OBVIOUS
          <6>2. k \in Nat /\ m \in Nat /\ k < last
            BY <2>2, <4>2
          <6> QED BY <2>1, <4>1, <4>3, <6>1, <6>2
        <5>2. listing[i].price = history[m].new
          BY <2>4, <4>2, <5>1 DEF IsChain
        <5> QED BY <1>1, <2>2, <4>2, <4>3, <5>2
      <4>4. CASE n # last
        <5>1. n \in Changes(i) /\ Follows(m, n, i)
          BY <2>1, <4>1, <4>4 DEF Follows
        <5>2. history[n].previous = history[m].new
          BY <2>4, <4>2, <5>1 DEF IsChain
        <5> QED BY <2>2, <4>2, <5>1, <5>2
      <4> QED BY <4>3, <4>4
    <3>3. ASSUME NEW n \in Changes(i)', \A m \in Changes(i)' : m <= n
          PROVE  listing'[i].price = history'[n].new
      <4>1. n = last
        BY <1>2, <2>1, <2>2, <3>3
      <4> QED BY <1>1, <1>3, <4>1
    <3> QED BY <2>1, <3>1, <3>2, <3>3 DEF IsChain
  <2> QED BY <2>3, <2>5 DEF HistoryChains, Books
<1>8. Moves
  <2>1. \A j \in ListingIds : HasHistory(j) => HasHistory(j)'
    BY <1>1 DEF HasHistory
  <2>2. HasHistory(i)'
    BY <1>1 DEF HasHistory
  <2> QED BY <1>3, <2>1, <2>2 DEF Books, Typed, Moves, Rows
<1>9. Keeps
  <2>1. ASSUME NEW j \in ListingIds, NEW q \in Prices, InBooks(j, q) PROVE InBooks(j, q)'
    BY <1>1, <1>3, <1>4, <2>1 DEF InBooks
  <2> QED BY <2>1 DEF Keeps
<1> QED BY <1>5, <1>6, <1>7, <1>8, <1>9 DEF Good, Books

LEMMA ReassignedRows ==
  ASSUME Typed, NEW i \in ListingIds, NEW j \in ListingIds, history' = Reassigned(history, i, j)
  PROVE  /\ history' \in Seq(HistoryRows) /\ DOMAIN history' = DOMAIN history
         /\ \A n \in DOMAIN history :
              /\ history'[n].listing = IF history[n].listing = i THEN j ELSE history[n].listing
              /\ history'[n].of = history[n].of /\ history'[n].by = history[n].by
              /\ history'[n].previous = history[n].previous /\ history'[n].new = history[n].new
<1>1. ASSUME NEW e \in HistoryRows
      PROVE  LET moved == [e EXCEPT !.listing = j] IN
               /\ moved \in HistoryRows /\ moved.listing = j /\ moved.of = e.of /\ moved.by = e.by
               /\ moved.previous = e.previous /\ moved.new = e.new
  BY DEF HistoryRows
<1>2. \A n \in DOMAIN history : history[n] \in HistoryRows
  BY HistoryTyped
<1>3. /\ DOMAIN history' = DOMAIN history
      /\ \A n \in DOMAIN history :
           history'[n] = IF history[n].listing = i THEN [history[n] EXCEPT !.listing = j] ELSE history[n]
  BY DEF Reassigned
<1>4. ASSUME NEW n \in DOMAIN history
      PROVE  /\ history'[n] \in HistoryRows
             /\ history'[n].listing = IF history[n].listing = i THEN j ELSE history[n].listing
             /\ history'[n].of = history[n].of /\ history'[n].by = history[n].by
             /\ history'[n].previous = history[n].previous /\ history'[n].new = history[n].new
  <2>1. PICK e \in HistoryRows : e = history[n]
    BY <1>2
  <2>2. history'[n] = IF e.listing = i THEN [e EXCEPT !.listing = j] ELSE e
    BY <1>3, <2>1
  <2>3. CASE e.listing = i
    BY <1>1, <2>1, <2>2, <2>3
  <2>4. CASE e.listing # i
    BY <2>1, <2>2, <2>4
  <2> QED BY <2>3, <2>4
<1>5. Len(history) \in Nat /\ DOMAIN history = 1 .. Len(history)
  BY DEF Typed
<1>6. history' \in Seq(HistoryRows)
  <2>1. history' = [n \in 1 .. Len(history) |-> history'[n]]
    BY <1>5 DEF Reassigned
  <2> HIDE DEF HistoryRows
  <2> QED BY <1>3, <1>4, <1>5, <2>1
<1> QED BY <1>3, <1>4, <1>6

\* A merge deletes a listing and hands its history over, or a snapshot of its price.
LEMMA Merger ==
  ASSUME Books, NEW i \in ListingIds, NEW j \in ListingIds, NEW price \in Prices,
         initial[i] # Null, listing[i] # Null /\ ~HasHistory(i) => price = listing[i].price,
         MergeListing(i, j, price)
  PROVE  Good
<1>1. /\ \A k \in ListingIds : listing'[k] = IF k = i THEN Null ELSE listing[k]
      /\ listing' \in [ListingIds -> Rows \cup {Null}]
      /\ initial' = initial
  BY DEF MergeListing, Books, Typed
<1>2. CASE HasHistory(i)
  <2>1. /\ history' \in Seq(HistoryRows) /\ DOMAIN history' = DOMAIN history
        /\ \A n \in DOMAIN history :
             /\ history'[n].listing = IF history[n].listing = i THEN j ELSE history[n].listing
             /\ history'[n].of = history[n].of /\ history'[n].by = history[n].by
             /\ history'[n].previous = history[n].previous /\ history'[n].new = history[n].new
    BY <1>2, ReassignedRows DEF MergeListing, Books
  <2>2. Typed' /\ Written'
    <3>1. \A k \in ListingIds : listing'[k] # Null => initial'[k] # Null
      BY <1>1 DEF Books, Written
    <3>2. \A n \in DOMAIN history' : initial'[history'[n].of] # Null
      BY <1>1, <2>1 DEF Books, Written
    <3>3. ASSUME NEW k \in ListingIds, listing'[k] # Null, NEW n \in DOMAIN history', history'[n].of = k
          PROVE  \E m \in DOMAIN history' : history'[m].of = k /\ history'[m].new = listing'[k].price
      <4>1. listing[k] # Null /\ listing'[k] = listing[k] /\ n \in DOMAIN history /\ history[n].of = k
        BY <1>1, <2>1, <3>3
      <4>2. PICK m \in DOMAIN history : history[m].of = k /\ history[m].new = listing[k].price
        BY <4>1 DEF Books, Written
      <4> QED BY <2>1, <4>1, <4>2
    <3> QED BY <1>1, <2>1, <3>1, <3>2, <3>3 DEF Typed, Written, Books
  <2>3. HistoryChains'
    <3>1. \A k : Changes(k)' = Changes(k)
      BY <2>1 DEF Changes
    <3>2. ASSUME NEW k \in ListingIds, IsChain(k) PROVE IsChain(k)'
      <4>1. \A n \in Changes(k) : n \in DOMAIN history
        BY DEF Changes
      <4> QED BY <1>1, <2>1, <3>1, <3>2, <4>1, SameChain
    <3> QED BY <1>1, <3>2 DEF Books, HistoryChains
  <2>4. Moves
    <3>1. \A k \in ListingIds : k # i /\ HasHistory(k) => HasHistory(k)'
      BY <2>1 DEF HasHistory
    <3> QED BY <1>1, <3>1 DEF Books, Typed, Moves, Rows
  <2>5. Keeps
    <3>1. ASSUME NEW k \in ListingIds, NEW q \in Prices, NEW n \in DOMAIN history, history[n].of = k,
                 history[n].new = q \/ (history[n].previous = q /\ q # Null)
          PROVE  InBooks(k, q)'
      BY <2>1, <3>1 DEF InBooks
    <3>2. ASSUME NEW k \in ListingIds, NEW q \in Prices, k # i, listing[k] # Null, listing[k].price = q
          PROVE  InBooks(k, q)'
      BY <1>1, <3>2 DEF InBooks
    <3>3. ASSUME NEW q \in Prices, listing[i] # Null, listing[i].price = q, ~Inherited(i)
          PROVE  InBooks(i, q)'
      <4>1. PICK n \in DOMAIN history : history[n].listing = i /\ history[n].of = i
        BY <1>2, <3>3 DEF Inherited
      <4>2. PICK m \in DOMAIN history : history[m].of = i /\ history[m].new = q
        BY <3>3, <4>1 DEF Books, Written
      <4> QED BY <2>1, <4>2 DEF InBooks
    <3> QED BY <1>1, <3>1, <3>2, <3>3 DEF Keeps, InBooks
  <2> QED BY <2>2, <2>3, <2>4, <2>5 DEF Good, Books
<1>3. CASE ~HasHistory(i)
  <2> DEFINE e == [listing |-> j, of |-> i, by |-> "merge", previous |-> Null, new |-> price]
             last == Len(history) + 1
  <2>1. /\ e \in HistoryRows /\ e.of = i /\ e.by = "merge" /\ e.previous = Null /\ e.new = price
        /\ e.listing = j
    BY DEF HistoryRows
  <2>2. history' = Append(history, e)
    <3>1. history' = history \o <<e>>
      BY <1>3 DEF MergeListing, Snapshot
    <3>2. history \in Seq(HistoryRows)
      BY DEF Books, Typed
    <3> HIDE DEF e, HistoryRows
    <3> QED BY <2>1, <3>1, <3>2
  <2> HIDE DEF e
  <2>3. /\ history' \in Seq(HistoryRows)
        /\ last \notin DOMAIN history /\ DOMAIN history \subseteq Nat
        /\ DOMAIN history' = DOMAIN history \cup {last} /\ history'[last] = e
        /\ \A n \in DOMAIN history : history'[n] = history[n]
    BY <2>1, <2>2, Appended DEF Books
  <2> HIDE DEF last
  <2>4. Typed' /\ Written'
    <3>1. \A k \in ListingIds : listing'[k] # Null => initial'[k] # Null
      BY <1>1 DEF Books, Written
    <3>2. \A n \in DOMAIN history' : initial'[history'[n].of] # Null
      BY <1>1, <2>1, <2>3 DEF Books, Written
    <3>3. ASSUME NEW k \in ListingIds, listing'[k] # Null, NEW n \in DOMAIN history', history'[n].of = k
          PROVE  \E m \in DOMAIN history' : history'[m].of = k /\ history'[m].new = listing'[k].price
      <4>1. listing[k] # Null /\ listing'[k] = listing[k] /\ n \in DOMAIN history /\ history[n].of = k
        BY <1>1, <2>1, <2>3, <3>3
      <4>2. PICK m \in DOMAIN history : history[m].of = k /\ history[m].new = listing[k].price
        BY <4>1 DEF Books, Written
      <4> QED BY <2>3, <4>1, <4>2
    <3> QED BY <1>1, <2>3, <3>1, <3>2, <3>3 DEF Typed, Written, Books
  <2>5. HistoryChains'
    <3>1. \A k : Changes(k)' = Changes(k)
      BY <2>1, <2>3 DEF Changes
    <3>2. ASSUME NEW k \in ListingIds, IsChain(k) PROVE IsChain(k)'
      <4>1. \A n \in Changes(k) : n \in DOMAIN history
        BY DEF Changes
      <4> QED BY <1>1, <2>3, <3>1, <3>2, <4>1, SameChain
    <3> QED BY <1>1, <3>2 DEF Books, HistoryChains
  <2>6. Moves
    <3>1. \A k \in ListingIds : HasHistory(k) => HasHistory(k)'
      BY <2>3 DEF HasHistory
    <3> QED BY <1>1, <3>1 DEF Books, Typed, Moves, Rows
  <2>7. Keeps
    <3>1. ASSUME NEW k \in ListingIds, NEW q \in Prices, NEW n \in DOMAIN history, history[n].of = k,
                 history[n].new = q \/ (history[n].previous = q /\ q # Null)
          PROVE  InBooks(k, q)'
      BY <2>3, <3>1 DEF InBooks
    <3>2. ASSUME NEW k \in ListingIds, NEW q \in Prices, k # i, listing[k] # Null, listing[k].price = q
          PROVE  InBooks(k, q)'
      BY <1>1, <3>2 DEF InBooks
    <3>3. ASSUME NEW q \in Prices, listing[i] # Null, listing[i].price = q
          PROVE  InBooks(i, q)'
      BY <1>3, <2>1, <2>3, <3>3 DEF InBooks
    <3> QED BY <1>1, <3>1, <3>2, <3>3 DEF Keeps, InBooks
  <2> QED BY <2>4, <2>5, <2>6, <2>7 DEF Good, Books
<1> QED BY <1>2, <1>3

-----------------------------------------------------------------------------
\* The requests.

LEMMA EditStays ==
  ASSUME Books, Good, NEW f, NEW seen, f.id \in ListingIds, f.version \in Nat, EditOK(f, seen)
  PROVE  EditOK(f, seen)'
<1>1. SUFFICES ASSUME listing'[f.id] # Null
               PROVE  /\ f.version <= listing'[f.id].version
                      /\ f.version = listing'[f.id].version => seen[f.id].price = listing'[f.id].price
  BY DEF EditOK, Good, Moves
<1> DEFINE now == listing[f.id]
           new == listing'[f.id]
<1>2. /\ now # Null /\ now.version <= new.version
      /\ new.price # now.price => now.version < new.version
  BY <1>1 DEF Good, Moves, EditOK
<1>3. now.version \in Nat /\ new.version \in Nat
  BY <1>1, <1>2 DEF Good, Books, Typed, Rows
<1>4. f.version <= now.version /\ (f.version = now.version => seen[f.id].price = now.price)
  BY <1>2 DEF EditOK
<1> HIDE DEF now, new
<1>5. f.version <= new.version
  BY <1>2, <1>3, <1>4
<1>6. ASSUME f.version = new.version PROVE seen[f.id].price = new.price
  <2>1. f.version = now.version /\ ~(now.version < new.version)
    BY <1>2, <1>3, <1>4, <1>6
  <2> QED BY <1>2, <1>4, <2>1
<1> QED BY <1>5, <1>6 DEF now, new

LEMMA SoundStays ==
  ASSUME Books, Good, Proposals, NEW x, Sound(x)
  PROVE  Sound(x)'
<1>1. CASE x # Null /\ x.pc = "read"
  <2>1. SoundEdits(x)'
    <3>1. SUFFICES ASSUME x.kind \in Changed PROVE SoundEdits(x)'
      BY DEF SoundEdits
    <3>2. /\ x.obj.edits \in Seq(EditRows) /\ x.obj.edits # <<>>
          /\ DOMAIN x.obj.seen = ListingIds
          /\ \A n \in 1 .. Len(x.obj.edits) : EditOK(x.obj.edits[n], x.obj.seen)
      BY <1>1, <3>1 DEF Sound, SoundEdits
    <3>3. ASSUME NEW n \in 1 .. Len(x.obj.edits) PROVE EditOK(x.obj.edits[n], x.obj.seen)'
      <4>1. x.obj.edits[n] \in EditRows
        <5> HIDE DEF EditRows
        <5> QED BY <3>2
      <4>2. x.obj.edits[n].id \in ListingIds /\ x.obj.edits[n].version \in Nat
        BY <4>1 DEF EditRows
      <4> QED BY <3>2, <4>2, EditStays
    <3> QED BY <3>2, <3>3 DEF SoundEdits
  <2> QED BY <1>1, <2>1 DEF Sound, SoundListing, SoundStatus, SoundReview, Proposals
<1>2. CASE x # Null /\ x.pc = "gathered"
  <2>1. SoundMerge(x)
    BY <1>2 DEF Sound
  <2>2. ASSUME NEW i \in x.obj.from
        PROVE  /\ initial'[i] # Null
               /\ listing'[i] # Null /\ ~HasHistory(i)' => x.obj.shown[i] = listing'[i].price
    BY <2>1 DEF SoundMerge, Good, Moves
  <2> QED BY <1>2, <2>1, <2>2 DEF Sound, SoundMerge, Proposals
<1> QED BY <1>1, <1>2 DEF Sound

LEMMA OneMoves ==
  ASSUME IInv, Good, NEW r \in Requests, NEW x, req' = [req EXCEPT ![r] = x], Sound(x)',
         DOMAIN product' = Products, Proposals
  PROVE  IInv'
<1>1. Books /\ Books' /\ \A q \in Requests : req'[q] = IF q = r THEN x ELSE req[q]
  BY DEF IInv, Domains, Good
<1>2. ASSUME NEW q \in Requests PROVE Sound(req[q])'
  <2>1. PICK y : y = req[q]'
    OBVIOUS
  <2>2. CASE q = r
    BY <1>1, <2>1, <2>2
  <2>3. CASE q # r
    <3>1. Sound(y)
      BY <1>1, <2>1, <2>3 DEF IInv
    <3>2. Sound(y)'
      BY <1>1, <3>1, SoundStays
    <3> QED BY <2>1, <3>2
  <2> QED BY <2>2, <2>3
<1> QED BY <1>1, <1>2 DEF IInv, Domains, Proposals

LEMMA AnswerMoves ==
  ASSUME IInv, Good, NEW r \in Requests, NEW kind, NEW answer, Answers(r, kind, answer),
         DOMAIN product' = Products, Proposals
  PROVE  IInv'
<1> DEFINE x == [pc |-> "done", kind |-> kind, answer |-> answer]
<1>1. Sound(x)'
  BY DEF Sound
<1> QED BY <1>1, OneMoves DEF Answers

\* The request reads, and the tables stay.
Reading(x) == SoundEdits(x) /\ SoundListing(x) /\ SoundStatus(x) /\ SoundReview(x)
LEMMA ReadMoves ==
  ASSUME IInv, NEW r \in Requests, NEW kind, NEW obj, Reads(r, kind, obj),
         UNCHANGED <<listing, initial, history, product, merge>>,
         Reading([pc |-> "read", kind |-> kind, obj |-> obj])
  PROVE  IInv' /\ Good
<1> DEFINE x == [pc |-> "read", kind |-> kind, obj |-> obj]
<1>1. Books /\ Good
  BY SameBooks DEF IInv
<1>2. Sound(x)
  BY DEF Sound, Reading
<1> HIDE DEF x
<1>3. DOMAIN product' = Products /\ Proposals
  BY DEF IInv, Domains, Proposals
<1>4. Sound(x)'
  BY <1>1, <1>2, <1>3, SoundStays
<1>5. req' = [req EXCEPT ![r] = x]
  BY DEF Reads, x
<1> QED BY <1>1, <1>3, <1>4, <1>5, OneMoves

LEMMA AnswerOnly ==
  ASSUME IInv, NEW r \in Requests, NEW kind, NEW answer, Answers(r, kind, answer),
         UNCHANGED <<listing, initial, history>>, DOMAIN product' = Products, Proposals
  PROVE  IInv' /\ Good
<1>1. Good
  BY SameBooks DEF IInv
<1> QED BY <1>1, AnswerMoves

-----------------------------------------------------------------------------
\* Prices.

LEMMA EditsAreRead ==
  ASSUME IInv, NEW r \in Requests, ReadEdits(r), UNCHANGED catalogVars
  PROVE  IInv' /\ Good
<1>1. ASSUME NEW f \in Edits PROVE f \in EditRows /\ EditOK(f, listing)
  <2>1. f.id \in ListingIds /\ listing[f.id] # Null /\ f.version <= listing[f.id].version
    BY DEF Edits, Listed
  <2>2. listing[f.id] \in Rows /\ initial[f.id] # Null
    BY <2>1 DEF IInv, Books, Typed, Written
  <2>3. f \in EditRows
    BY DEF Edits, Listed, EditRows
  <2> QED BY <2>1, <2>2, <2>3 DEF EditOK
<1>2. ASSUME NEW kind \in Changed, NEW edits \in Seq(EditRows), edits # <<>>,
             \A n \in 1 .. Len(edits) : EditOK(edits[n], listing),
             Reads(r, kind, [edits |-> edits, seen |-> listing])
      PROVE  IInv' /\ Good
  <2> DEFINE obj == [edits |-> edits, seen |-> listing]
             x == [pc |-> "read", kind |-> kind, obj |-> obj]
  <2>1. x.kind = kind /\ x.obj.edits = edits /\ x.obj.seen = listing
    OBVIOUS
  <2> HIDE DEF x
  <2>2. DOMAIN listing = ListingIds
    BY DEF IInv, Books, Typed
  <2>3. Reading(x)
    BY <1>2, <2>1, <2>2 DEF Reading, SoundEdits, SoundListing, SoundStatus, SoundReview, Changed
  <2> QED BY <1>2, <2>3, ReadMoves DEF ReadEdits, x, pricingTables, catalogVars
<1>3. PICK kind \in Changed :
        \E edits :
           /\ Reads(r, kind, [edits |-> edits, seen |-> listing])
           /\ \/ \E e \in Edits : edits = <<e>>
              \/ \E e \in Edits, f \in Edits : edits = <<e, f>>
  BY DEF ReadEdits, BatchesOf, Changed
<1>4. PICK edits :
        /\ Reads(r, kind, [edits |-> edits, seen |-> listing])
        /\ \/ \E e \in Edits : edits = <<e>>
           \/ \E e \in Edits, f \in Edits : edits = <<e, f>>
  BY <1>3
<1>5. CASE \E e \in Edits : edits = <<e>>
  <2>1. PICK e \in Edits : edits = <<e>>
    BY <1>5
  <2>2. e \in EditRows /\ EditOK(e, listing)
    BY <1>1
  <2> HIDE DEF EditRows
  <2>3. edits \in Seq(EditRows) /\ edits # <<>> /\ \A n \in 1 .. Len(edits) : EditOK(edits[n], listing)
    BY <2>1, <2>2
  <2> QED BY <1>2, <1>4, <2>3
<1>6. CASE \E e \in Edits, f \in Edits : edits = <<e, f>>
  <2>1. PICK e \in Edits, f \in Edits : edits = <<e, f>>
    BY <1>6
  <2>2. e \in EditRows /\ EditOK(e, listing) /\ f \in EditRows /\ EditOK(f, listing)
    BY <1>1
  <2> HIDE DEF EditRows
  <2>3. edits \in Seq(EditRows) /\ edits # <<>> /\ \A n \in 1 .. Len(edits) : EditOK(edits[n], listing)
    BY <2>1, <2>2
  <2> QED BY <1>2, <1>4, <2>3
<1> QED BY <1>4, <1>5, <1>6

\* What is left of a batch once its first edit is made or passed over.
LEMMA RestOfBatch ==
  ASSUME IInv, Good, Proposals, UNCHANGED <<product, merge>>, NEW r \in Requests, NEW kind \in Changed,
         NEW edits \in Seq(EditRows), Len(edits) # 1, edits # <<>>, NEW seen, DOMAIN seen = ListingIds,
         \A n \in 1 .. Len(edits) : EditOK(edits[n], seen),
         NEW now, \/ now = seen
                  \/ listing'[Head(edits).id] # Null
                     /\ now = [seen EXCEPT ![Head(edits).id] = listing'[Head(edits).id]],
         Reads(r, kind, [edits |-> Tail(edits), seen |-> now])
  PROVE  IInv'
<1> DEFINE x == [pc |-> "read", kind |-> kind, obj |-> [edits |-> Tail(edits), seen |-> now]]
           id == Head(edits).id
<1>1. x.pc = "read" /\ x.kind = kind /\ x.obj.edits = Tail(edits) /\ x.obj.seen = now
  OBVIOUS
<1>2. /\ Tail(edits) \in Seq(EditRows) /\ Tail(edits) # <<>> /\ Len(Tail(edits)) = Len(edits) - 1
      /\ \A n \in 1 .. Len(Tail(edits)) : n + 1 \in 1 .. Len(edits) /\ Tail(edits)[n] = edits[n + 1]
      /\ \A n \in 1 .. Len(edits) : edits[n] \in EditRows
  <2> HIDE DEF EditRows
  <2>1. \A n \in 1 .. Len(edits) : edits[n] \in EditRows
    OBVIOUS
  <2>2. Len(edits) \in Nat \ {0, 1}
    OBVIOUS
  <2>3. /\ Tail(edits) \in Seq(EditRows) /\ Len(Tail(edits)) = Len(edits) - 1
        /\ \A n \in 1 .. Len(Tail(edits)) : Tail(edits)[n] = edits[n + 1]
    BY HeadTailProperties
  <2>4. Tail(edits) # <<>>
    <3>1. Len(Tail(edits)) # 0
      BY <2>2, <2>3
    <3>2. Len(<<>>) = 0
      OBVIOUS
    <3>3. PICK rest : rest = Tail(edits)
      OBVIOUS
    <3>4. rest # <<>>
      BY <3>1, <3>2, <3>3
    <3> QED BY <3>3, <3>4
  <2> QED BY <2>1, <2>2, <2>3, <2>4
<1>3. ASSUME NEW n \in 1 .. Len(Tail(edits)) PROVE EditOK(Tail(edits)[n], now)'
  <2> DEFINE f == Tail(edits)[n]
  <2>1. f \in EditRows /\ EditOK(f, seen)
    BY <1>2
  <2>2. f.id \in ListingIds /\ f.version \in Nat
    BY <2>1 DEF EditRows
  <2> HIDE DEF f
  <2>3. EditOK(f, seen)'
    BY <2>1, <2>2, EditStays DEF IInv
  <2>4. CASE now = seen
    BY <2>3, <2>4 DEF f
  <2>5. CASE now # seen /\ f.id # id
    BY <2>2, <2>3, <2>5 DEF EditOK, f
  <2>6. CASE now # seen /\ f.id = id
    <3>1. now[f.id] = listing'[f.id] /\ listing'[f.id] # Null
      BY <2>2, <2>6
    <3>2. listing'[f.id] \in Rows
      BY <2>2, <3>1 DEF Good, Books, Typed
    <3> QED BY <2>3, <3>1, <3>2 DEF EditOK, f
  <2> QED BY <2>4, <2>5, <2>6
<1>4. req' = [req EXCEPT ![r] = x]
  BY DEF Reads
<1> HIDE DEF x, id
<1>5. DOMAIN now = ListingIds
  OBVIOUS
<1>6. Sound(x)'
  BY <1>1, <1>2, <1>3, <1>5 DEF Sound, SoundEdits, SoundListing, SoundStatus, SoundReview, Changed
<1> QED BY <1>4, <1>6, OneMoves DEF IInv, Domains

LEMMA EditedRow ==
  ASSUME NEW old \in Rows, NEW edit \in EditRows
  PROVE  LET row == Edited(old, edit) IN
           /\ row \in Rows /\ row # Null /\ old.version < row.version
           /\ row.price = IF edit.price = Null THEN old.price ELSE edit.price
           /\ old.price \in Prices
<1> DEFINE row == Edited(old, edit)
<1>1. /\ old.version \in Nat /\ old.version # 0 /\ old.price \in Prices
      /\ old.product \in Products /\ old.active \in BOOLEAN
      /\ DOMAIN old = {"product", "price", "version", "active"}
  BY DEF Rows
<1>2. edit.price \in Prices \cup {Null}
  BY DEF EditRows
<1>3. /\ row.version = old.version + 1 /\ row.product = old.product /\ row.active = old.active
      /\ row.price = IF edit.price = Null THEN old.price ELSE edit.price
  BY <1>1 DEF Edited
<1>4. row.price \in Prices /\ row.version \in Nat /\ row.version # 0
  BY <1>1, <1>2, <1>3
<1>5. row = [product |-> row.product, price |-> row.price, version |-> row.version, active |-> row.active]
  <2>1. old = [product |-> old.product, price |-> old.price, version |-> old.version, active |-> old.active]
    BY DEF Rows
  <2> DEFINE price == IF edit.price = Null THEN old.price ELSE edit.price
  <2>2. row = [old EXCEPT !.version = old.version + 1, !.price = price]
    BY DEF Edited
  <2> HIDE DEF row, price
  <2>3. PICK v, q : v = old.version + 1 /\ q = price
    OBVIOUS
  <2>4. row = [old EXCEPT !.version = v, !.price = q]
    BY <2>2, <2>3
  <2> QED BY <2>1, <2>4
<1> HIDE DEF row
<1>6. row \in Rows
  BY <1>1, <1>3, <1>4, <1>5 DEF Rows
<1> QED BY <1>1, <1>3, <1>6 DEF row

LEMMA EditsApply ==
  ASSUME IInv, NEW r \in Requests, ApplyEdit(r), UNCHANGED catalogVars
  PROVE  IInv' /\ Good
<1>1. PICK kind \in Changed :
        /\ Holds(r, kind)
        /\ LET obj == req[r].obj
               edit == Head(obj.edits)
               seen == obj.seen[edit.id]
               wins == /\ kind = "batch" => seen.active
                       /\ Matches(listing[edit.id], edit)
           IN
             /\ IF wins
                THEN /\ listing' = [listing EXCEPT ![edit.id] = Edited(@, edit)]
                     /\ history' = IF edit.price = Null THEN history
                          ELSE Append(history, [listing |-> edit.id, of |-> edit.id, by |-> kind,
                                                previous |-> seen.price, new |-> edit.price])
                ELSE UNCHANGED <<listing, history>>
             /\ IF Len(obj.edits) = 1
                THEN Answers(r, kind, IF wins THEN "ok" ELSE "conflict")
                ELSE Reads(r, kind, [edits |-> Tail(obj.edits),
                                     seen |-> IF wins THEN [obj.seen EXCEPT ![edit.id] = listing'[edit.id]]
                                              ELSE obj.seen])
  BY Zenon DEF ApplyEdit, Changed
<1> DEFINE obj == req[r].obj
           edits == obj.edits
           edit == Head(edits)
           seen == obj.seen[edit.id]
           wins == /\ kind = "batch" => seen.active
                   /\ Matches(listing[edit.id], edit)
<1>2. /\ edits \in Seq(EditRows) /\ edits # <<>> /\ DOMAIN obj.seen = ListingIds
      /\ \A n \in 1 .. Len(edits) : EditOK(edits[n], obj.seen)
  BY <1>1 DEF IInv, Sound, SoundEdits, Holds
<1>3. edit \in EditRows /\ EditOK(edit, obj.seen)
  <2> HIDE DEF EditRows
  <2>1. edit = edits[1] /\ 1 \in 1 .. Len(edits)
    BY <1>2
  <2> QED BY <1>2, <2>1
<1>4. edit.id \in ListingIds /\ edit.price \in Prices \cup {Null} /\ edit.version \in Nat
  BY Zenon, <1>3 DEF EditRows
<1>5. Proposals /\ UNCHANGED <<product, merge, initial>> /\ DOMAIN product' = Products
  BY Zenon DEF ApplyEdit, catalogVars, Proposals, IInv, Domains
<1>6. /\ IF wins
         THEN /\ listing' = [listing EXCEPT ![edit.id] = Edited(@, edit)]
              /\ history' = IF edit.price = Null THEN history
                   ELSE Append(history, [listing |-> edit.id, of |-> edit.id, by |-> kind,
                                         previous |-> seen.price, new |-> edit.price])
         ELSE UNCHANGED <<listing, history>>
      /\ IF Len(edits) = 1
         THEN Answers(r, kind, IF wins THEN "ok" ELSE "conflict")
         ELSE Reads(r, kind, [edits |-> Tail(edits),
                              seen |-> IF wins THEN [obj.seen EXCEPT ![edit.id] = listing'[edit.id]]
                                       ELSE obj.seen])
  BY <1>1
<1> HIDE DEF wins, seen, edit, edits, obj
<1>7. Good /\ (wins => listing'[edit.id] # Null)
  <2>1. CASE wins
    <3> DEFINE row == Edited(listing[edit.id], edit)
    <3>1. listing[edit.id] # Null /\ listing[edit.id].version = edit.version
      BY <2>1 DEF wins, Matches
    <3>2. listing[edit.id] \in Rows
      BY <1>4, <3>1 DEF IInv, Books, Typed
    <3>3. seen.price = listing[edit.id].price
      BY <1>3, <1>4, <3>1, <3>2 DEF EditOK, seen, Rows
    <3>4. /\ row \in Rows /\ row # Null /\ listing[edit.id].version < row.version
          /\ row.price = IF edit.price = Null THEN listing[edit.id].price ELSE edit.price
          /\ listing[edit.id].price \in Prices
      BY <1>3, <3>2, EditedRow
    <3> HIDE DEF row
    <3>5. listing' = [listing EXCEPT ![edit.id] = row] /\ listing'[edit.id] = row
      BY <1>4, <1>6, <2>1 DEF row, IInv, Books, Typed
    <3>6. CASE edit.price = Null
      <4>1. listing' \in [ListingIds -> Rows \cup {Null}]
        BY <1>4, <3>4, <3>5 DEF IInv, Books, Typed
      <4>2. \A j \in ListingIds :
               IF listing[j] = Null THEN listing'[j] = Null
               ELSE /\ listing'[j] # Null /\ listing'[j].price = listing[j].price
                    /\ listing[j].version <= listing'[j].version
        BY <1>4, <3>1, <3>2, <3>4, <3>5, <3>6 DEF IInv, Books, Typed, Rows
      <4>3. history' = history
        BY <1>6, <2>1, <3>6
      <4> QED BY <1>5, <3>4, <3>5, <4>1, <4>2, <4>3, Relabelling DEF IInv
    <3>7. CASE edit.price # Null
      <4> DEFINE e == [listing |-> edit.id, of |-> edit.id, by |-> kind,
                       previous |-> seen.price, new |-> edit.price]
      <4>1. /\ e.listing = edit.id /\ e.of = edit.id /\ e.by # "merge"
            /\ e.previous = listing[edit.id].price /\ e.new = row.price
        BY <3>3, <3>4, <3>7 DEF Changed
      <4>2. e \in HistoryRows
        BY <1>4, <3>3, <3>4, <3>7 DEF HistoryRows, Changed
      <4>3. history' = Append(history, e)
        BY <1>6, <2>1, <3>7
      <4> HIDE DEF e
      <4> QED BY <1>4, <1>5, <3>1, <3>4, <3>5, <4>1, <4>2, <4>3, Edition DEF IInv
    <3> QED BY <3>4, <3>5, <3>6, <3>7
  <2>2. CASE ~wins
    BY <1>5, <1>6, <2>2, SameBooks DEF IInv
  <2> QED BY <2>1, <2>2
<1>8. CASE Len(edits) = 1
  BY <1>5, <1>6, <1>7, <1>8, AnswerMoves
<1>9. CASE Len(edits) # 1
  <2>1. CASE wins
    BY <1>2, <1>5, <1>6, <1>7, <1>9, <2>1, RestOfBatch DEF edit
  <2>2. CASE ~wins
    BY <1>2, <1>5, <1>6, <1>7, <1>9, <2>2, RestOfBatch DEF edit
  <2> QED BY <2>1, <2>2
<1> QED BY Zenon, <1>7, <1>8, <1>9

\* An answer that leaves the proofs' tables alone.
LEMMA QuietAnswer ==
  ASSUME IInv, NEW r \in Requests, NEW kind, NEW answer, Answers(r, kind, answer),
         UNCHANGED <<listing, initial, history, product, merge>>
  PROVE  IInv' /\ Good
<1>1. DOMAIN product' = Products /\ Proposals
  BY DEF IInv, Domains, Proposals
<1> QED BY <1>1, AnswerOnly

\* A request of a kind that has nothing to keep sound.
LEMMA QuietRead ==
  ASSUME IInv, NEW r \in Requests, NEW kind, NEW obj, Reads(r, kind, obj),
         kind \in {"confirm", "attach", "report", "move", "entry"},
         UNCHANGED <<listing, initial, history, product, merge>>
  PROVE  IInv' /\ Good
<1>1. Reading([pc |-> "read", kind |-> kind, obj |-> obj])
  BY DEF Reading, SoundEdits, SoundListing, SoundStatus, SoundReview, Changed
<1> QED BY <1>1, ReadMoves

LEMMA Confirmations ==
  ASSUME IInv, NEW r \in Requests, ReadToConfirm(r) \/ Confirm(r), UNCHANGED catalogVars
  PROVE  IInv' /\ Good
<1>1. CASE ReadToConfirm(r)
  BY <1>1, QuietRead DEF ReadToConfirm, pricingTables, catalogVars
<1>2. CASE Confirm(r)
  <2>1. PICK answer : Answers(r, "confirm", answer)
    BY <1>2 DEF Confirm
  <2> QED BY <1>2, <2>1, QuietAnswer DEF Confirm, catalogVars
<1> QED BY <1>1, <1>2

LEMMA ListingsRead ==
  ASSUME NEW r \in Requests, ReadListing(r)
  PROVE  \/ \E kind \in {"list", "stock"}, p \in Products, price \in Prices :
               Reads(r, kind, [product |-> p, price |-> price])
         \/ \E i \in ListingIds, active \in BOOLEAN : Reads(r, "status", [id |-> i, active |-> active])
         \/ \E kind \in {"list", "stock", "status"} : Answers(r, kind, "ok")
<1>1. PICK p \in Products :
         LET found == ListingOf(p) IN
         \/ \E kind \in {"list", "stock"}, price \in Prices :
              IF found = {} THEN Reads(r, kind, [product |-> p, price |-> price])
              ELSE \E i \in found : IF kind = "list" \/ listing[i].active
                                    THEN Answers(r, kind, "ok")
                                    ELSE Reads(r, "status", [id |-> i, active |-> TRUE])
         \/ \E i \in found, active \in BOOLEAN :
              IF listing[i].active = active THEN Answers(r, "status", "ok")
              ELSE Reads(r, "status", [id |-> i, active |-> active])
  BY DEF ReadListing
<1>2. \A i \in ListingOf(p) : i \in ListingIds
  BY DEF ListingOf, Listed
<1>3. CASE \E kind \in {"list", "stock"}, price \in Prices :
             IF ListingOf(p) = {} THEN Reads(r, kind, [product |-> p, price |-> price])
             ELSE \E i \in ListingOf(p) : IF kind = "list" \/ listing[i].active
                                          THEN Answers(r, kind, "ok")
                                          ELSE Reads(r, "status", [id |-> i, active |-> TRUE])
  BY <1>2, <1>3
<1>4. CASE \E i \in ListingOf(p), active \in BOOLEAN :
             IF listing[i].active = active THEN Answers(r, "status", "ok")
             ELSE Reads(r, "status", [id |-> i, active |-> active])
  BY <1>2, <1>4
<1> QED BY <1>1, <1>3, <1>4

LEMMA ListingsAreRead ==
  ASSUME IInv, NEW r \in Requests, ReadListing(r), UNCHANGED catalogVars
  PROVE  IInv' /\ Good
<1>1. UNCHANGED <<listing, initial, history, product, merge>>
  BY DEF ReadListing, pricingTables, catalogVars
<1>2. ASSUME NEW kind \in {"list", "stock"}, NEW p \in Products, NEW price \in Prices,
             Reads(r, kind, [product |-> p, price |-> price])
      PROVE  IInv' /\ Good
  <2>1. Reading([pc |-> "read", kind |-> kind, obj |-> [product |-> p, price |-> price]])
    BY DEF Reading, SoundEdits, SoundListing, SoundStatus, SoundReview, Changed
  <2> QED BY <1>1, <1>2, <2>1, ReadMoves
<1>3. ASSUME NEW i \in ListingIds, NEW active \in BOOLEAN,
             Reads(r, "status", [id |-> i, active |-> active])
      PROVE  IInv' /\ Good
  <2>1. Reading([pc |-> "read", kind |-> "status", obj |-> [id |-> i, active |-> active]])
    BY DEF Reading, SoundEdits, SoundListing, SoundStatus, SoundReview, Changed
  <2> QED BY <1>1, <1>3, <2>1, ReadMoves
<1>4. ASSUME NEW kind, Answers(r, kind, "ok") PROVE IInv' /\ Good
  BY <1>1, <1>4, QuietAnswer
<1> QED BY <1>2, <1>3, <1>4, ListingsRead

LEMMA ListingsAreCreated ==
  ASSUME IInv, NEW r \in Requests, CreateListing(r), UNCHANGED catalogVars
  PROVE  IInv' /\ Good
<1>1. PICK kind \in {"list", "stock"} :
        /\ Holds(r, kind)
        /\ \/ Answers(r, kind, "error") /\ UNCHANGED <<listing, initial>>
           \/ InsertListing(req[r].obj.product, req[r].obj.price) /\ Answers(r, kind, "ok")
  BY DEF CreateListing
<1>2. UNCHANGED <<history, product, merge>> /\ DOMAIN product' = Products /\ Proposals
  BY DEF CreateListing, catalogVars, Proposals, IInv, Domains
<1>3. req[r].obj.product \in Products /\ req[r].obj.price \in Prices
  BY <1>1 DEF IInv, Sound, SoundListing, Holds
<1>4. CASE Answers(r, kind, "error") /\ UNCHANGED <<listing, initial>>
  BY <1>2, <1>4, QuietAnswer
<1>5. CASE InsertListing(req[r].obj.product, req[r].obj.price) /\ Answers(r, kind, "ok")
  <2>1. Good
    BY <1>2, <1>3, <1>5, Insertion DEF IInv
  <2> QED BY <1>2, <1>5, <2>1, AnswerMoves
<1> QED BY <1>1, <1>4, <1>5

LEMMA StatusesAreSet ==
  ASSUME IInv, NEW r \in Requests, SetStatus(r), UNCHANGED catalogVars
  PROVE  IInv' /\ Good
<1> DEFINE id == req[r].obj.id
           active == req[r].obj.active
<1>1. UNCHANGED <<initial, history, product, merge>> /\ DOMAIN product' = Products /\ Proposals
  BY DEF SetStatus, catalogVars, Proposals, IInv, Domains
<1>2. id \in ListingIds /\ active \in BOOLEAN
  BY DEF SetStatus, Holds, IInv, Sound, SoundStatus
<1>3. CASE listing[id] = Null
  <2>1. Answers(r, "status", "error") /\ listing' = listing
    BY <1>3 DEF SetStatus
  <2> QED BY <1>1, <2>1, QuietAnswer
<1>4. CASE listing[id] # Null
  <2>1. listing' = [listing EXCEPT ![id].active = active] /\ Answers(r, "status", "ok")
    BY <1>4 DEF SetStatus
  <2>2. listing[id] \in Rows
    BY <1>2, <1>4 DEF IInv, Books, Typed
  <2>3. listing' \in [ListingIds -> Rows \cup {Null}]
    BY <1>2, <2>1, <2>2 DEF IInv, Books, Typed, Rows
  <2>4. \A j \in ListingIds :
           IF listing[j] = Null THEN listing'[j] = Null
           ELSE /\ listing'[j] # Null /\ listing'[j].price = listing[j].price
                /\ listing[j].version <= listing'[j].version
    BY SMTT(30), ZenonT(40), <1>2, <2>1, <2>2 DEF IInv, Books, Typed, Rows
  <2>5. Good
    BY <1>1, <2>3, <2>4, Relabelling DEF IInv
  <2> QED BY <1>1, <2>1, <2>5, AnswerMoves
<1> QED BY <1>3, <1>4

LEMMA PricesMove ==
  ASSUME IInv, NEW r \in Requests, PricingNext(r), UNCHANGED catalogVars
  PROVE  IInv' /\ Good
BY EditsAreRead, EditsApply, Confirmations, ListingsAreRead, ListingsAreCreated, StatusesAreSet DEF PricingNext

-----------------------------------------------------------------------------
\* Barcodes, aliases and their review.

LEMMA EntriesMove ==
  ASSUME IInv, NEW r \in Requests,
         \/ ReadToAttach(r) \/ Attach(r) \/ ReadEntry(r) \/ Report(r) \/ Move(r) \/ ReviewEntry(r)
  PROVE  IInv' /\ Good
<1>1. UNCHANGED <<listing, initial, history, product, merge>>
  BY DEF ReadToAttach, Attach, ReadEntry, Report, Move, ReviewEntry, pricingTables, catalogVars
<1>2. CASE ReadToAttach(r)
  <2>1. \/ \E answer : Answers(r, "attach", answer)
        \/ \E obj : Reads(r, "attach", obj)
    BY <1>2 DEF ReadToAttach
  <2> QED BY <1>1, <2>1, QuietAnswer, QuietRead
<1>3. CASE ReadEntry(r)
  <2>1. \/ \E obj : Reads(r, "report", obj)
        \/ \E obj : Reads(r, "move", obj)
    BY <1>3 DEF ReadEntry
  <2> QED BY <1>1, <2>1, QuietRead
<1>4. CASE Attach(r) \/ Report(r) \/ Move(r) \/ ReviewEntry(r)
  <2>1. \E kind, answer : Answers(r, kind, answer)
    BY <1>4 DEF Attach, Report, Move, ReviewEntry
  <2> QED BY <1>1, <2>1, QuietAnswer
<1> QED BY Zenon, <1>2, <1>3, <1>4

LEMMA ProductsAreCreated ==
  ASSUME IInv, NEW r \in Requests, CreateProduct(r)
  PROVE  IInv' /\ Good
<1>1. PICK p \in Products, price \in Prices \cup {Null} :
        \/ Answers(r, "create", "conflict") /\ UNCHANGED <<product, listing, initial>>
        \/ /\ \E status : product' = [product EXCEPT ![p] = status]
           /\ IF price = Null THEN UNCHANGED <<listing, initial>> ELSE InsertListing(p, price)
           /\ Answers(r, "create", "ok")
  BY DEF CreateProduct
<1>2. UNCHANGED <<history, merge>> /\ DOMAIN product' = Products /\ Proposals
  BY <1>1 DEF CreateProduct, Proposals, IInv, Domains
<1>3. CASE UNCHANGED <<listing, initial>>
  BY <1>1, <1>2, <1>3, AnswerOnly
<1>4. CASE price \in Prices /\ InsertListing(p, price)
  <2>1. Good
    BY <1>2, <1>4, Insertion DEF IInv
  <2> QED BY <1>1, <1>2, <2>1, AnswerMoves
<1> QED BY <1>1, <1>3, <1>4

LEMMA ReviewsMove ==
  ASSUME IInv, NEW r \in Requests, ReadReview(r) \/ ReviewProduct(r)
  PROVE  IInv' /\ Good
<1>1. CASE ReadReview(r)
  <2>1. UNCHANGED <<listing, initial, history, product, merge>>
    BY <1>1 DEF ReadReview, pricingTables, catalogVars
  <2>2. PICK kind \in {"product", "entry", "merge"} : \E id \in Table(kind), verdict \in Verdicts :
          IF Reviewable(StatusOf(kind, id))
          THEN Reads(r, kind, [id |-> id, verdict |-> verdict, was |-> StatusOf(kind, id)])
          ELSE Answers(r, kind, "conflict")
    BY <1>1 DEF ReadReview
  <2>3. PICK id \in Table(kind), verdict \in Verdicts :
          IF Reviewable(StatusOf(kind, id))
          THEN Reads(r, kind, [id |-> id, verdict |-> verdict, was |-> StatusOf(kind, id)])
          ELSE Answers(r, kind, "conflict")
    BY <2>2
  <2>4. CASE ~Reviewable(StatusOf(kind, id))
    BY <2>1, <2>3, <2>4, QuietAnswer
  <2>5. CASE Reviewable(StatusOf(kind, id))
    <3>1. Reads(r, kind, [id |-> id, verdict |-> verdict, was |-> "PENDING"])
      BY <2>3, <2>5 DEF Reviewable
    <3>2. kind = "merge" => id \in MergeIds /\ merge[id] # Null
      BY <2>3 DEF Table
    <3> DEFINE obj == [id |-> id, verdict |-> verdict, was |-> "PENDING"]
               x == [pc |-> "read", kind |-> kind, obj |-> obj]
    <3>3. x.kind = kind /\ x.obj.id = id /\ x.obj.was = "PENDING"
      OBVIOUS
    <3> HIDE DEF x
    <3>4. Reading(x)
      BY <3>2, <3>3 DEF Reading, SoundEdits, SoundListing, SoundStatus, SoundReview, Changed
    <3> QED BY <2>1, <3>1, <3>4, ReadMoves DEF x
  <2> QED BY <2>4, <2>5
<1>2. CASE ReviewProduct(r)
  <2>1. UNCHANGED <<listing, initial, history, merge>> /\ Answers(r, "product", "ok")
    BY <1>2 DEF ReviewProduct, pricingTables
  <2>2. DOMAIN product' = Products /\ Proposals
    BY <1>2, <2>1 DEF ReviewProduct, Proposals, IInv, Domains
  <2> QED BY <2>1, <2>2, AnswerOnly
<1> QED BY <1>1, <1>2

LEMMA ProposalsMove ==
  ASSUME IInv, NEW r \in Requests, ReadToPropose(r) \/ Propose(r) \/ RejectMerge(r)
  PROVE  IInv' /\ Good
<1>1. UNCHANGED <<listing, initial, history, product>> /\ DOMAIN product' = Products
  BY DEF ReadToPropose, Propose, RejectMerge, pricingTables, IInv, Domains
<1>2. CASE ReadToPropose(r)
  <2>1. UNCHANGED merge
    BY <1>2 DEF ReadToPropose, catalogVars
  <2>2. \/ Answers(r, "propose", "conflict")
        \/ \E m \in Merges : Reads(r, "propose", m)
    <3>1. \A p, q \in Products : [source |-> p, target |-> q, status |-> "PENDING"] \in Merges
      BY DEF Merges
    <3> QED BY <1>2, <3>1 DEF ReadToPropose
  <2>3. ASSUME NEW m \in Merges, Reads(r, "propose", m) PROVE IInv' /\ Good
    <3>1. Reading([pc |-> "read", kind |-> "propose", obj |-> m])
      BY DEF Reading, SoundEdits, SoundListing, SoundStatus, SoundReview, Changed
    <3> QED BY <1>1, <2>1, <2>3, <3>1, ReadMoves
  <2> QED BY <1>1, <2>1, <2>2, <2>3, QuietAnswer
<1>3. CASE Propose(r)
  <2>1. req[r].obj \in Merges
    BY <1>3 DEF Propose, Holds, IInv, Sound, SoundReview
  <2>2. PICK m \in MergeIds : merge[m] = Null /\ merge' = [merge EXCEPT ![m] = req[r].obj]
    BY <1>3 DEF Propose
  <2>3. Proposals
    BY <2>1, <2>2 DEF Proposals, IInv, Domains
  <2> QED BY <1>1, <1>3, <2>3, AnswerOnly DEF Propose
<1>4. CASE RejectMerge(r)
  <2> DEFINE id == req[r].obj.id
  <2>1. id \in MergeIds /\ merge[id] # Null
    BY <1>4 DEF RejectMerge, Holds, IInv, Sound, SoundReview
  <2>2. merge' = [merge EXCEPT ![id].status = "REJECTED"]
    BY <1>4 DEF RejectMerge
  <2>3. merge \in [MergeIds -> Merges \cup {Null}] /\ merge[id] \in Merges
    BY <2>1 DEF IInv, Domains
  <2>4. [merge[id] EXCEPT !.status = "REJECTED"] \in Merges
    BY <2>3 DEF Merges, Verdicts
  <2> HIDE DEF id
  <2>5. Proposals
    <3> HIDE DEF Merges
    <3> QED BY <2>1, <2>2, <2>3, <2>4 DEF Proposals
  <2> QED BY <1>1, <1>4, <2>5, AnswerOnly DEF RejectMerge
<1> QED BY <1>2, <1>3, <1>4

-----------------------------------------------------------------------------
\* Merges.

LEMMA MergesAreGathered ==
  ASSUME IInv, NEW r \in Requests, GatherMerge(r)
  PROVE  IInv' /\ Good
<1> DEFINE obj == req[r].obj
           source == merge[obj.id].source
           target == merge[obj.id].target
<1>1. UNCHANGED <<listing, initial, history, product, merge>>
  BY DEF GatherMerge, pricingTables, catalogVars
<1>2. obj.was = "PENDING" /\ obj.id \in MergeIds /\ merge[obj.id] # Null
  BY DEF GatherMerge, Holds, IInv, Sound, SoundReview
<1>3. target \in Products
  BY <1>2 DEF IInv, Domains, Merges
<1>4. CASE Answers(r, "merge", "error")
  BY <1>1, <1>4, QuietAnswer
<1>5. CASE ~Answers(r, "merge", "error")
  <2> DEFINE got == [id |-> obj.id, was |-> obj.was, source |-> source, target |-> target,
                     merged |-> product[source] = "MERGED",
                     moved |-> EntriesOf(source) \ Redundant(source, target),
                     dropped |-> Redundant(source, target),
                     from |-> ListingOf(source), to |-> ListingOf(target),
                     shown |-> [i \in ListingOf(source) |-> listing[i].price]]
             x == [pc |-> "gathered", kind |-> "merge", obj |-> got]
  <2>1. req' = [req EXCEPT ![r] = x]
    BY Zenon, <1>5 DEF GatherMerge
  <2>2. /\ x # Null => x.pc = "gathered"
        /\ x.kind = "merge" /\ x.obj.was = obj.was /\ x.obj.target = target /\ x.obj.id = obj.id
        /\ x.obj.from = ListingOf(source) /\ x.obj.to = ListingOf(target)
        /\ \A i \in x.obj.from : x.obj.shown[i] = listing[i].price
    OBVIOUS
  <2>3. Books /\ Good /\ Proposals /\ DOMAIN product' = Products
    BY <1>1, SameBooks DEF IInv, Domains, Proposals
  <2> HIDE DEF x, source, target, obj
  <2>4. x.obj.from \subseteq ListingIds /\ x.obj.to \subseteq ListingIds
    BY <2>2 DEF ListingOf, Listed
  <2>5. \A i \in x.obj.from : /\ initial[i] # Null /\ x.obj.shown[i] \in Prices
                              /\ x.obj.shown[i] = listing[i].price
    BY <2>2, <2>3 DEF ListingOf, Listed, Books, Written, Typed, Rows
  <2>6. Sound(x)
    BY <1>2, <1>3, <2>2, <2>4, <2>5 DEF Sound, SoundMerge
  <2>7. PICK y : y = x
    OBVIOUS
  <2>8. Sound(y)'
    BY <2>3, <2>6, <2>7, SoundStays
  <2> QED BY <2>1, <2>3, <2>7, <2>8, OneMoves
<1> QED BY <1>4, <1>5

LEMMA MergesAreCommitted ==
  ASSUME IInv, NEW r \in Requests, CommitMerge(r)
  PROVE  IInv' /\ Good
<1> DEFINE obj == req[r].obj
<1>1. /\ obj.target \in Products /\ obj.id \in MergeIds /\ merge[obj.id] # Null
      /\ obj.from \subseteq ListingIds /\ obj.to \subseteq ListingIds
      /\ \A i \in obj.from :
           /\ initial[i] # Null /\ obj.shown[i] \in Prices
           /\ listing[i] # Null /\ ~HasHistory(i) => obj.shown[i] = listing[i].price
  BY DEF CommitMerge, IInv, Sound, SoundMerge
<1>2. CASE MergeFails(obj)
  <2>1. Answers(r, "merge", "error") /\ UNCHANGED <<listing, initial, history, product, merge>>
    BY <1>2 DEF CommitMerge, pricingTables, catalogVars
  <2> QED BY <2>1, QuietAnswer
<1>3. CASE ~MergeFails(obj)
  <2>1. /\ CASE obj.from = {} -> UNCHANGED pricingTables
             [] obj.from # {} /\ obj.to = {} ->
                  /\ listing' = [i \in ListingIds |-> IF i \in obj.from
                                    THEN [listing[i] EXCEPT !.product = obj.target] ELSE listing[i]]
                  /\ UNCHANGED <<initial, history, confirmations>>
             [] OTHER -> \E i \in obj.from, j \in obj.to : MergeListing(i, j, obj.shown[i])
        /\ product' = IF obj.merged THEN product ELSE [product EXCEPT ![obj.source] = "MERGED"]
        /\ merge' = [merge EXCEPT ![obj.id].status = "APPROVED"]
        /\ Answers(r, "merge", "ok")
    BY <1>3 DEF CommitMerge
  <2> HIDE DEF obj
  <2>2. DOMAIN product' = Products
    BY <2>1 DEF IInv, Domains
  <2>3. Proposals
    <3>1. merge \in [MergeIds -> Merges \cup {Null}] /\ merge[obj.id] \in Merges
      BY <1>1 DEF IInv, Domains
    <3>2. [merge[obj.id] EXCEPT !.status = "APPROVED"] \in Merges
      BY <3>1 DEF Merges, Verdicts
    <3> HIDE DEF Merges
    <3> QED BY <1>1, <2>1, <3>1, <3>2 DEF Proposals
  <2>4. Good
    <3>1. CASE obj.from = {}
      BY <2>1, <3>1, SameBooks DEF pricingTables, IInv
    <3>2. CASE obj.from # {} /\ obj.to = {}
      <4>1. /\ listing' = [i \in ListingIds |-> IF i \in obj.from
                              THEN [listing[i] EXCEPT !.product = obj.target] ELSE listing[i]]
            /\ UNCHANGED <<initial, history>>
        BY <2>1, <3>2
      <4>2. \A i \in obj.from : listing[i] # Null
        BY <1>3, <3>2 DEF MergeFails, obj
      <4>3. ASSUME NEW i \in ListingIds
            PROVE  /\ listing'[i] \in Rows \cup {Null}
                   /\ IF listing[i] = Null THEN listing'[i] = Null
                      ELSE /\ listing'[i] # Null /\ listing'[i].price = listing[i].price
                           /\ listing[i].version <= listing'[i].version
        <5>1. CASE i \in obj.from
          <6>1. PICK row \in Rows : row = listing[i]
            BY <4>2, <5>1 DEF IInv, Books, Typed
          <6>2. listing'[i] = [row EXCEPT !.product = obj.target]
            BY <4>1, <5>1, <6>1
          <6>3. /\ [row EXCEPT !.product = obj.target] \in Rows
                /\ [row EXCEPT !.product = obj.target].price = row.price
                /\ [row EXCEPT !.product = obj.target].version = row.version
                /\ row.version \in Nat
            BY <1>1 DEF Rows
          <6> QED BY <4>2, <5>1, <6>1, <6>2, <6>3
        <5>2. CASE i \notin obj.from
          BY <4>1, <5>2 DEF IInv, Books, Typed, Rows
        <5> QED BY <5>1, <5>2
      <4>4. listing' \in [ListingIds -> Rows \cup {Null}]
        BY <4>1, <4>3
      <4> QED BY <4>1, <4>3, <4>4, Relabelling DEF IInv
    <3>3. CASE obj.from # {} /\ obj.to # {}
      <4>1. PICK i \in obj.from, j \in obj.to : MergeListing(i, j, obj.shown[i])
        BY <2>1, <3>3
      <4> QED BY <1>1, <4>1, Merger DEF IInv
    <3> QED BY <3>1, <3>2, <3>3
  <2> QED BY <2>1, <2>2, <2>3, <2>4, AnswerMoves
<1> QED BY <1>2, <1>3

-----------------------------------------------------------------------------
\* The invariant, and what follows from it.

LEMMA InvInit ==
  ASSUME Init
  PROVE  IInv
<1>1. PICK s \in Scenarios : PricingInit(s) /\ merge = s.merge
  BY DEF Init
<1>2. /\ listing = s.listing /\ product = s.product /\ history = <<>>
      /\ initial = [i \in ListingIds |-> IF listing[i] = Null THEN Null ELSE listing[i].price]
      /\ req = [r \in Requests |-> Null]
  BY <1>1 DEF PricingInit
<1>3. listing \in [ListingIds -> Rows \cup {Null}] /\ DOMAIN product = Products
  BY <1>2
<1>4. Typed /\ Written
  BY <1>2, <1>3 DEF Typed, Written, Rows
<1>5. HistoryChains
  BY <1>2, <1>3 DEF HistoryChains, IsChain, Changes
<1>6. Domains /\ \A r \in Requests : Sound(req[r])
  BY <1>1, <1>2, <1>3 DEF Domains, Sound
<1> QED BY <1>4, <1>5, <1>6 DEF IInv, Books

LEMMA InvNext ==
  ASSUME IInv, [Next]_vars
  PROVE  IInv' /\ Good
<1>1. CASE UNCHANGED vars
  <2>1. UNCHANGED <<listing, initial, history, product, merge, req>>
    BY <1>1 DEF vars, pricingVars, catalogVars
  <2>2. Good /\ Proposals
    BY <2>1, SameBooks DEF IInv, Domains, Proposals
  <2>3. ASSUME NEW r \in Requests PROVE Sound(req[r])'
    <3>1. PICK x : x = req[r]
      OBVIOUS
    <3>2. Sound(x)'
      BY <2>2, <3>1, SoundStays DEF IInv
    <3> QED BY <2>1, <3>1, <3>2
  <2> QED BY <2>1, <2>2, <2>3 DEF IInv, Good, Domains
<1>2. CASE Next
  BY <1>2, PricesMove, EntriesMove, ProductsAreCreated, ReviewsMove, ProposalsMove,
     MergesAreGathered, MergesAreCommitted DEF Next
<1> QED BY <1>1, <1>2

\* The books stay sound, whatever is edited, listed and merged while what.
THEOREM Invariant == Spec => []IInv
<1>1. IInv /\ [Next]_vars => IInv'
  BY InvNext
<1> QED BY <1>1, InvInit, PTL DEF Spec

\* The history of every listing is one chain from its first price to the one it
\* shows: no update is lost under another (apply_update's version check).
THEOREM NoUpdateIsLost == Spec => []HistoryChains
<1>1. IInv => HistoryChains
  BY DEF IInv, Books
<1> QED BY <1>1, Invariant, PTL

\* What is recorded is what is in the books.
LEMMA RecordedIsBooked ==
  ASSUME Typed, NEW x \in Recorded
  PROVE  \E i \in ListingIds, q \in Prices : x = <<i, q>> /\ InBooks(i, q)
<1>1. CASE \E i \in Listed : x = <<i, listing[i].price>>
  BY <1>1 DEF Listed, Typed, Rows, InBooks
<1>2. CASE \E n \in DOMAIN history : x = <<history[n].of, history[n].new>>
  BY <1>2, HistoryTyped DEF InBooks
<1>3. CASE \E n \in DOMAIN history : history[n].previous # Null /\ x = <<history[n].of, history[n].previous>>
  <2>1. PICK n \in DOMAIN history : history[n].previous # Null /\ x = <<history[n].of, history[n].previous>>
    BY <1>3
  <2>2. history[n].previous \in Prices /\ history[n].of \in ListingIds
    <3>1. PICK e \in HistoryRows : e = history[n]
      BY HistoryTyped
    <3>2. e.previous \in Prices \cup {Null} /\ e.of \in ListingIds
      BY DEF HistoryRows
    <3> QED BY <2>1, <3>1, <3>2
  <2> QED BY <2>1, <2>2 DEF InBooks
<1> QED BY <1>1, <1>2, <1>3 DEF Recorded

\* No merge, edit or listing loses a price that a listing has shown; but a merge
\* of a listing whose history is all inherited loses its one own price
\* (reassign_store_product counts rows, and not whose).
THEOREM PricesAreKept == Spec => PricesKept
<1>1. ASSUME IInv, [Next]_vars, NEW x \in Recorded
      PROVE  \/ x \in Recorded'
             \/ listing[x[1]] # Null /\ listing'[x[1]] = Null /\ Inherited(x[1])
  <2>1. PICK i \in ListingIds, q \in Prices : x = <<i, q>> /\ InBooks(i, q)
    BY <1>1, RecordedIsBooked DEF IInv, Books
  <2>2. InBooks(i, q)' \/ (listing[i] # Null /\ listing'[i] = Null /\ Inherited(i))
    BY <1>1, <2>1, InvNext DEF Good, Keeps
  <2>3. InBooks(i, q)' => <<i, q>> \in Recorded'
    BY DEF InBooks, Recorded, Listed
  <2> QED BY <2>1, <2>2, <2>3
<1>2. IInv /\ [Next]_vars =>
        [\A x \in Recorded : \/ x \in Recorded'
                             \/ listing[x[1]] # Null /\ listing'[x[1]] = Null /\ Inherited(x[1])]_vars
  BY <1>1
<1> QED BY <1>2, Invariant, PTL DEF Spec, PricesKept

\* A review reads its row pending, so a verdict it changes had raced it.
LEMMA ProductVerdicts ==
  ASSUME IInv, Next, NEW p \in Products, product[p] \notin {"none", "PENDING"}
  PROVE  product'[p] \in {product[p], "MERGED"} \/ <<"product", p>> \in raced'
<1>1. DOMAIN product = Products
  BY DEF IInv, Domains
<1>2. PICK r \in Requests :
        \/ product' = product
        \/ CreateProduct(r) \/ ReviewProduct(r) \/ CommitMerge(r)
  <2>1. \A r \in Requests : PricingNext(r) => product' = product
    BY ZenonT(40), SMTT(30) DEF PricingNext, ReadEdits, ApplyEdit, ReadToConfirm, Confirm, ReadListing, CreateListing, SetStatus
  <2>2. \A r \in Requests :
          ReadToAttach(r) \/ Attach(r) \/ ReadEntry(r) \/ Report(r) \/ Move(r) => product' = product
    BY DEF ReadToAttach, Attach, ReadEntry, Report, Move
  <2>3. \A r \in Requests :
          ReadReview(r) \/ ReviewEntry(r) \/ RejectMerge(r) \/ ReadToPropose(r) \/ Propose(r) \/ GatherMerge(r)
             => product' = product
    BY DEF ReadReview, ReviewEntry, RejectMerge, ReadToPropose, Propose, GatherMerge
  <2> QED BY <2>1, <2>2, <2>3 DEF Next
<1>3. CASE CreateProduct(r)
  <2>1. PICK q \in Products : ~Exists(q) /\ (product' = product \/ \E s : product' = [product EXCEPT ![q] = s])
    BY <1>3 DEF CreateProduct
  <2>2. q # p
    BY <2>1 DEF Exists
  <2> QED BY <1>1, <2>1, <2>2
<1>4. CASE ReviewProduct(r)
  <2>1. /\ product' = [product EXCEPT ![req[r].obj.id] = req[r].obj.verdict]
        /\ Races(r) /\ req[r].kind = "product"
    BY <1>4 DEF ReviewProduct, Holds
  <2>2. req[r].obj.was = "PENDING"
    BY <1>4 DEF ReviewProduct, Holds, IInv, Sound, SoundReview
  <2>3. CASE req[r].obj.id = p
    BY <2>1, <2>2, <2>3 DEF Races, StatusOf
  <2> QED BY <1>1, <2>1, <2>3
<1>5. CASE CommitMerge(r)
  <2>1. \/ product' = product
        \/ product' = [product EXCEPT ![req[r].obj.source] = "MERGED"]
    BY <1>5 DEF CommitMerge
  <2> QED BY <1>1, <2>1
<1> QED BY <1>2, <1>3, <1>4, <1>5

LEMMA MergeVerdicts ==
  ASSUME IInv, Next, NEW m \in MergeIds, merge[m] # Null, merge[m].status # "PENDING"
  PROVE  merge'[m] = merge[m] \/ <<"merge", m>> \in raced'
<1>1. DOMAIN merge = MergeIds
  BY DEF IInv, Domains
<1>2. PICK r \in Requests :
        \/ merge' = merge
        \/ Propose(r) \/ RejectMerge(r) \/ CommitMerge(r)
  BY ZenonT(40), SMTT(30) DEF Next, PricingNext, catalogVars, ReadToAttach, Attach, CreateProduct, ReadEntry, Report, Move,
     ReadReview, ReviewProduct, ReviewEntry, ReadToPropose, GatherMerge
<1>3. CASE Propose(r)
  <2>1. PICK n \in MergeIds : merge[n] = Null /\ merge' = [merge EXCEPT ![n] = req[r].obj]
    BY <1>3 DEF Propose
  <2> QED BY <1>1, <2>1
<1>4. CASE RejectMerge(r) \/ CommitMerge(r)
  <2>1. \/ merge' = merge
        \/ /\ \E s : merge' = [merge EXCEPT ![req[r].obj.id].status = s]
           /\ Races(r)
    BY <1>4 DEF RejectMerge, CommitMerge, catalogVars
  <2>2. req[r].kind = "merge" /\ req[r].obj.was = "PENDING"
    BY <1>4 DEF RejectMerge, CommitMerge, Holds, IInv, Sound, SoundReview, SoundMerge
  <2>3. CASE req[r].obj.id = m
    BY <2>1, <2>2, <2>3 DEF Races, StatusOf
  <2> QED BY <1>1, <2>1, <2>3
<1> QED BY <1>2, <1>3, <1>4

\* A verdict on a product or a merge stands, and a merged product stays merged,
\* unless a review that had begun before overwrites it (_get_pending_product).
THEOREM VerdictsAreKept == Spec => VerdictsStand
<1>1. IInv /\ [Next]_vars =>
        [/\ \A p \in Products : product[p] \notin {"none", "PENDING"} =>
              product'[p] \in {product[p], "MERGED"} \/ <<"product", p>> \in raced'
         /\ \A m \in MergeIds : merge[m] # Null /\ merge[m].status # "PENDING" =>
              merge'[m] = merge[m] \/ <<"merge", m>> \in raced']_vars
  BY ProductVerdicts, MergeVerdicts
<1> QED BY <1>1, Invariant, PTL DEF Spec, VerdictsStand

-----------------------------------------------------------------------------
(* Entries, references and points.                                           *)

\* What else a request has read and goes on relying on: that its rows were there,
\* and for a merge that it is of two products, with two listings.
CarefulRead(kind, obj) ==
    /\ kind = "attach" => obj \in Entries
    /\ kind = "move" => obj.product \in Products
    /\ kind \in {"report", "move", "entry"} => obj.id \in EntryIds /\ entry[obj.id] # Null
    /\ kind = "product" => obj.id \in Products /\ product[obj.id] # "none"
    /\ kind \in {"entry", "product"} => obj.verdict \in Verdicts
    /\ kind = "propose" => obj.source # obj.target /\ obj.status = "PENDING"
    /\ kind = "confirm" => obj.id \in ListingIds /\ obj.price \in Prices
CarefulMerge(obj) ==
    /\ obj.target \in Products /\ obj.source # obj.target
    /\ obj.moved \subseteq EntryIds /\ \A i \in obj.moved : entry[i] # Null
    /\ obj.from \cap obj.to = {} /\ obj.moved \cap obj.dropped = {}
Careful(x) ==
    x # Null => /\ x.pc = "read" => CarefulRead(x.kind, x.obj)
                /\ x.pc = "gathered" => CarefulMerge(x.obj)

ConfirmRows == [listing: ListingIds, of: ListingIds, price: Prices]
\* What is merged is two products, and what is told of a listing, of one that is there.
Apart == \A m \in MergeIds : merge[m] # Null => merge[m].source # merge[m].target
Told(rows) == \A n \in DOMAIN rows : listing[rows[n].listing] # Null
Tables ==
    /\ entry \in [EntryIds -> Entries \cup {Null, Gone}]
    /\ product \in [Products -> ProductStatuses]
    /\ confirmations \in Seq(ConfirmRows)
    /\ Apart /\ Told(history) /\ Told(confirmations)
CInv ==
    /\ Tables
    /\ \A r \in Requests : Careful(req[r]) /\ (req[r] # Null => req[r].pc \in {"read", "gathered", "done"})

\* Rows are never taken back.
Kept ==
    /\ \A i \in EntryIds : entry[i] # Null => entry'[i] # Null
    /\ \A p \in Products : product[p] # "none" => product'[p] # "none"

\* The points given are those the tables tell of; what is not there has none.
Updates(i) == {n \in DOMAIN history : history[n].of = i /\ history[n].by = "update"}
ConfirmationsOf(i) == {n \in DOMAIN confirmations : confirmations[n].of = i}
UpdatesPaid == \A i \in ListingIds : Points("UPDATE_PRICE", i) = Cardinality(Updates(i))
ConfirmationsPaid == \A i \in ListingIds : Points("CONFIRM_PRICE", i) = Cardinality(ConfirmationsOf(i))
ProductPaid(p) ==
    LET points == Points("CREATE_PRODUCT_APPROVED", p) IN
    /\ product[p] = "none" => points = 0 /\ <<"product", p>> \notin raced
    /\ <<"product", p>> \notin raced =>
         /\ points <= 1
         /\ product[p] = "APPROVED" => points = 1
         /\ product[p] \in {"PENDING", "REJECTED"} => points = 0
MergePaid(m) ==
    LET points == Points("REPORT_DUPLICATE_APPROVED", m) IN
    /\ merge[m] = Null => points = 0 /\ <<"merge", m>> \notin raced
    /\ merge[m] # Null /\ <<"merge", m>> \notin raced =>
         points = IF merge[m].status = "APPROVED" THEN 1 ELSE 0
LInv ==
    /\ awards \in [DOMAIN awards -> Nat]
    /\ UpdatesPaid /\ ConfirmationsPaid
    /\ \A p \in Products : ProductPaid(p)
    /\ \A m \in MergeIds : MergePaid(m)

-----------------------------------------------------------------------------
\* How the requests go on with what they have read.

LEMMA CarefulStays ==
  ASSUME Kept, NEW x, Careful(x)
  PROVE  Careful(x)'
<1>1. ASSUME NEW kind, NEW obj, CarefulRead(kind, obj) PROVE CarefulRead(kind, obj)'
  BY <1>1 DEF Kept, CarefulRead
<1>2. ASSUME NEW obj, CarefulMerge(obj) PROVE CarefulMerge(obj)'
  BY <1>2 DEF Kept, CarefulMerge
<1> QED BY <1>1, <1>2 DEF Careful

Known(x) == x # Null => x.pc \in {"read", "gathered", "done"}

LEMMA OneGoesOn ==
  ASSUME IInv, CInv, Kept, Tables', NEW r \in Requests, NEW x, req' = [req EXCEPT ![r] = x],
         Careful(x)', Known(x)
  PROVE  CInv'
<1>1. \A q \in Requests : req'[q] = IF q = r THEN x ELSE req[q]
  BY DEF IInv, Domains
<1>2. ASSUME NEW q \in Requests PROVE Careful(req[q])' /\ Known(req'[q])
  <2>1. PICK y : y = req[q]
    OBVIOUS
  <2>2. Careful(y)' /\ Known(y)
    BY <2>1, CarefulStays DEF CInv, Known
  <2>3. PICK z : z = req'[q]
    OBVIOUS
  <2>4. z = x \/ z = y
    BY <1>1, <2>1, <2>3
  <2>5. Careful(z)' /\ Known(z)
    BY <2>2, <2>4
  <2> QED BY <2>3, <2>5
<1> QED BY <1>2 DEF CInv, Known

LEMMA AnswerGoes ==
  ASSUME IInv, CInv, Kept, Tables', NEW r \in Requests, NEW kind, NEW answer, Answers(r, kind, answer)
  PROVE  CInv'
<1> DEFINE x == [pc |-> "done", kind |-> kind, answer |-> answer]
<1>1. Careful(x)' /\ Known(x)
  BY DEF Careful, Known
<1> QED BY <1>1, OneGoesOn DEF Answers

LEMMA ReadGoes ==
  ASSUME IInv, CInv, Kept, Tables', NEW r \in Requests, NEW kind, NEW obj, Reads(r, kind, obj),
         CarefulRead(kind, obj)
  PROVE  CInv'
<1> DEFINE x == [pc |-> "read", kind |-> kind, obj |-> obj]
<1>1. Careful(x) /\ Known(x)
  BY DEF Careful, Known
<1>2. req' = [req EXCEPT ![r] = x]
  BY DEF Reads
<1> HIDE DEF x
<1>3. Careful(x)'
  BY <1>1, CarefulStays
<1> QED BY <1>1, <1>2, <1>3, OneGoesOn

\* The tables that a reading leaves as they are.
tables == <<product, listing, history, confirmations, entry, merge>>

LEMMA SameTables ==
  ASSUME CInv, UNCHANGED tables
  PROVE  Kept /\ Tables'
BY DEF CInv, Kept, Tables, Apart, Told, tables

\* What reads neither entries, products nor listings to write them.
LEMMA PlainRead ==
  ASSUME NEW kind \in Changed \cup {"list", "stock", "status", "merge"}, NEW obj
  PROVE  CarefulRead(kind, obj)
BY DEF CarefulRead, Changed

LEMMA ConfirmedRows ==
  ASSUME Tables
  PROVE  \A n \in DOMAIN confirmations : confirmations[n] \in ConfirmRows /\ confirmations[n].listing \in ListingIds
<1>1. confirmations \in Seq(ConfirmRows)
  BY DEF Tables
<1>2. \A c \in ConfirmRows : c.listing \in ListingIds
  BY DEF ConfirmRows
<1> QED BY <1>1, <1>2

\* Listings stay, so what is told of them does.
LEMMA StillTold ==
  ASSUME IInv, Tables, UNCHANGED <<history, confirmations, entry, product, merge>>,
         \A i \in ListingIds : listing[i] # Null => listing'[i] # Null
  PROVE  Kept /\ Tables'
<1>1. Told(confirmations)'
  BY ConfirmedRows DEF Tables, Told
<1>2. Told(history)'
  <2>1. \A n \in DOMAIN history : history[n].listing \in ListingIds
    BY HistoryTyped DEF IInv, Books, HistoryRows
  <2> QED BY <2>1 DEF Tables, Told
<1> QED BY <1>1, <1>2 DEF Tables, Kept, Apart

\* What an edit may write: one row of the listings, and one entry about it if its
\* price changes, for which the community is paid.
EditWrites(id, kind, changes) ==
    /\ id \in ListingIds /\ kind \in Changed /\ listing[id] # Null
    /\ \E row \in Rows : listing' = [listing EXCEPT ![id] = row]
    /\ IF changes
       THEN /\ \E e \in HistoryRows : /\ e.listing = id /\ e.of = id /\ e.by = kind
                                      /\ history' = Append(history, e)
            /\ IF kind = "update" THEN Award("UPDATE_PRICE", id) ELSE UNCHANGED awards
       ELSE UNCHANGED <<history, awards>>

LEMMA Applied ==
  ASSUME IInv, NEW r \in Requests, ApplyEdit(r)
  PROVE  /\ UNCHANGED <<product, initial, confirmations>>
         /\ \/ UNCHANGED <<listing, history, awards>>
            \/ \E id, kind, changes : EditWrites(id, kind, changes)
         /\ \E kind \in Changed : \/ \E answer : Answers(r, kind, answer)
                                  \/ \E obj : Reads(r, kind, obj)
<1>1. PICK kind \in Changed :
        /\ Holds(r, kind)
        /\ LET obj == req[r].obj
               edit == Head(obj.edits)
               seen == obj.seen[edit.id]
               wins == /\ kind = "batch" => seen.active
                       /\ Matches(listing[edit.id], edit)
           IN
             /\ IF wins
                THEN /\ listing' = [listing EXCEPT ![edit.id] = Edited(@, edit)]
                     /\ history' = IF edit.price = Null THEN history
                          ELSE Append(history, [listing |-> edit.id, of |-> edit.id, by |-> kind,
                                                previous |-> seen.price, new |-> edit.price])
                     /\ IF Earns(kind) /\ edit.price # Null THEN Award("UPDATE_PRICE", edit.id)
                        ELSE UNCHANGED awards
                ELSE UNCHANGED <<listing, history, awards>>
             /\ IF Len(obj.edits) = 1
                THEN Answers(r, kind, IF wins THEN "ok" ELSE "conflict")
                ELSE Reads(r, kind, [edits |-> Tail(obj.edits),
                                     seen |-> IF wins THEN [obj.seen EXCEPT ![edit.id] = listing'[edit.id]]
                                              ELSE obj.seen])
        /\ UNCHANGED <<product, initial, confirmations>>
  BY Zenon DEF ApplyEdit, Changed
<1> DEFINE obj == req[r].obj
           edits == obj.edits
           edit == Head(edits)
           seen == obj.seen[edit.id]
           wins == /\ kind = "batch" => seen.active
                   /\ Matches(listing[edit.id], edit)
<1>2. /\ edits \in Seq(EditRows) /\ edits # <<>> /\ DOMAIN obj.seen = ListingIds
      /\ \A n \in 1 .. Len(edits) : EditOK(edits[n], obj.seen)
  BY <1>1 DEF IInv, Sound, SoundEdits, Holds
<1>3. edit \in EditRows /\ EditOK(edit, obj.seen)
  <2> HIDE DEF EditRows
  <2>1. edit = edits[1] /\ 1 \in 1 .. Len(edits)
    BY <1>2
  <2> QED BY <1>2, <2>1
<1>4. edit.id \in ListingIds /\ edit.price \in Prices \cup {Null} /\ edit.version \in Nat
  BY Zenon, <1>3 DEF EditRows
<1>5. \/ \E answer : Answers(r, kind, answer)
      \/ \E to : Reads(r, kind, to)
  BY Zenon, <1>1
<1>6. IF wins
      THEN /\ listing' = [listing EXCEPT ![edit.id] = Edited(@, edit)]
           /\ history' = IF edit.price = Null THEN history
                ELSE Append(history, [listing |-> edit.id, of |-> edit.id, by |-> kind,
                                      previous |-> seen.price, new |-> edit.price])
           /\ IF Earns(kind) /\ edit.price # Null THEN Award("UPDATE_PRICE", edit.id)
              ELSE UNCHANGED awards
      ELSE UNCHANGED <<listing, history, awards>>
  BY <1>1
<1> HIDE DEF wins, seen, edit, edits, obj
<1>7. CASE wins
  <2>1. listing[edit.id] # Null /\ listing[edit.id].version = edit.version
    BY <1>7 DEF wins, Matches
  <2>2. listing[edit.id] \in Rows
    BY <1>4, <2>1 DEF IInv, Books, Typed
  <2>3. seen.price = listing[edit.id].price
    BY <1>3, <1>4, <2>1, <2>2 DEF EditOK, seen, Rows
  <2>4. PICK row : row = Edited(listing[edit.id], edit)
    OBVIOUS
  <2>5. row \in Rows /\ listing[edit.id].price \in Prices
    BY <1>3, <2>2, <2>4, EditedRow
  <2>6. listing' = [listing EXCEPT ![edit.id] = row]
    BY Zenon, <1>6, <1>7, <2>4
  <2>7. CASE edit.price = Null
    <3>1. EditWrites(edit.id, kind, FALSE)
      BY <1>4, <1>6, <1>7, <2>1, <2>5, <2>6, <2>7 DEF EditWrites
    <3> QED BY <1>1, <1>5, <3>1
  <2>8. CASE edit.price # Null
    <3> DEFINE e == [listing |-> edit.id, of |-> edit.id, by |-> kind,
                     previous |-> seen.price, new |-> edit.price]
    <3>1. e \in HistoryRows
      BY <1>4, <2>3, <2>5, <2>8 DEF HistoryRows, Changed
    <3>2. e.listing = edit.id /\ e.of = edit.id /\ e.by = kind
      OBVIOUS
    <3>3. history' = Append(history, e)
      BY <1>6, <1>7, <2>8
    <3>4. IF kind = "update" THEN Award("UPDATE_PRICE", edit.id) ELSE UNCHANGED awards
      BY <1>6, <1>7, <2>8 DEF Earns
    <3> HIDE DEF e
    <3>5. EditWrites(edit.id, kind, TRUE)
      BY <1>4, <2>1, <2>5, <2>6, <3>1, <3>2, <3>3, <3>4 DEF EditWrites
    <3> QED BY <1>1, <1>5, <3>5
  <2> QED BY <2>7, <2>8
<1>8. CASE ~wins
  BY <1>1, <1>5, <1>6, <1>8
<1> QED BY Zenon, <1>7, <1>8

LEMMA EditsGo ==
  ASSUME IInv, CInv, NEW r \in Requests, ApplyEdit(r), UNCHANGED catalogVars
  PROVE  CInv'
<1>1. UNCHANGED <<product, confirmations, entry, merge>>
  BY Applied DEF catalogVars
<1>2. Kept /\ Tables'
  <2>1. CASE UNCHANGED <<listing, history>>
    BY <1>1, <2>1, SameTables DEF tables
  <2>2. ASSUME NEW id, NEW kind, NEW changes, EditWrites(id, kind, changes)
        PROVE  Kept /\ Tables'
    <3>1. PICK row \in Rows : listing' = [listing EXCEPT ![id] = row]
      BY <2>2 DEF EditWrites
    <3>2. \A i \in ListingIds : listing[i] # Null => listing'[i] # Null
      BY <3>1 DEF IInv, Books, Typed
    <3>3. CASE history' = history
      BY <1>1, <3>2, <3>3, StillTold DEF CInv
    <3>4. CASE history' # history
      <4>1. PICK e \in HistoryRows : e.listing = id /\ history' = Append(history, e)
        BY <2>2, <3>4 DEF EditWrites
      <4>2. listing'[id] # Null /\ id \in ListingIds
        BY <2>2, <3>2 DEF EditWrites
      <4>3. Told(history)'
        <5>1. ASSUME NEW n \in DOMAIN history' PROVE listing'[history'[n].listing] # Null
          <6>1. CASE n \in DOMAIN history
            <7>1. history[n].listing \in ListingIds /\ history'[n] = history[n]
              BY <4>1, <6>1, Appended, HistoryTyped DEF IInv, Books, HistoryRows
            <7>2. listing[history[n].listing] # Null
              BY <6>1 DEF CInv, Tables, Told
            <7> QED BY <3>2, <7>1, <7>2
          <6>2. CASE n \notin DOMAIN history
            <7>1. history'[n] = e
              BY <4>1, <6>2, Appended DEF IInv, Books
            <7> QED BY <4>1, <4>2, <7>1
          <6> QED BY <6>1, <6>2
        <5> QED BY <5>1 DEF Told
      <4>4. Told(confirmations)'
        <5>1. \A n \in DOMAIN confirmations : confirmations[n].listing \in ListingIds
          BY ConfirmedRows DEF CInv
        <5> QED BY <1>1, <3>2, <5>1 DEF CInv, Tables, Told
      <4> QED BY <1>1, <4>3, <4>4 DEF CInv, Tables, Kept, Apart
    <3> QED BY <3>3, <3>4
  <2> QED BY <2>1, <2>2, Applied
<1>3. PICK kind \in Changed : (\E answer : Answers(r, kind, answer)) \/ (\E obj : Reads(r, kind, obj))
  BY Applied
<1> QED BY <1>2, <1>3, AnswerGoes, ReadGoes, PlainRead

\* A listing is inserted where none has been.
LEMMA InsertedApart ==
  ASSUME IInv, NEW p, NEW price, InsertListing(p, price)
  PROVE  \A i \in ListingIds : listing[i] # Null => listing'[i] # Null
<1>1. PICK j \in ListingIds : initial[j] = Null /\ listing' = [listing EXCEPT ![j] = NewRow(p, price)]
  BY DEF InsertListing, NextListing
<1>2. listing[j] = Null
  BY <1>1 DEF IInv, Books, Written
<1> QED BY <1>1, <1>2 DEF IInv, Books, Typed

LEMMA PricingGoes ==
  ASSUME IInv, CInv, NEW r \in Requests, PricingNext(r), UNCHANGED catalogVars
  PROVE  CInv'
<1>1. UNCHANGED <<entry, merge>>
  BY DEF catalogVars
<1>2. CASE ReadEdits(r)
  <2>1. UNCHANGED tables
    BY <1>1, <1>2 DEF ReadEdits, pricingTables, tables
  <2>2. PICK kind \in Changed : \E obj : Reads(r, kind, obj)
    BY <1>2 DEF ReadEdits, Changed
  <2> QED BY <2>1, <2>2, SameTables, PlainRead, ReadGoes
<1>3. CASE ReadToConfirm(r)
  <2>1. UNCHANGED tables
    BY <1>1, <1>3 DEF ReadToConfirm, pricingTables, tables
  <2>2. PICK i \in Listed : Reads(r, "confirm", [id |-> i, price |-> listing[i].price])
    BY <1>3 DEF ReadToConfirm
  <2>3. i \in ListingIds /\ listing[i].price \in Prices
    BY DEF Listed, IInv, Books, Typed, Rows
  <2>4. CarefulRead("confirm", [id |-> i, price |-> listing[i].price])
    BY <2>3 DEF CarefulRead
  <2> QED BY <2>1, <2>2, <2>4, SameTables, ReadGoes
<1>4. CASE Confirm(r)
  <2> DEFINE obj == req[r].obj
  <2>1. /\ UNCHANGED <<product, listing, history>>
        /\ \E answer : Answers(r, "confirm", answer)
        /\ \/ UNCHANGED confirmations
           \/ /\ listing[obj.id] # Null
              /\ confirmations' = Append(confirmations, [listing |-> obj.id, of |-> obj.id, price |-> obj.price])
    BY <1>4 DEF Confirm
  <2>2. CASE UNCHANGED confirmations
    BY <1>1, <2>1, <2>2, SameTables, AnswerGoes DEF tables
  <2>3. CASE ~UNCHANGED confirmations
    <3>1. obj.id \in ListingIds /\ obj.price \in Prices
      BY <1>4 DEF Confirm, Holds, CInv, Careful, CarefulRead
    <3>2. PICK c \in ConfirmRows : c = [listing |-> obj.id, of |-> obj.id, price |-> obj.price]
      BY <3>1 DEF ConfirmRows
    <3>3. confirmations \in Seq(ConfirmRows) /\ confirmations' = Append(confirmations, c)
      BY <2>1, <2>3, <3>2 DEF CInv, Tables
    <3>4. /\ confirmations' \in Seq(ConfirmRows)
          /\ \A n \in DOMAIN confirmations' :
               IF n \in DOMAIN confirmations THEN confirmations'[n] = confirmations[n]
               ELSE confirmations'[n] = c
      <4> HIDE DEF ConfirmRows
      <4> QED BY <3>3
    <3>5. Told(confirmations)'
      BY <2>1, <2>3, <3>2, <3>4 DEF CInv, Tables, Told
    <3>6. Kept /\ Tables'
      BY <1>1, <2>1, <3>4, <3>5 DEF CInv, Tables, Kept, Apart, Told
    <3> QED BY <2>1, <3>6, AnswerGoes
  <2> QED BY <2>2, <2>3
<1>5. CASE ReadListing(r)
  <2>1. Kept /\ Tables'
    BY <1>1, <1>5, SameTables DEF ReadListing, pricingTables, tables
  <2> QED BY <1>5, <2>1, ListingsRead, AnswerGoes, ReadGoes, PlainRead
<1>6. CASE CreateListing(r)
  <2>1. /\ UNCHANGED <<product, history, confirmations>>
        /\ \E kind, answer : Answers(r, kind, answer)
        /\ UNCHANGED listing \/ \E p, price : InsertListing(p, price)
    BY <1>6 DEF CreateListing
  <2>2. \A i \in ListingIds : listing[i] # Null => listing'[i] # Null
    BY <2>1, InsertedApart
  <2>3. Kept /\ Tables'
    BY <1>1, <2>1, <2>2, StillTold DEF CInv
  <2> QED BY <2>1, <2>3, AnswerGoes
<1>7. CASE SetStatus(r)
  <2>1. /\ UNCHANGED <<product, history, confirmations>>
        /\ \E kind, answer : Answers(r, kind, answer)
        /\ UNCHANGED listing \/ (listing[req[r].obj.id] # Null /\
             listing' = [listing EXCEPT ![req[r].obj.id].active = req[r].obj.active])
    BY <1>7 DEF SetStatus
  <2>2. req[r].obj.id \in ListingIds /\ req[r].obj.active \in BOOLEAN
    BY <1>7 DEF SetStatus, Holds, IInv, Sound, SoundStatus
  <2>3. \A i \in ListingIds : listing[i] # Null => listing'[i] # Null
    <3>1. CASE UNCHANGED listing
      BY <3>1
    <3>2. CASE ~UNCHANGED listing
      <4>1. PICK row \in Rows : row = listing[req[r].obj.id]
        BY <2>1, <2>2, <3>2 DEF IInv, Books, Typed
      <4>2. PICK new \in Rows : new = [row EXCEPT !.active = req[r].obj.active]
        BY <2>2 DEF Rows
      <4>3. listing' = [listing EXCEPT ![req[r].obj.id] = new]
        BY <2>1, <3>2, <4>1, <4>2
      <4> QED BY <2>2, <4>3 DEF IInv, Books, Typed
    <3> QED BY <3>1, <3>2
  <2>4. Kept /\ Tables'
    BY <1>1, <2>1, <2>3, StillTold DEF CInv
  <2> QED BY <2>1, <2>4, AnswerGoes
<1> QED BY <1>2, <1>3, <1>4, <1>5, <1>6, <1>7, EditsGo DEF PricingNext

\* One row of the entries is written.
LEMMA EntryWritten ==
  ASSUME CInv, UNCHANGED <<product, listing, history, confirmations, merge>>,
         NEW i, NEW row \in Entries \cup {Gone}, entry' = [entry EXCEPT ![i] = row]
  PROVE  Kept /\ Tables'
<1>1. entry \in [EntryIds -> Entries \cup {Null, Gone}] /\ row # Null
  BY DEF CInv, Tables
<1>2. entry' \in [EntryIds -> Entries \cup {Null, Gone}] /\ \A j \in EntryIds : entry[j] # Null => entry'[j] # Null
  <2> HIDE DEF Entries
  <2> QED BY <1>1
<1> QED BY <1>2 DEF CInv, Tables, Kept, Apart, Told

LEMMA EntryFields ==
  ASSUME NEW row \in Entries
  PROVE  /\ \A s \in Verdicts : [row EXCEPT !.status = s] \in Entries
         /\ \A p \in Products : [row EXCEPT !.product = p] \in Entries
         /\ row.product \in Products /\ row.key \in Keys /\ row.status \in Verdicts \cup {"PENDING"}
BY DEF Entries

LEMMA AttachesGo ==
  ASSUME IInv, CInv, NEW r \in Requests, ReadToAttach(r) \/ Attach(r)
  PROVE  CInv'
<1>1. CASE ReadToAttach(r)
  <2>1. Kept /\ Tables'
    BY <1>1, SameTables DEF ReadToAttach, pricingTables, catalogVars, tables
  <2>2. PICK p \in Products, key \in Keys :
          \/ \E answer : Answers(r, "attach", answer)
          \/ Reads(r, "attach", Attached(p, key))
    BY <1>1 DEF ReadToAttach
  <2>3. CarefulRead("attach", Attached(p, key))
    <3>1. Attached(p, key) \in Entries
      BY DEF Attached, Entries
    <3> QED BY <3>1 DEF CarefulRead
  <2> QED BY <2>1, <2>2, <2>3, AnswerGoes, ReadGoes
<1>2. CASE Attach(r)
  <2>1. /\ UNCHANGED <<product, listing, history, confirmations, merge>>
        /\ \E answer : Answers(r, "attach", answer)
        /\ UNCHANGED entry \/ Insert(req[r].obj)
    BY <1>2 DEF Attach, pricingTables
  <2>2. req[r].obj \in Entries
    BY <1>2 DEF Attach, Holds, CInv, Careful, CarefulRead
  <2>3. Kept /\ Tables'
    <3>1. CASE UNCHANGED entry
      BY <2>1, <3>1, SameTables DEF tables
    <3>2. CASE Insert(req[r].obj)
      BY <2>1, <2>2, <3>2, EntryWritten DEF Insert
    <3> QED BY <2>1, <3>1, <3>2
  <2> QED BY <2>1, <2>3, AnswerGoes
<1> QED BY <1>1, <1>2

LEMMA EntriesGo ==
  ASSUME IInv, CInv, NEW r \in Requests, ReadEntry(r) \/ Report(r) \/ Move(r) \/ ReviewEntry(r)
  PROVE  CInv'
<1>1. CASE ReadEntry(r)
  <2>1. Kept /\ Tables'
    BY <1>1, SameTables DEF ReadEntry, pricingTables, catalogVars, tables
  <2>2. \/ \E i \in Filled : Reads(r, "report", [id |-> i])
        \/ \E i \in Filled, p \in Products, redundant \in BOOLEAN :
             Reads(r, "move", [id |-> i, product |-> p, redundant |-> redundant])
    BY <1>1 DEF ReadEntry
  <2>3. \A i \in Filled : i \in EntryIds /\ entry[i] # Null
    BY DEF Filled
  <2>4. ASSUME NEW i \in Filled, Reads(r, "report", [id |-> i]) PROVE CInv'
    <3>1. CarefulRead("report", [id |-> i])
      BY <2>3 DEF CarefulRead
    <3> QED BY <2>1, <2>4, <3>1, ReadGoes
  <2>5. ASSUME NEW i \in Filled, NEW p \in Products, NEW redundant \in BOOLEAN,
               Reads(r, "move", [id |-> i, product |-> p, redundant |-> redundant])
        PROVE  CInv'
    <3>1. CarefulRead("move", [id |-> i, product |-> p, redundant |-> redundant])
      BY <2>3 DEF CarefulRead
    <3> QED BY <2>1, <2>5, <3>1, ReadGoes
  <2> QED BY <2>2, <2>4, <2>5
<1>2. CASE Report(r) \/ Move(r) \/ ReviewEntry(r)
  <2> DEFINE obj == req[r].obj
             i == obj.id
  <2>1. /\ UNCHANGED <<product, listing, history, confirmations, merge>>
        /\ \E kind, answer : Answers(r, kind, answer)
    BY Zenon, <1>2 DEF Report, Move, ReviewEntry, pricingTables
  <2>2. i \in EntryIds /\ entry[i] # Null
    BY <1>2 DEF Report, Move, ReviewEntry, Holds, CInv, Careful, CarefulRead
  <2>3. \/ UNCHANGED entry
        \/ entry' = [entry EXCEPT ![i] = Gone]
        \/ entry[i] # Gone /\ \E s \in Verdicts : entry' = [entry EXCEPT ![i].status = s]
        \/ entry[i] # Gone /\ \E p \in Products : entry' = [entry EXCEPT ![i].product = p]
    <3>1. CASE Report(r)
      BY Zenon, <3>1 DEF Report, Verdicts
    <3>2. CASE Move(r)
      <4>1. obj.product \in Products
        BY <3>2 DEF Move, Holds, CInv, Careful, CarefulRead
      <4> QED BY Zenon, <3>2, <4>1 DEF Move
    <3>3. CASE ReviewEntry(r)
      <4>1. obj.verdict \in Verdicts
        BY Zenon, <3>3 DEF ReviewEntry, Holds, CInv, Careful, CarefulRead
      <4> QED BY Zenon, <3>3, <4>1 DEF ReviewEntry
    <3> QED BY <1>2, <3>1, <3>2, <3>3
  <2>4. Kept /\ Tables'
    <3>1. CASE UNCHANGED entry
      BY <2>1, <3>1, SameTables DEF tables
    <3>2. CASE entry' = [entry EXCEPT ![i] = Gone]
      BY <2>1, <3>2, EntryWritten
    <3>3. CASE entry[i] # Gone /\ \E s \in Verdicts : entry' = [entry EXCEPT ![i].status = s]
      <4>1. PICK row \in Entries : row = entry[i]
        BY <2>2, <3>3 DEF CInv, Tables
      <4>2. PICK s \in Verdicts : entry' = [entry EXCEPT ![i] = [row EXCEPT !.status = s]]
        BY <3>3, <4>1
      <4> QED BY <2>1, <4>1, <4>2, EntryFields, EntryWritten
    <3>4. CASE entry[i] # Gone /\ \E p \in Products : entry' = [entry EXCEPT ![i].product = p]
      <4>1. PICK row \in Entries : row = entry[i]
        BY <2>2, <3>4 DEF CInv, Tables
      <4>2. PICK p \in Products : entry' = [entry EXCEPT ![i] = [row EXCEPT !.product = p]]
        BY <3>4, <4>1
      <4> QED BY <2>1, <4>1, <4>2, EntryFields, EntryWritten
    <3> QED BY <2>3, <3>1, <3>2, <3>3, <3>4
  <2> QED BY Zenon, <2>1, <2>4, AnswerGoes
<1> QED BY <1>1, <1>2

\* A merge decided is of the products it was proposed for.
LEMMA Decided ==
  ASSUME IInv, Apart, NEW id \in MergeIds, merge[id] # Null, NEW s,
         merge' = [merge EXCEPT ![id].status = s]
  PROVE  Apart'
<1>1. PICK row \in Merges : row = merge[id]
  BY DEF IInv, Domains
<1>2. PICK new : new = [row EXCEPT !.status = s]
  OBVIOUS
<1>3. new.source = row.source /\ new.target = row.target
  BY <1>2 DEF Merges
<1>4. merge' = [merge EXCEPT ![id] = new]
  BY <1>1, <1>2
<1> QED BY <1>1, <1>3, <1>4 DEF Apart, IInv, Domains

LEMMA CreationsGo ==
  ASSUME IInv, CInv, NEW r \in Requests, CreateProduct(r)
  PROVE  CInv'
<1>1. UNCHANGED <<history, confirmations, merge>> /\ \E answer : Answers(r, "create", answer)
  BY DEF CreateProduct
<1>2. PICK p \in Products, key \in Keys, price \in Prices \cup {Null} :
        \/ UNCHANGED <<product, listing, entry>>
        \/ /\ \E s \in {"APPROVED", "PENDING"} : product' = [product EXCEPT ![p] = s]
           /\ Insert(Attached(p, key))
           /\ UNCHANGED listing \/ InsertListing(p, price)
  BY DEF CreateProduct
<1>3. CASE UNCHANGED <<product, listing, entry>>
  BY <1>1, <1>3, SameTables, AnswerGoes DEF tables
<1>4. CASE ~UNCHANGED <<product, listing, entry>>
  <2>1. Attached(p, key) \in Entries
    BY DEF Attached, Entries
  <2>2. /\ entry' \in [EntryIds -> Entries \cup {Null, Gone}]
        /\ \A i \in EntryIds : entry[i] # Null => entry'[i] # Null
    <3>1. PICK row \in Entries : row = Attached(p, key)
      BY <2>1
    <3>2. PICK i \in EntryIds : entry' = [entry EXCEPT ![i] = row]
      BY <1>2, <1>4, <3>1 DEF Insert, Unused
    <3> HIDE DEF Entries
    <3> QED BY <3>2 DEF CInv, Tables
  <2>3. /\ product' \in [Products -> ProductStatuses]
        /\ \A q \in Products : product[q] # "none" => product'[q] # "none"
    BY <1>2, <1>4 DEF CInv, Tables, ProductStatuses
  <2>4. \A i \in ListingIds : listing[i] # Null => listing'[i] # Null
    BY <1>2, <1>4, InsertedApart
  <2>5. Told(history)'
    <3>1. \A n \in DOMAIN history : history[n].listing \in ListingIds
      BY HistoryTyped DEF IInv, Books, HistoryRows
    <3> QED BY <1>1, <2>4, <3>1 DEF CInv, Tables, Told
  <2>6. Told(confirmations)'
    BY <1>1, <2>4, ConfirmedRows DEF CInv, Tables, Told
  <2>7. Kept /\ Tables'
    BY <1>1, <2>2, <2>3, <2>5, <2>6 DEF CInv, Tables, Kept, Apart
  <2> QED BY <1>1, <2>7, AnswerGoes
<1> QED BY <1>3, <1>4

LEMMA ReviewsGo ==
  ASSUME IInv, CInv, NEW r \in Requests, ReadReview(r) \/ ReviewProduct(r) \/ RejectMerge(r)
  PROVE  CInv'
<1>1. CASE ReadReview(r)
  <2>1. Kept /\ Tables'
    BY <1>1, SameTables DEF ReadReview, pricingTables, catalogVars, tables
  <2>2. PICK kind \in {"product", "entry", "merge"} : \E id \in Table(kind), verdict \in Verdicts :
          IF Reviewable(StatusOf(kind, id))
          THEN Reads(r, kind, [id |-> id, verdict |-> verdict, was |-> StatusOf(kind, id)])
          ELSE Answers(r, kind, "conflict")
    BY <1>1 DEF ReadReview
  <2>3. PICK id \in Table(kind), verdict \in Verdicts :
          \/ Reads(r, kind, [id |-> id, verdict |-> verdict, was |-> StatusOf(kind, id)])
          \/ Answers(r, kind, "conflict")
    BY <2>2
  <2>4. PICK was : was = StatusOf(kind, id)
    OBVIOUS
  <2>5. /\ kind = "product" => id \in Products /\ product[id] # "none"
        /\ kind = "entry" => id \in EntryIds /\ entry[id] # Null
    BY <2>3 DEF Table, Exists, Filled
  <2>6. CarefulRead(kind, [id |-> id, verdict |-> verdict, was |-> was])
    <3>1. PICK obj : obj = [id |-> id, verdict |-> verdict, was |-> was]
      OBVIOUS
    <3>2. obj.id = id /\ obj.verdict = verdict
      BY <3>1
    <3>3. CarefulRead(kind, obj)
      BY <2>3, <2>5, <3>2 DEF CarefulRead
    <3> QED BY <3>1, <3>3
  <2> QED BY <2>1, <2>3, <2>4, <2>6, AnswerGoes, ReadGoes
<1>2. CASE ReviewProduct(r)
  <2> DEFINE obj == req[r].obj
  <2>1. /\ UNCHANGED <<listing, history, confirmations, entry, merge>>
        /\ Answers(r, "product", "ok") /\ product' = [product EXCEPT ![obj.id] = obj.verdict]
    BY <1>2 DEF ReviewProduct, pricingTables
  <2>2. obj.id \in Products /\ obj.verdict \in Verdicts
    BY <1>2 DEF ReviewProduct, Holds, CInv, Careful, CarefulRead
  <2>3. /\ product' \in [Products -> ProductStatuses]
        /\ \A q \in Products : product[q] # "none" => product'[q] # "none"
    BY <2>1, <2>2 DEF CInv, Tables, ProductStatuses, Verdicts
  <2>4. Kept /\ Tables'
    BY <2>1, <2>3 DEF CInv, Tables, Kept, Apart, Told
  <2> QED BY <2>1, <2>4, AnswerGoes
<1>3. CASE RejectMerge(r)
  <2> DEFINE id == req[r].obj.id
  <2>1. /\ UNCHANGED <<product, listing, history, confirmations, entry>>
        /\ Answers(r, "merge", "ok") /\ merge' = [merge EXCEPT ![id].status = "REJECTED"]
    BY <1>3 DEF RejectMerge, pricingTables
  <2>2. id \in MergeIds /\ merge[id] # Null
    BY <1>3 DEF RejectMerge, Holds, IInv, Sound, SoundReview
  <2>3. Apart'
    BY <2>1, <2>2, Decided DEF CInv, Tables
  <2>4. Kept /\ Tables'
    BY <2>1, <2>3 DEF CInv, Tables, Kept, Told
  <2> QED BY <2>1, <2>4, AnswerGoes
<1> QED BY <1>1, <1>2, <1>3

LEMMA ProposalsGo ==
  ASSUME IInv, CInv, NEW r \in Requests, ReadToPropose(r) \/ Propose(r)
  PROVE  CInv'
<1>1. CASE ReadToPropose(r)
  <2>1. Kept /\ Tables'
    BY <1>1, SameTables DEF ReadToPropose, pricingTables, catalogVars, tables
  <2>2. PICK p \in Products, q \in Products :
          /\ p # q
          /\ \/ Answers(r, "propose", "conflict")
             \/ Reads(r, "propose", [source |-> p, target |-> q, status |-> "PENDING"])
    BY <1>1 DEF ReadToPropose
  <2>3. CarefulRead("propose", [source |-> p, target |-> q, status |-> "PENDING"])
    BY <2>2 DEF CarefulRead
  <2> QED BY <2>1, <2>2, <2>3, AnswerGoes, ReadGoes
<1>2. CASE Propose(r)
  <2>1. req[r].obj \in Merges /\ req[r].obj.source # req[r].obj.target
    BY <1>2 DEF Propose, Holds, IInv, Sound, SoundReview, CInv, Careful, CarefulRead
  <2>2. PICK m \in MergeIds : merge' = [merge EXCEPT ![m] = req[r].obj]
    BY <1>2 DEF Propose
  <2>3. UNCHANGED <<product, listing, history, confirmations, entry>> /\ Answers(r, "propose", "ok")
    BY <1>2 DEF Propose, pricingTables
  <2>4. Apart'
    BY <2>1, <2>2 DEF CInv, Tables, Apart, IInv, Domains
  <2>5. Kept /\ Tables'
    BY <2>3, <2>4 DEF CInv, Tables, Kept, Told
  <2> QED BY <2>3, <2>5, AnswerGoes
<1> QED BY <1>1, <1>2

LEMMA GatheringsGo ==
  ASSUME IInv, CInv, NEW r \in Requests, GatherMerge(r)
  PROVE  CInv'
<1> DEFINE obj == req[r].obj
           source == merge[obj.id].source
           target == merge[obj.id].target
<1>1. Kept /\ Tables'
  BY SameTables DEF GatherMerge, pricingTables, catalogVars, tables
<1>2. obj.id \in MergeIds /\ merge[obj.id] # Null
  BY DEF GatherMerge, Holds, IInv, Sound, SoundReview
<1>3. target \in Products /\ source # target
  BY <1>2 DEF IInv, Domains, Merges, CInv, Tables, Apart
<1>4. CASE Answers(r, "merge", "error")
  BY <1>1, <1>4, AnswerGoes
<1>5. CASE ~Answers(r, "merge", "error")
  <2> DEFINE got == [id |-> obj.id, was |-> obj.was, source |-> source, target |-> target,
                     merged |-> product[source] = "MERGED",
                     moved |-> EntriesOf(source) \ Redundant(source, target),
                     dropped |-> Redundant(source, target),
                     from |-> ListingOf(source), to |-> ListingOf(target),
                     shown |-> [i \in ListingOf(source) |-> listing[i].price]]
             x == [pc |-> "gathered", kind |-> "merge", obj |-> got]
  <2>1. req' = [req EXCEPT ![r] = x]
    BY Zenon, <1>5 DEF GatherMerge
  <2>2. /\ x.pc = "gathered" /\ x.obj.source = source /\ x.obj.target = target
        /\ x.obj.moved = EntriesOf(source) \ Redundant(source, target)
        /\ x.obj.dropped = Redundant(source, target)
        /\ x.obj.from = ListingOf(source) /\ x.obj.to = ListingOf(target)
    OBVIOUS
  <2> HIDE DEF x, source, target, obj
  <2>3. x.obj.moved \subseteq EntryIds /\ \A i \in x.obj.moved : entry[i] # Null
    BY <2>2 DEF EntriesOf, Filled
  <2>4. x.obj.from \cap x.obj.to = {} /\ x.obj.moved \cap x.obj.dropped = {}
    BY <1>3, <2>2 DEF ListingOf
  <2>5. PICK y : y = x
    OBVIOUS
  <2>6. Careful(y) /\ Known(y)
    BY <1>3, <2>2, <2>3, <2>4, <2>5 DEF Careful, CarefulMerge, Known
  <2>7. Careful(y)'
    BY <1>1, <2>6, CarefulStays
  <2> QED BY <1>1, <2>1, <2>5, <2>6, <2>7, OneGoesOn
<1> QED BY <1>4, <1>5

LEMMA ReassignedConfirmations ==
  ASSUME Tables, NEW i \in ListingIds, NEW j \in ListingIds,
         confirmations' = Reassigned(confirmations, i, j)
  PROVE  /\ confirmations' \in Seq(ConfirmRows) /\ DOMAIN confirmations' = DOMAIN confirmations
         /\ \A n \in DOMAIN confirmations :
              /\ confirmations'[n].listing = IF confirmations[n].listing = i THEN j
                                             ELSE confirmations[n].listing
              /\ confirmations'[n].of = confirmations[n].of
<1>1. ASSUME NEW c \in ConfirmRows
      PROVE  LET moved == [c EXCEPT !.listing = j] IN
               moved \in ConfirmRows /\ moved.listing = j /\ moved.of = c.of
  BY DEF ConfirmRows
<1>2. confirmations \in Seq(ConfirmRows) /\ \A n \in DOMAIN confirmations : confirmations[n] \in ConfirmRows
  BY ConfirmedRows DEF Tables
<1>3. /\ DOMAIN confirmations' = DOMAIN confirmations
      /\ \A n \in DOMAIN confirmations :
           confirmations'[n] = IF confirmations[n].listing = i
                               THEN [confirmations[n] EXCEPT !.listing = j] ELSE confirmations[n]
  BY DEF Reassigned
<1>4. ASSUME NEW n \in DOMAIN confirmations
      PROVE  /\ confirmations'[n] \in ConfirmRows
             /\ confirmations'[n].listing = IF confirmations[n].listing = i THEN j
                                            ELSE confirmations[n].listing
             /\ confirmations'[n].of = confirmations[n].of
  <2>1. PICK c \in ConfirmRows : c = confirmations[n]
    BY <1>2
  <2>2. confirmations'[n] = IF c.listing = i THEN [c EXCEPT !.listing = j] ELSE c
    BY <1>3, <2>1
  <2>3. CASE c.listing = i
    BY <1>1, <2>1, <2>2, <2>3
  <2>4. CASE c.listing # i
    BY <2>1, <2>2, <2>4
  <2> QED BY <2>3, <2>4
<1>5. Len(confirmations) \in Nat /\ DOMAIN confirmations = 1 .. Len(confirmations)
  <2> HIDE DEF ConfirmRows
  <2> QED BY <1>2
<1>6. confirmations' \in Seq(ConfirmRows)
  <2>1. confirmations' = [n \in 1 .. Len(confirmations) |-> confirmations'[n]]
    BY <1>5 DEF Reassigned
  <2> HIDE DEF ConfirmRows
  <2> QED BY <1>3, <1>4, <1>5, <2>1
<1> QED BY <1>3, <1>4, <1>6

\* What a merge moves to the kept listing is told of one that is there, and of
\* whom it was written for nothing changes.
LEMMA MergerTold ==
  ASSUME IInv, Tables, NEW i \in ListingIds, NEW j \in ListingIds, NEW price \in Prices,
         i # j, listing[j] # Null, MergeListing(i, j, price)
  PROVE  /\ Told(history)' /\ Told(confirmations)' /\ confirmations' \in Seq(ConfirmRows)
         /\ \A k : Updates(k)' = Updates(k) /\ ConfirmationsOf(k)' = ConfirmationsOf(k)
<1>1. /\ \A k \in ListingIds : listing'[k] = IF k = i THEN Null ELSE listing[k]
      /\ listing'[j] # Null
  BY DEF MergeListing, IInv, Books, Typed
<1>2. Typed
  BY DEF IInv, Books
<1>3. /\ Told(confirmations)' /\ confirmations' \in Seq(ConfirmRows)
      /\ \A k : ConfirmationsOf(k)' = ConfirmationsOf(k)
  <2>1. /\ confirmations' \in Seq(ConfirmRows) /\ DOMAIN confirmations' = DOMAIN confirmations
        /\ \A n \in DOMAIN confirmations :
             /\ confirmations'[n].listing = IF confirmations[n].listing = i THEN j
                                            ELSE confirmations[n].listing
             /\ confirmations'[n].of = confirmations[n].of
    BY ReassignedConfirmations DEF MergeListing
  <2>2. \A n \in DOMAIN confirmations : /\ confirmations[n].listing \in ListingIds
                                        /\ listing[confirmations[n].listing] # Null
    BY ConfirmedRows DEF Tables, Told
  <2>3. Told(confirmations)'
    BY <1>1, <2>1, <2>2 DEF Told
  <2> QED BY <2>1, <2>3 DEF ConfirmationsOf
<1>4. \A n \in DOMAIN history : history[n].listing \in ListingIds /\ listing[history[n].listing] # Null
  <2>1. ASSUME NEW n \in DOMAIN history PROVE history[n].listing \in ListingIds
    <3>1. PICK e \in HistoryRows : e = history[n]
      BY <1>2, HistoryTyped
    <3>2. e.listing \in ListingIds
      BY DEF HistoryRows
    <3> QED BY <3>1, <3>2
  <2> QED BY <2>1 DEF Tables, Told
<1>5. CASE HasHistory(i)
  <2>1. /\ DOMAIN history' = DOMAIN history
        /\ \A n \in DOMAIN history :
             /\ history'[n].listing = IF history[n].listing = i THEN j ELSE history[n].listing
             /\ history'[n].of = history[n].of /\ history'[n].by = history[n].by
    BY <1>2, <1>5, ReassignedRows DEF MergeListing
  <2>2. Told(history)'
    BY <1>1, <1>4, <2>1 DEF Told
  <2>3. \A k : Updates(k)' = Updates(k)
    BY <2>1 DEF Updates
  <2> QED BY <1>3, <2>2, <2>3
<1>6. CASE ~HasHistory(i)
  <2> DEFINE e == [listing |-> j, of |-> i, by |-> "merge", previous |-> Null, new |-> price]
             last == Len(history) + 1
  <2>1. e \in HistoryRows /\ e.by = "merge" /\ e.listing = j
    BY DEF HistoryRows
  <2>2. history' = Append(history, e)
    <3>1. history' = history \o <<e>>
      BY <1>6 DEF MergeListing, Snapshot
    <3>2. history \in Seq(HistoryRows)
      BY <1>2 DEF Typed
    <3> HIDE DEF e, HistoryRows
    <3> QED BY <2>1, <3>1, <3>2
  <2> HIDE DEF e
  <2>3. /\ last \notin DOMAIN history /\ DOMAIN history' = DOMAIN history \cup {last}
        /\ history'[last] = e /\ \A n \in DOMAIN history : history'[n] = history[n]
    BY <1>2, <2>1, <2>2, Appended
  <2> HIDE DEF last
  <2>4. Told(history)'
    <3>1. \A n \in DOMAIN history : history[n].listing # i
      BY <1>6 DEF HasHistory
    <3> QED BY <1>1, <1>4, <2>1, <2>3, <3>1 DEF Told
  <2>5. \A k : Updates(k)' = Updates(k)
    BY <2>1, <2>3 DEF Updates
  <2> QED BY <1>3, <2>4, <2>5
<1> QED BY <1>5, <1>6

LEMMA CommitsGo ==
  ASSUME IInv, CInv, NEW r \in Requests, CommitMerge(r)
  PROVE  CInv'
<1> DEFINE obj == req[r].obj
<1>1. /\ obj.target \in Products /\ obj.id \in MergeIds /\ merge[obj.id] # Null
      /\ obj.from \subseteq ListingIds /\ obj.to \subseteq ListingIds
      /\ \A i \in obj.from : obj.shown[i] \in Prices
  BY DEF CommitMerge, IInv, Sound, SoundMerge
<1>2. /\ obj.moved \subseteq EntryIds /\ \A i \in obj.moved : entry[i] # Null
      /\ obj.from \cap obj.to = {} /\ obj.moved \cap obj.dropped = {}
  BY DEF CommitMerge, CInv, Careful, CarefulMerge
<1>3. CASE MergeFails(obj)
  <2>1. Answers(r, "merge", "error") /\ UNCHANGED tables
    BY <1>3 DEF CommitMerge, pricingTables, catalogVars, tables
  <2> QED BY <2>1, SameTables, AnswerGoes
<1>4. CASE ~MergeFails(obj)
  <2>1. /\ entry' = [i \in EntryIds |-> CASE i \in obj.dropped -> Gone
                                          [] i \in obj.moved -> [entry[i] EXCEPT !.product = obj.target]
                                          [] OTHER -> entry[i]]
        /\ CASE obj.from = {} -> UNCHANGED pricingTables
             [] obj.from # {} /\ obj.to = {} ->
                  /\ listing' = [i \in ListingIds |-> IF i \in obj.from
                                    THEN [listing[i] EXCEPT !.product = obj.target] ELSE listing[i]]
                  /\ UNCHANGED <<initial, history, confirmations>>
             [] OTHER -> \E i \in obj.from, j \in obj.to : MergeListing(i, j, obj.shown[i])
        /\ product' = IF obj.merged THEN product ELSE [product EXCEPT ![obj.source] = "MERGED"]
        /\ merge' = [merge EXCEPT ![obj.id].status = "APPROVED"]
        /\ Answers(r, "merge", "ok")
    BY <1>4 DEF CommitMerge
  <2>2. /\ \A i \in obj.moved : entry[i] # Gone
        /\ obj.to = {} => \A i \in obj.from : listing[i] # Null
        /\ obj.from # {} => \A j \in obj.to : listing[j] # Null
    BY <1>4 DEF MergeFails
  <2> HIDE DEF obj
  <2>3. Apart'
    BY <1>1, <2>1, Decided DEF CInv, Tables
  <2>4. /\ product' \in [Products -> ProductStatuses]
        /\ \A p \in Products : product[p] # "none" => product'[p] # "none"
    BY <2>1 DEF CInv, Tables, ProductStatuses
  <2>5. /\ entry' \in [EntryIds -> Entries \cup {Null, Gone}]
        /\ \A i \in EntryIds : entry[i] # Null => entry'[i] # Null
    <3>1. ASSUME NEW i \in EntryIds
          PROVE  /\ entry'[i] \in Entries \cup {Null, Gone}
                 /\ entry[i] # Null => entry'[i] # Null
      <4>1. CASE i \in obj.dropped
        <5>1. entry'[i] = Gone
          BY <1>2, <2>1, <4>1
        <5> QED BY <5>1
      <4>2. CASE i \notin obj.dropped /\ i \in obj.moved
        <5>1. PICK row \in Entries : row = entry[i]
          BY <1>2, <2>2, <4>2 DEF CInv, Tables
        <5>2. entry'[i] = [row EXCEPT !.product = obj.target]
          BY <2>1, <4>2, <5>1
        <5>3. entry'[i] \in Entries
          BY <1>1, <5>2, EntryFields
        <5> QED BY <5>3
      <4>3. CASE i \notin obj.dropped /\ i \notin obj.moved
        BY <2>1, <4>3 DEF CInv, Tables
      <4> QED BY <4>1, <4>2, <4>3
    <3> QED BY <2>1, <3>1
  <2>6. Told(history)' /\ Told(confirmations)' /\ confirmations' \in Seq(ConfirmRows)
    <3>1. CASE obj.from = {}
      BY <2>1, <3>1 DEF pricingTables, CInv, Tables, Told
    <3>2. CASE obj.from # {} /\ obj.to = {}
      <4>1. UNCHANGED <<history, confirmations>>
        BY <2>1, <3>2
      <4>2. ASSUME NEW i \in ListingIds, listing[i] # Null PROVE listing'[i] # Null
        <5>1. PICK row \in Rows : row = listing[i]
          BY <4>2 DEF IInv, Books, Typed
        <5>2. [row EXCEPT !.product = obj.target] \in Rows
          BY <1>1 DEF Rows
        <5>3. listing'[i] = row \/ listing'[i] = [row EXCEPT !.product = obj.target]
          BY <2>1, <3>2, <5>1
        <5> QED BY <5>1, <5>2, <5>3
      <4>3. Told(confirmations)'
        BY <4>1, <4>2, ConfirmedRows DEF CInv, Tables, Told
      <4>4. Told(history)'
        <5>1. \A n \in DOMAIN history : history[n].listing \in ListingIds
          BY HistoryTyped DEF IInv, Books, HistoryRows
        <5> QED BY <4>1, <4>2, <5>1 DEF CInv, Tables, Told
      <4> QED BY <4>1, <4>3, <4>4 DEF CInv, Tables
    <3>3. CASE obj.from # {} /\ obj.to # {}
      <4>1. PICK i \in obj.from, j \in obj.to : MergeListing(i, j, obj.shown[i])
        BY <2>1, <3>3
      <4>2. i \in ListingIds /\ j \in ListingIds /\ i # j /\ listing[j] # Null /\ obj.shown[i] \in Prices
        BY <1>1, <1>2, <2>2, <3>3
      <4> QED BY <4>1, <4>2, MergerTold DEF CInv
    <3> QED BY <3>1, <3>2, <3>3
  <2>7. Kept /\ Tables'
    BY <2>3, <2>4, <2>5, <2>6 DEF Kept, Tables
  <2> QED BY <2>1, <2>7, AnswerGoes
<1> QED BY <1>3, <1>4

LEMMA CInvInit ==
  ASSUME Init
  PROVE  CInv
<1>1. PICK s \in Scenarios : PricingInit(s) /\ entry = s.entry /\ merge = s.merge
  BY DEF Init
<1>2. /\ product = s.product /\ history = <<>> /\ confirmations = <<>>
      /\ req = [r \in Requests |-> Null]
  BY <1>1 DEF PricingInit
<1>3. Tables
  <2>1. confirmations \in Seq(ConfirmRows)
    BY <1>2
  <2>2. Told(history) /\ Told(confirmations)
    BY <1>2 DEF Told
  <2>3. Apart
    BY <1>1 DEF Apart
  <2> QED BY <1>1, <1>2, <2>1, <2>2, <2>3 DEF Tables
<1> QED BY <1>2, <1>3 DEF CInv, Careful

LEMMA CInvNext ==
  ASSUME IInv, CInv, [Next]_vars
  PROVE  CInv'
<1>1. CASE UNCHANGED vars
  <2>1. UNCHANGED <<tables, req>>
    BY <1>1 DEF vars, pricingVars, catalogVars, pricingTables, tables
  <2>2. Kept /\ Tables'
    BY <2>1, SameTables
  <2>3. ASSUME NEW r \in Requests PROVE Careful(req[r])' /\ Known(req'[r])
    <3>1. PICK x : x = req[r]
      OBVIOUS
    <3>2. Careful(x)' /\ Known(x)
      BY <2>2, <3>1, CarefulStays DEF CInv, Known
    <3> QED BY <2>1, <3>1, <3>2
  <2> QED BY <2>2, <2>3 DEF CInv, Known
<1>2. CASE Next
  BY <1>2, PricingGoes, AttachesGo, EntriesGo, CreationsGo, ReviewsGo, ProposalsGo, GatheringsGo, CommitsGo DEF Next
<1> QED BY <1>1, <1>2

\* The tables and what is read of them stay sound.
THEOREM CarefulInvariant == Spec => []CInv
<1>1. IInv /\ CInv /\ [Next]_vars => CInv'
  BY CInvNext
<1> QED BY <1>1, Invariant, CInvInit, PTL DEF Spec

\* Every row of the catalog's tables is whole, and every price entry and
\* confirmation is told of a listing that is there (the foreign keys on
\* store_products hold through every merge).
THEOREM TypeCorrect == Spec => []TypeOK
<1>1. ASSUME IInv, CInv PROVE TypeOK
  <2>1. ASSUME NEW n \in DOMAIN history
        PROVE  history[n] \in [listing: Listed, of: ListingIds, by: {"update", "batch", "merge"},
                               previous: Prices \cup {Null}, new: Prices]
    <3>1. PICK e \in HistoryRows : e = history[n]
      BY <1>1, HistoryTyped DEF IInv, Books
    <3>2. listing[e.listing] # Null
      BY <1>1, <3>1 DEF CInv, Tables, Told
    <3>3. e \in [listing: Listed, of: ListingIds, by: {"update", "batch", "merge"},
                 previous: Prices \cup {Null}, new: Prices]
      BY <3>2 DEF HistoryRows, Listed
    <3> QED BY <3>1, <3>3
  <2>2. ASSUME NEW n \in DOMAIN confirmations
        PROVE  confirmations[n] \in [listing: Listed, of: ListingIds, price: Prices]
    <3>1. PICK c \in ConfirmRows : c = confirmations[n]
      BY <1>1, ConfirmedRows DEF CInv
    <3>2. listing[c.listing] # Null
      BY <1>1, <3>1 DEF CInv, Tables, Told
    <3>3. c \in [listing: Listed, of: ListingIds, price: Prices]
      BY <3>2 DEF ConfirmRows, Listed
    <3> QED BY <3>1, <3>3
  <2>3. /\ product \in [Products -> ProductStatuses]
        /\ listing \in [ListingIds -> Rows \cup {Null}]
        /\ initial \in [ListingIds -> Prices \cup {Null}]
        /\ entry \in [EntryIds -> Entries \cup {Null, Gone}]
        /\ merge \in [MergeIds -> Merges \cup {Null}]
    BY <1>1 DEF IInv, Books, Typed, Domains, CInv, Tables
  <2>4. \A r \in Requests : req[r] = Null \/ req[r].pc \in {"read", "gathered", "done"}
    BY <1>1 DEF CInv
  <2> QED BY <2>1, <2>2, <2>3, <2>4 DEF TypeOK
<1> QED BY <1>1, Invariant, CarefulInvariant, PTL

-----------------------------------------------------------------------------
\* Scans over a merge.

\* Only the request that gathered a merge commits it.
LEMMA OneCommits ==
  ASSUME IInv, Next, NEW r \in Requests, Merging(r)
  PROVE  CommitMerge(r) /\ ~MergeFails(req[r].obj)
<1>1. ASSUME NEW q \in Requests, NEW x, req' = [req EXCEPT ![q] = x] PROVE q = r
  <2>1. q # r => req'[r] = req[r]
    BY <1>1
  <2> QED BY <2>1 DEF Merging
<1>2. ASSUME NEW q \in Requests, NEW kind, \E answer : Answers(q, kind, answer) PROVE q = r
  BY <1>1, <1>2 DEF Answers
<1>3. ASSUME NEW q \in Requests, NEW kind, \E obj : Reads(q, kind, obj) PROVE q = r
  BY <1>1, <1>3 DEF Reads
<1>4. \A kind : ~Begins(r, kind) /\ ~Holds(r, kind)
  BY DEF Merging, Begins, Holds
<1>5. CASE \E q \in Requests : CommitMerge(q)
  <2>1. PICK q \in Requests : CommitMerge(q)
    BY <1>5
  <2>2. \E answer : Answers(q, "merge", answer)
    BY <2>1 DEF CommitMerge
  <2>3. q = r
    BY <1>2, <2>2
  <2>4. CASE MergeFails(req[r].obj)
    <3>1. Answers(r, "merge", "error")
      BY <2>1, <2>3, <2>4 DEF CommitMerge
    <3>2. req'[r].answer = "error"
      BY <3>1 DEF Answers, IInv, Domains
    <3> QED BY <3>2 DEF Merging
  <2> QED BY <2>1, <2>3, <2>4
<1>6. ASSUME NEW q \in Requests, PricingNext(q) PROVE FALSE
  <2>1. CASE ReadEdits(q)
    <3>1. PICK kind : Begins(q, kind) /\ \E obj : Reads(q, kind, obj)
      BY <2>1 DEF ReadEdits
    <3> QED BY <1>3, <1>4, <3>1
  <2>2. CASE ApplyEdit(q)
    <3>1. PICK kind : Holds(q, kind)
      BY <2>2 DEF ApplyEdit
    <3>2. \E k : (\E answer : Answers(q, k, answer)) \/ (\E obj : Reads(q, k, obj))
      BY <2>2, Applied
    <3> QED BY Zenon, <1>2, <1>3, <1>4, <3>1, <3>2
  <2>3. CASE ReadToConfirm(q)
    BY <1>3, <1>4, <2>3 DEF ReadToConfirm
  <2>4. CASE Confirm(q)
    <3>1. \E answer : Answers(q, "confirm", answer)
      BY <2>4 DEF Confirm
    <3> QED BY <1>2, <1>4, <2>4, <3>1 DEF Confirm
  <2>5. CASE ReadListing(q)
    <3>1. \E kind : Begins(q, kind)
      BY <2>5 DEF ReadListing
    <3>2. \E k : (\E answer : Answers(q, k, answer)) \/ (\E obj : Reads(q, k, obj))
      BY <2>5, ListingsRead
    <3> QED BY <1>2, <1>3, <1>4, <3>1, <3>2
  <2>6. CASE CreateListing(q)
    <3>1. \E kind : Holds(q, kind) /\ \E answer : Answers(q, kind, answer)
      BY <2>6 DEF CreateListing
    <3> QED BY <1>2, <1>4, <3>1
  <2>7. CASE SetStatus(q)
    <3>1. Holds(q, "status") /\ \E answer : Answers(q, "status", answer)
      BY <2>7 DEF SetStatus
    <3> QED BY <1>2, <1>4, <3>1
  <2> QED BY <1>6, <2>1, <2>2, <2>3, <2>4, <2>5, <2>6, <2>7 DEF PricingNext
<1>7. ASSUME NEW q \in Requests, ReadToAttach(q) \/ Attach(q) \/ CreateProduct(q) PROVE FALSE
  <2>1. (\E kind : Begins(q, kind)) \/ (\E kind : Holds(q, kind))
    BY <1>7 DEF ReadToAttach, Attach, CreateProduct
  <2>2. (\E k, answer : Answers(q, k, answer)) \/ (\E k, obj : Reads(q, k, obj))
    BY Zenon, <1>7 DEF ReadToAttach, Attach, CreateProduct
  <2> QED BY <1>2, <1>3, <1>4, <2>1, <2>2
<1>8. ASSUME NEW q \in Requests, ReadEntry(q) \/ Report(q) \/ Move(q) PROVE FALSE
  <2>1. (\E kind : Begins(q, kind)) \/ (\E kind : Holds(q, kind))
    BY Zenon, <1>8 DEF ReadEntry, Report, Move
  <2>2. (\E k, answer : Answers(q, k, answer)) \/ (\E k, obj : Reads(q, k, obj))
    BY <1>8 DEF ReadEntry, Report, Move
  <2> QED BY <1>2, <1>3, <1>4, <2>1, <2>2
<1>9. ASSUME NEW q \in Requests, ReadReview(q) \/ ReviewProduct(q) \/ ReviewEntry(q) \/ RejectMerge(q)
      PROVE  FALSE
  <2>1. (\E kind : Begins(q, kind)) \/ (\E kind : Holds(q, kind))
    BY <1>9 DEF ReadReview, ReviewProduct, ReviewEntry, RejectMerge
  <2>2. (\E k, answer : Answers(q, k, answer)) \/ (\E k, obj : Reads(q, k, obj))
    BY <1>9 DEF ReadReview, ReviewProduct, ReviewEntry, RejectMerge
  <2> QED BY <1>2, <1>3, <1>4, <2>1, <2>2
<1>10. ASSUME NEW q \in Requests, ReadToPropose(q) \/ Propose(q) \/ GatherMerge(q) PROVE FALSE
  <2>1. (\E kind : Begins(q, kind)) \/ (\E kind : Holds(q, kind))
    BY Zenon, <1>10 DEF ReadToPropose, Propose, GatherMerge
  <2>2. \E x : req' = [req EXCEPT ![q] = x]
    BY <1>10 DEF ReadToPropose, Propose, GatherMerge, Answers, Reads
  <2>3. q = r
    BY <1>1, <2>2
  <2> QED BY <1>4, <2>1, <2>3
<1> QED BY <1>5, <1>6, <1>7, <1>8, <1>9, <1>10 DEF Next

\* The rows of one kind that a scan may find.
LiveOf(key) == {i \in Live : entry[i].key = key}
Renamed(p, source, target) == IF p = source THEN target ELSE p
MergedEntries(moved, dropped, target) ==
    [i \in EntryIds |-> CASE i \in dropped -> Gone
                         [] i \in moved -> [entry[i] EXCEPT !.product = target]
                         [] OTHER -> entry[i]]

\* A merge moves what it has not dropped, and what it drops has a twin.
LEMMA ScanMoves ==
  ASSUME CInv, NEW moved, NEW dropped, NEW source, NEW target \in Products, source # target,
         EntriesOf(source) = moved \cup dropped, moved \cap dropped = {},
         dropped = Redundant(source, target),
         \A i \in dropped : With(target, entry[i].key) = {} \/ With(target, entry[i].key) \cap Live # {},
         entry' = MergedEntries(moved, dropped, target)
  PROVE  Scan' = {Renamed(p, source, target) : p \in Scan}
<1>1. entry \in [EntryIds -> Entries \cup {Null, Gone}]
  BY DEF CInv, Tables
<1>2. \A i \in Filled : i \in EntryIds /\ entry[i] \in Entries
  BY <1>1 DEF Filled
<1>3. \A i \in moved \cup dropped : i \in Filled /\ entry[i].product = source
  BY DEF EntriesOf
<1>4. ASSUME NEW i \in Filled, i \notin dropped
      PROVE  /\ i \in Filled' /\ entry'[i].key = entry[i].key /\ entry'[i].status = entry[i].status
             /\ entry'[i].product = Renamed(entry[i].product, source, target)
  <2>1. PICK row \in Entries : row = entry[i]
    BY <1>2
  <2>2. CASE i \in moved
    <3>1. entry'[i] = [row EXCEPT !.product = target]
      BY <1>2, <1>4, <2>1, <2>2 DEF MergedEntries
    <3>2. PICK new \in Entries : new = entry'[i]
      BY <3>1, EntryFields
    <3>3. new.key = row.key /\ new.status = row.status /\ new.product = target
      BY <3>1, <3>2 DEF Entries
    <3>4. i \in Filled'
      BY <1>2, <3>2 DEF Filled
    <3> QED BY <1>3, <2>1, <2>2, <3>2, <3>3, <3>4 DEF Renamed
  <2>3. CASE i \notin moved
    <3>1. entry'[i] = entry[i]
      BY <1>2, <1>4, <2>3 DEF MergedEntries
    <3>2. entry[i].product # source
      BY <1>4, <2>3 DEF EntriesOf
    <3>3. i \in Filled'
      BY <1>2, <3>1 DEF Filled
    <3>4. Renamed(entry[i].product, source, target) = entry[i].product
      BY <3>2 DEF Renamed
    <3> QED BY <3>1, <3>3, <3>4
  <2> QED BY <2>2, <2>3
<1>5. ASSUME NEW i \in Filled' PROVE i \in Filled /\ i \notin dropped
  <2>1. i \in EntryIds /\ entry'[i] # Null /\ entry'[i] # Gone
    BY DEF Filled
  <2>2. i \notin dropped
    <3>1. i \in dropped => entry'[i] = Gone
      BY <2>1 DEF MergedEntries
    <3> QED BY <2>1, <3>1
  <2>3. i \in moved => i \in Filled
    BY <1>3
  <2>4. i \notin moved => entry'[i] = entry[i]
    BY <2>1, <2>2 DEF MergedEntries
  <2> QED BY <2>1, <2>2, <2>3, <2>4 DEF Filled
<1>6. \A i : i \in Live' <=> i \in Live /\ i \notin dropped
  BY <1>4, <1>5 DEF Live
<1>7. \A key : LiveOf(key)' = LiveOf(key) \ dropped
  BY <1>4, <1>6 DEF LiveOf, Live
<1>8. ASSUME NEW i \in Live, i \in dropped, NEW key, entry[i].key = key
      PROVE  \E k \in LiveOf(key)' : entry'[k].product = target
  <2>1. With(target, key) # {}
    BY <1>8 DEF Redundant
  <2>2. PICK k \in With(target, key) : k \in Live
    BY <1>8, <2>1
  <2>3. k \in Filled /\ entry[k].product = target /\ entry[k].key = key
    BY DEF With, EntriesOf
  <2>4. k \notin dropped
    BY <1>3, <2>3
  <2>5. k \in LiveOf(key)'
    <3>1. k \in LiveOf(key)
      BY <2>2, <2>3 DEF LiveOf
    <3> QED BY <1>7, <2>4, <3>1
  <2>6. entry'[k].product = Renamed(target, source, target)
    BY <1>4, <2>3, <2>4
  <2> QED BY <2>5, <2>6 DEF Renamed
<1>9. ASSUME NEW key
      PROVE  /\ LiveOf(key)' = {} <=> LiveOf(key) = {}
             /\ {entry'[i].product : i \in LiveOf(key)'} =
                  {Renamed(entry[i].product, source, target) : i \in LiveOf(key)}
  <2>1. ASSUME NEW i \in LiveOf(key)
        PROVE  \E k \in LiveOf(key)' : entry'[k].product = Renamed(entry[i].product, source, target)
    <3>1. i \in Live /\ i \in Filled /\ entry[i].key = key
      BY DEF LiveOf, Live
    <3>2. CASE i \in dropped
      <4>1. entry[i].product = source
        BY <1>3, <3>2
      <4>2. PICK k \in LiveOf(key)' : entry'[k].product = target
        BY <1>8, <3>1, <3>2
      <4> QED BY <4>1, <4>2 DEF Renamed
    <3>3. CASE i \notin dropped
      <4>1. i \in LiveOf(key)'
        BY <1>7, <3>3
      <4>2. entry'[i].product = Renamed(entry[i].product, source, target)
        BY <1>4, <3>1, <3>3
      <4> QED BY <4>1, <4>2
    <3> QED BY <3>2, <3>3
  <2>2. ASSUME NEW i \in LiveOf(key)'
        PROVE  i \in LiveOf(key) /\ entry'[i].product = Renamed(entry[i].product, source, target)
    <3>1. i \in LiveOf(key) /\ i \notin dropped
      BY <1>7, <2>2
    <3>2. i \in Filled
      BY <3>1 DEF LiveOf, Live
    <3> QED BY <1>4, <3>1, <3>2
  <2>3. \A q : q \in {entry'[i].product : i \in LiveOf(key)'} <=>
                q \in {Renamed(entry[i].product, source, target) : i \in LiveOf(key)}
    <3>1. ASSUME NEW i \in LiveOf(key)'
          PROVE  entry'[i].product \in {Renamed(entry[j].product, source, target) : j \in LiveOf(key)}
      BY <2>2
    <3>2. ASSUME NEW i \in LiveOf(key)
          PROVE  Renamed(entry[i].product, source, target) \in {entry'[j].product : j \in LiveOf(key)'}
      BY <2>1
    <3> QED BY <3>1, <3>2
  <2>4. LiveOf(key)' = {} <=> LiveOf(key) = {}
    BY <2>1, <2>2
  <2> QED BY <2>3, <2>4
<1>10. /\ Scan = {entry[i].product : i \in IF LiveOf("store") # {} THEN LiveOf("store") ELSE LiveOf("global")}
       /\ Scan' = {entry'[i].product : i \in IF LiveOf("store")' # {} THEN LiveOf("store")'
                                             ELSE LiveOf("global")'}
  BY DEF Scan, LiveOf
<1>11. CASE LiveOf("store") # {}
  <2>1. Scan = {entry[i].product : i \in LiveOf("store")}
    BY <1>10, <1>11
  <2>2. Scan' = {entry'[i].product : i \in LiveOf("store")'}
    BY <1>9, <1>10, <1>11
  <2>3. Scan' = {Renamed(entry[i].product, source, target) : i \in LiveOf("store")}
    BY <1>9, <2>2
  <2> QED BY <2>1, <2>3
<1>12. CASE LiveOf("store") = {}
  <2>1. Scan = {entry[i].product : i \in LiveOf("global")}
    BY <1>10, <1>12
  <2>2. Scan' = {entry'[i].product : i \in LiveOf("global")'}
    BY <1>9, <1>10, <1>12
  <2>3. Scan' = {Renamed(entry[i].product, source, target) : i \in LiveOf("global")}
    BY <1>9, <2>2
  <2> QED BY <2>1, <2>3
<1> QED BY <1>11, <1>12

\* A scan finds after a merge what it found before, with the kept product in place
\* of the other, if the merge saw every row of that and the kept one's own row was
\* not reported (execute_product_merge drops the redundant row whatever its twin's
\* status is).
THEOREM ScansSurviveMerges == Spec => MergeKeepsScan
<1>1. ASSUME IInv, CInv, [Next]_vars, NEW r \in Requests, Merging(r), Fresh(req[r].obj), ~Burned(req[r].obj)
      PROVE  Scan' = {IF p = req[r].obj.source THEN req[r].obj.target ELSE p : p \in Scan}
  <2> DEFINE obj == req[r].obj
  <2>1. req' # req
    BY <1>1 DEF Merging
  <2>2. CommitMerge(r) /\ ~MergeFails(obj)
    BY <1>1, <2>1, OneCommits DEF vars, pricingVars
  <2>3. entry' = [i \in EntryIds |-> CASE i \in obj.dropped -> Gone
                                       [] i \in obj.moved -> [entry[i] EXCEPT !.product = obj.target]
                                       [] OTHER -> entry[i]]
    BY <2>2 DEF CommitMerge
  <2>4. obj.target \in Products /\ obj.source # obj.target /\ obj.moved \cap obj.dropped = {}
    BY <1>1, <2>2 DEF CommitMerge, CInv, Careful, CarefulMerge
  <2>5. /\ EntriesOf(obj.source) = obj.moved \cup obj.dropped
        /\ obj.dropped = Redundant(obj.source, obj.target)
    BY <1>1 DEF Fresh
  <2>6. \A i \in obj.dropped : \/ With(obj.target, entry[i].key) = {}
                               \/ With(obj.target, entry[i].key) \cap Live # {}
    BY <1>1 DEF Burned
  <2>7. PICK moved, dropped, source, target :
          moved = obj.moved /\ dropped = obj.dropped /\ source = obj.source /\ target = obj.target
    OBVIOUS
  <2> HIDE DEF obj
  <2>8. entry' = MergedEntries(moved, dropped, target)
    BY <2>3, <2>7 DEF MergedEntries
  <2>9. \A i \in dropped : With(target, entry[i].key) = {} \/ With(target, entry[i].key) \cap Live # {}
    BY <2>6, <2>7
  <2>10. /\ target \in Products /\ source # target /\ moved \cap dropped = {}
         /\ EntriesOf(source) = moved \cup dropped /\ dropped = Redundant(source, target)
    BY <2>4, <2>5, <2>7
  <2> HIDE <2>7
  <2>11. Scan' = {Renamed(p, source, target) : p \in Scan}
    BY <1>1, <2>8, <2>9, <2>10, ScanMoves
  <2> QED BY <2>7, <2>11 DEF Renamed, obj
<1>2. IInv /\ CInv /\ [Next]_vars =>
        [\A r \in Requests : Merging(r) =>
           LET obj == req[r].obj IN
           Fresh(obj) /\ ~Burned(obj) =>
             Scan' = {IF p = obj.source THEN obj.target ELSE p : p \in Scan}]_vars
  BY <1>1
<1> QED BY <1>2, Invariant, CarefulInvariant, PTL DEF Spec, MergeKeepsScan

-----------------------------------------------------------------------------
\* The ledger.

LEMMA Awarded ==
  ASSUME awards \in [DOMAIN awards -> Nat], NEW action, NEW id, Award(action, id)
  PROVE  /\ awards' \in [DOMAIN awards' -> Nat]
         /\ \A b, j : /\ Points(b, j) \in Nat
                      /\ Points(b, j)' = Points(b, j) + IF b = action /\ j = id THEN 1 ELSE 0
<1>1. awards' = [e \in DOMAIN awards \cup {<<action, id>>} |->
                   (IF e \in DOMAIN awards THEN awards[e] ELSE 0) + (IF e \in {<<action, id>>} THEN 1 ELSE 0)]
  BY DEF Award, SetToBag, (+)
<1>2. awards' \in [DOMAIN awards' -> Nat]
  BY <1>1
<1>3. ASSUME NEW b, NEW j
      PROVE  /\ Points(b, j) \in Nat
             /\ Points(b, j)' = Points(b, j) + IF b = action /\ j = id THEN 1 ELSE 0
  BY <1>1 DEF Points, BagIn, BagToSet
<1> QED BY <1>2, <1>3

LEMMA NotAwarded ==
  ASSUME UNCHANGED awards
  PROVE  \A b, j : Points(b, j)' = Points(b, j)
BY DEF Points, BagIn, BagToSet

LEMMA Counted ==
  ASSUME NEW S, NEW rows \in Seq(S), NEW T, T \subseteq DOMAIN rows
  PROVE  IsFiniteSet(T) /\ Cardinality(T) \in Nat
<1>1. DOMAIN rows = 1 .. Len(rows) /\ Len(rows) \in Nat
  OBVIOUS
<1>2. IsFiniteSet(1 .. Len(rows))
  <2>1. PICK n : n = Len(rows)
    OBVIOUS
  <2>2. n \in Int /\ 1 \in Int
    BY <1>1, <2>1
  <2>3. IsFiniteSet(1 .. n)
    BY <2>2, FS_Interval
  <2> QED BY <2>1, <2>3
<1>3. IsFiniteSet(T)
  BY <1>1, <1>2, FS_Subset
<1> QED BY <1>3, FS_CardinalityType

LEMMA UpdateCounted ==
  ASSUME Typed, NEW e \in HistoryRows, history' = Append(history, e), NEW k
  PROVE  /\ Cardinality(Updates(k)) \in Nat
         /\ Cardinality(Updates(k)') =
              Cardinality(Updates(k)) + IF e.of = k /\ e.by = "update" THEN 1 ELSE 0
<1> DEFINE last == Len(history) + 1
<1>1. /\ last \notin DOMAIN history /\ DOMAIN history' = DOMAIN history \cup {last}
      /\ history'[last] = e /\ \A n \in DOMAIN history : history'[n] = history[n]
  BY Appended
<1>2. IsFiniteSet(Updates(k)) /\ Cardinality(Updates(k)) \in Nat
  <2>1. history \in Seq(HistoryRows) /\ Updates(k) \subseteq DOMAIN history
    BY DEF Typed, Updates
  <2> QED BY <2>1, Counted
<1> HIDE DEF last
<1>3. last \notin Updates(k)
  BY <1>1 DEF Updates
<1>4. CASE e.of = k /\ e.by = "update"
  <2>1. Updates(k)' = Updates(k) \cup {last}
    BY <1>1, <1>4 DEF Updates
  <2>2. Cardinality(Updates(k) \cup {last}) = Cardinality(Updates(k)) + 1
    BY <1>2, <1>3, FS_AddElement
  <2> QED BY <1>2, <1>4, <2>1, <2>2
<1>5. CASE ~(e.of = k /\ e.by = "update")
  <2>1. Updates(k)' = Updates(k)
    BY <1>1, <1>5 DEF Updates
  <2> QED BY <1>2, <1>5, <2>1
<1> QED BY <1>4, <1>5

LEMMA ConfirmationCounted ==
  ASSUME Tables, NEW c \in ConfirmRows, confirmations' = Append(confirmations, c), NEW k
  PROVE  /\ Cardinality(ConfirmationsOf(k)) \in Nat
         /\ Cardinality(ConfirmationsOf(k)') =
              Cardinality(ConfirmationsOf(k)) + IF c.of = k THEN 1 ELSE 0
<1> DEFINE last == Len(confirmations) + 1
<1>1. confirmations \in Seq(ConfirmRows)
  BY DEF Tables
<1>2. /\ last \notin DOMAIN confirmations /\ DOMAIN confirmations' = DOMAIN confirmations \cup {last}
      /\ confirmations'[last] = c /\ \A n \in DOMAIN confirmations : confirmations'[n] = confirmations[n]
  <2> HIDE DEF ConfirmRows
  <2>1. Len(confirmations) \in Nat /\ DOMAIN confirmations = 1 .. Len(confirmations)
    BY <1>1
  <2>2. /\ DOMAIN confirmations' = 1 .. last
        /\ confirmations'[last] = c /\ \A n \in DOMAIN confirmations : confirmations'[n] = confirmations[n]
    BY <1>1
  <2> QED BY <2>1, <2>2
<1>3. IsFiniteSet(ConfirmationsOf(k)) /\ Cardinality(ConfirmationsOf(k)) \in Nat
  <2>1. ConfirmationsOf(k) \subseteq DOMAIN confirmations
    BY DEF ConfirmationsOf
  <2> QED BY <1>1, <2>1, Counted
<1> HIDE DEF last
<1>4. last \notin ConfirmationsOf(k)
  BY <1>2 DEF ConfirmationsOf
<1>5. CASE c.of = k
  <2>1. ConfirmationsOf(k)' = ConfirmationsOf(k) \cup {last}
    BY <1>2, <1>5 DEF ConfirmationsOf
  <2>2. Cardinality(ConfirmationsOf(k) \cup {last}) = Cardinality(ConfirmationsOf(k)) + 1
    BY <1>3, <1>4, FS_AddElement
  <2> QED BY <1>3, <1>5, <2>1, <2>2
<1>6. CASE c.of # k
  <2>1. ConfirmationsOf(k)' = ConfirmationsOf(k)
    BY <1>2, <1>6 DEF ConfirmationsOf
  <2> QED BY <1>3, <1>6, <2>1
<1> QED BY <1>5, <1>6

\* The counts that stay, and the records of products and merges that do.
LEMMA UpdatesStay ==
  ASSUME UpdatesPaid, \A k \in ListingIds : Updates(k)' = Updates(k),
         \A k \in ListingIds : Points("UPDATE_PRICE", k)' = Points("UPDATE_PRICE", k)
  PROVE  UpdatesPaid'
BY DEF UpdatesPaid

LEMMA ConfirmationsStay ==
  ASSUME ConfirmationsPaid, \A k \in ListingIds : ConfirmationsOf(k)' = ConfirmationsOf(k),
         \A k \in ListingIds : Points("CONFIRM_PRICE", k)' = Points("CONFIRM_PRICE", k)
  PROVE  ConfirmationsPaid'
BY DEF ConfirmationsPaid

LEMMA ProductStays ==
  ASSUME NEW p, ProductPaid(p), product'[p] = product[p],
         <<"product", p>> \in raced' <=> <<"product", p>> \in raced,
         Points("CREATE_PRODUCT_APPROVED", p)' = Points("CREATE_PRODUCT_APPROVED", p)
  PROVE  ProductPaid(p)'
BY DEF ProductPaid

LEMMA MergeStays ==
  ASSUME NEW m, MergePaid(m), merge'[m] = merge[m],
         <<"merge", m>> \in raced' <=> <<"merge", m>> \in raced,
         Points("REPORT_DUPLICATE_APPROVED", m)' = Points("REPORT_DUPLICATE_APPROVED", m)
  PROVE  MergePaid(m)'
BY DEF MergePaid

\* What gives no points and tells nothing of them.
LEMMA LedgerStays ==
  ASSUME LInv, UNCHANGED <<awards, product, merge>>,
         \A p : <<"product", p>> \in raced' <=> <<"product", p>> \in raced,
         \A m : <<"merge", m>> \in raced' <=> <<"merge", m>> \in raced,
         \A k \in ListingIds : Updates(k)' = Updates(k) /\ ConfirmationsOf(k)' = ConfirmationsOf(k)
  PROVE  LInv'
<1>1. \A b, j : Points(b, j)' = Points(b, j)
  BY NotAwarded
<1>2. UpdatesPaid' /\ ConfirmationsPaid'
  BY <1>1, UpdatesStay, ConfirmationsStay DEF LInv
<1>3. \A p \in Products : ProductPaid(p)'
  BY <1>1, ProductStays DEF LInv
<1>4. \A m \in MergeIds : MergePaid(m)'
  BY <1>1, MergeStays DEF LInv
<1> QED BY <1>2, <1>3, <1>4 DEF LInv

LEMMA EditsPaid ==
  ASSUME IInv, LInv, NEW r \in Requests, ApplyEdit(r), UNCHANGED catalogVars
  PROVE  LInv'
<1>1. UNCHANGED <<product, confirmations, merge, raced>>
  BY Applied DEF catalogVars
<1>2. \A k : ConfirmationsOf(k)' = ConfirmationsOf(k)
  BY <1>1 DEF ConfirmationsOf
<1>3. CASE UNCHANGED <<history, awards>>
  BY <1>1, <1>2, <1>3, LedgerStays DEF Updates
<1>4. ASSUME NEW id, NEW kind, NEW changes, EditWrites(id, kind, changes), ~UNCHANGED <<history, awards>>
      PROVE  LInv'
  <2>1. changes
    BY <1>4 DEF EditWrites
  <2>2. PICK e \in HistoryRows : e.of = id /\ e.by = kind /\ history' = Append(history, e)
    BY <1>4, <2>1 DEF EditWrites
  <2>3. \A k : /\ Cardinality(Updates(k)) \in Nat
               /\ Cardinality(Updates(k)') =
                    Cardinality(Updates(k)) + IF id = k /\ kind = "update" THEN 1 ELSE 0
    BY <2>2, UpdateCounted DEF IInv, Books
  <2>4. CASE kind = "update"
    <3>1. Award("UPDATE_PRICE", id)
      BY <1>4, <2>1, <2>4 DEF EditWrites
    <3>2. /\ awards' \in [DOMAIN awards' -> Nat]
          /\ \A b, j : /\ Points(b, j) \in Nat
                       /\ Points(b, j)' = Points(b, j) + IF b = "UPDATE_PRICE" /\ j = id THEN 1 ELSE 0
      BY <3>1, Awarded DEF LInv
    <3>3. UpdatesPaid'
      <4>1. ASSUME NEW k \in ListingIds PROVE Points("UPDATE_PRICE", k)' = Cardinality(Updates(k)')
        <5>1. Points("UPDATE_PRICE", k) = Cardinality(Updates(k))
          BY DEF LInv, UpdatesPaid
        <5>2. id = k => Points("UPDATE_PRICE", k)' = Points("UPDATE_PRICE", k) + 1
          BY <3>2
        <5>3. id # k => Points("UPDATE_PRICE", k)' = Points("UPDATE_PRICE", k)
          BY <3>2
        <5> QED BY <2>3, <2>4, <5>1, <5>2, <5>3
      <4> QED BY <4>1 DEF UpdatesPaid
    <3>4. \A b, j : b # "UPDATE_PRICE" => Points(b, j)' = Points(b, j)
      BY <3>2
    <3>5. ConfirmationsPaid'
      BY <1>2, <3>4, ConfirmationsStay DEF LInv
    <3>6. (\A p \in Products : ProductPaid(p)') /\ \A m \in MergeIds : MergePaid(m)'
      BY <1>1, <3>4, ProductStays, MergeStays DEF LInv
    <3> QED BY <3>2, <3>3, <3>5, <3>6 DEF LInv
  <2>5. CASE kind # "update"
    <3>1. UNCHANGED awards
      BY <1>4, <2>1, <2>5 DEF EditWrites
    <3>2. \A k \in ListingIds : Cardinality(Updates(k)') = Cardinality(Updates(k))
      BY <2>3, <2>5
    <3>3. \A b, j : Points(b, j)' = Points(b, j)
      BY <3>1, NotAwarded
    <3>4. UpdatesPaid'
      BY <3>2, <3>3 DEF UpdatesPaid, LInv
    <3>5. ConfirmationsPaid'
      BY <1>2, <3>3, ConfirmationsStay DEF LInv
    <3>6. (\A p \in Products : ProductPaid(p)') /\ \A m \in MergeIds : MergePaid(m)'
      BY <1>1, <3>3, ProductStays, MergeStays DEF LInv
    <3> QED BY <3>1, <3>4, <3>5, <3>6 DEF LInv
  <2> QED BY <2>4, <2>5
<1> QED BY <1>3, <1>4, Applied

LEMMA ConfirmationsArePaid ==
  ASSUME CInv, LInv, NEW r \in Requests, Confirm(r), UNCHANGED catalogVars
  PROVE  LInv'
<1> DEFINE id == req[r].obj.id
<1>1. UNCHANGED <<product, history, merge, raced>>
  BY DEF Confirm, catalogVars
<1>2. \A k : Updates(k)' = Updates(k)
  BY <1>1 DEF Updates
<1>3. CASE UNCHANGED <<confirmations, awards>>
  BY <1>1, <1>2, <1>3, LedgerStays DEF ConfirmationsOf
<1>4. CASE ~UNCHANGED <<confirmations, awards>>
  <2>1. /\ confirmations' = Append(confirmations, [listing |-> id, of |-> id, price |-> req[r].obj.price])
        /\ Award("CONFIRM_PRICE", id)
    BY <1>4 DEF Confirm
  <2>2. id \in ListingIds /\ req[r].obj.price \in Prices
    BY DEF Confirm, Holds, CInv, Careful, CarefulRead
  <2>3. PICK c \in ConfirmRows : c = [listing |-> id, of |-> id, price |-> req[r].obj.price]
    BY <2>2 DEF ConfirmRows
  <2>4. c.of = id
    BY <2>3
  <2> HIDE DEF id
  <2>5. \A k : /\ Cardinality(ConfirmationsOf(k)) \in Nat
               /\ Cardinality(ConfirmationsOf(k)') =
                    Cardinality(ConfirmationsOf(k)) + IF id = k THEN 1 ELSE 0
    BY <2>1, <2>3, <2>4, ConfirmationCounted DEF CInv
  <2>6. /\ awards' \in [DOMAIN awards' -> Nat]
        /\ \A b, j : /\ Points(b, j) \in Nat
                     /\ Points(b, j)' = Points(b, j) + IF b = "CONFIRM_PRICE" /\ j = id THEN 1 ELSE 0
    BY <2>1, Awarded DEF LInv
  <2>7. ConfirmationsPaid'
    <3>1. ASSUME NEW k \in ListingIds PROVE Points("CONFIRM_PRICE", k)' = Cardinality(ConfirmationsOf(k)')
      <4>1. Points("CONFIRM_PRICE", k) = Cardinality(ConfirmationsOf(k))
        BY DEF LInv, ConfirmationsPaid
      <4>2. id = k => Points("CONFIRM_PRICE", k)' = Points("CONFIRM_PRICE", k) + 1
        BY <2>6
      <4>3. id # k => Points("CONFIRM_PRICE", k)' = Points("CONFIRM_PRICE", k)
        BY <2>6
      <4> QED BY <2>5, <4>1, <4>2, <4>3
    <3> QED BY <3>1 DEF ConfirmationsPaid
  <2>8. \A b, j : b # "CONFIRM_PRICE" => Points(b, j)' = Points(b, j)
    BY <2>6
  <2>9. UpdatesPaid'
    BY <1>2, <2>8, UpdatesStay DEF LInv
  <2>10. (\A p \in Products : ProductPaid(p)') /\ \A m \in MergeIds : MergePaid(m)'
    BY <1>1, <2>8, ProductStays, MergeStays DEF LInv
  <2> QED BY <2>6, <2>7, <2>9, <2>10 DEF LInv
<1> QED BY <1>3, <1>4

LEMMA PricingPaid ==
  ASSUME IInv, CInv, LInv, NEW r \in Requests, PricingNext(r), UNCHANGED catalogVars
  PROVE  LInv'
<1>1. CASE ReadEdits(r) \/ ReadToConfirm(r) \/ ReadListing(r) \/ CreateListing(r) \/ SetStatus(r)
  <2>1. UNCHANGED <<awards, product, history, confirmations, merge, raced>>
    BY <1>1 DEF ReadEdits, ReadToConfirm, ReadListing, CreateListing, SetStatus, pricingTables, catalogVars
  <2> QED BY <2>1, LedgerStays DEF Updates, ConfirmationsOf
<1> QED BY <1>1, EditsPaid, ConfirmationsArePaid DEF PricingNext

\* A product gets its verdict, and the points for it.
LEMMA ProductIsPaid ==
  ASSUME CInv, LInv, NEW p \in Products, NEW s \in {"APPROVED", "REJECTED", "PENDING"},
         UNCHANGED <<history, confirmations, merge>>, product' = [product EXCEPT ![p] = s],
         IF s = "APPROVED" THEN Award("CREATE_PRODUCT_APPROVED", p) ELSE UNCHANGED awards,
         product[p] \in {"none", "PENDING"} \/ <<"product", p>> \in raced',
         raced' = raced \/ raced' = raced \cup {<<"product", p>>}
  PROVE  LInv'
<1>1. /\ awards' \in [DOMAIN awards' -> Nat]
      /\ \A b, j : b # "CREATE_PRODUCT_APPROVED" \/ j # p => Points(b, j)' = Points(b, j)
      /\ Points("CREATE_PRODUCT_APPROVED", p) \in Nat
      /\ Points("CREATE_PRODUCT_APPROVED", p)' =
           Points("CREATE_PRODUCT_APPROVED", p) + IF s = "APPROVED" THEN 1 ELSE 0
  <2>1. CASE s = "APPROVED"
    <3>1. /\ awards' \in [DOMAIN awards' -> Nat]
          /\ \A b, j : /\ Points(b, j) \in Nat
                       /\ Points(b, j)' = Points(b, j)
                            + IF b = "CREATE_PRODUCT_APPROVED" /\ j = p THEN 1 ELSE 0
      BY <2>1, Awarded DEF LInv
    <3> QED BY <2>1, <3>1
  <2>2. CASE s # "APPROVED"
    <3>1. Points("CREATE_PRODUCT_APPROVED", p) \in Nat
      BY DEF LInv, Points, BagIn, BagToSet
    <3>2. UNCHANGED awards
      BY <2>2
    <3> QED BY <2>2, <3>1, <3>2, NotAwarded DEF LInv
  <2> QED BY <2>1, <2>2
<1>2. UpdatesPaid' /\ ConfirmationsPaid'
  <2>1. \A k : Updates(k)' = Updates(k) /\ ConfirmationsOf(k)' = ConfirmationsOf(k)
    BY DEF Updates, ConfirmationsOf
  <2> QED BY <1>1, <2>1, UpdatesStay, ConfirmationsStay DEF LInv
<1>3. \A m \in MergeIds : MergePaid(m)'
  <2>1. \A m : <<"merge", m>> \in raced' <=> <<"merge", m>> \in raced
    OBVIOUS
  <2> QED BY <1>1, <2>1, MergeStays DEF LInv
<1>4. ASSUME NEW q \in Products, q # p PROVE ProductPaid(q)'
  <2>1. product'[q] = product[q] /\ (<<"product", q>> \in raced' <=> <<"product", q>> \in raced)
    BY <1>4 DEF CInv, Tables
  <2> QED BY <1>1, <1>4, <2>1, ProductStays DEF LInv
<1>5. ProductPaid(p)'
  <2>1. ProductPaid(p) /\ product'[p] = s
    BY DEF LInv, CInv, Tables
  <2>2. CASE <<"product", p>> \in raced'
    BY <2>1, <2>2 DEF ProductPaid
  <2>3. CASE <<"product", p>> \notin raced'
    <3>1. Points("CREATE_PRODUCT_APPROVED", p) = 0
      BY <2>1, <2>3 DEF ProductPaid
    <3> QED BY <1>1, <2>1, <2>3, <3>1 DEF ProductPaid
  <2> QED BY <2>2, <2>3
<1> QED BY <1>1, <1>2, <1>3, <1>4, <1>5 DEF LInv

LEMMA ProductsArePaid ==
  ASSUME IInv, CInv, LInv, NEW r \in Requests, CreateProduct(r) \/ ReviewProduct(r)
  PROVE  LInv'
<1>1. CASE CreateProduct(r)
  <2>1. UNCHANGED <<history, confirmations, merge, raced>>
    BY <1>1 DEF CreateProduct
  <2>2. PICK p \in Products, trusted \in BOOLEAN :
          /\ ~Exists(p)
          /\ \/ UNCHANGED <<product, awards>>
             \/ /\ product' = [product EXCEPT ![p] = IF trusted THEN "APPROVED" ELSE "PENDING"]
                /\ IF trusted THEN Award("CREATE_PRODUCT_APPROVED", p) ELSE UNCHANGED awards
    BY <1>1 DEF CreateProduct
  <2>3. CASE UNCHANGED <<product, awards>>
    BY <2>1, <2>3, LedgerStays DEF Updates, ConfirmationsOf
  <2>4. CASE ~UNCHANGED <<product, awards>>
    <3>1. PICK s \in {"APPROVED", "REJECTED", "PENDING"} : s = IF trusted THEN "APPROVED" ELSE "PENDING"
      OBVIOUS
    <3>2. /\ product' = [product EXCEPT ![p] = s]
          /\ IF s = "APPROVED" THEN Award("CREATE_PRODUCT_APPROVED", p) ELSE UNCHANGED awards
      BY <2>2, <2>4, <3>1
    <3>3. product[p] = "none"
      BY <2>2 DEF Exists
    <3> QED BY <2>1, <3>2, <3>3, ProductIsPaid
  <2> QED BY <2>3, <2>4
<1>2. CASE ReviewProduct(r)
  <2> DEFINE obj == req[r].obj
  <2>1. /\ UNCHANGED <<history, confirmations, merge>>
        /\ product' = [product EXCEPT ![obj.id] = obj.verdict]
        /\ IF obj.verdict = "APPROVED" THEN Award("CREATE_PRODUCT_APPROVED", obj.id) ELSE UNCHANGED awards
        /\ Races(r) /\ req[r].kind = "product"
    BY <1>2 DEF ReviewProduct, Holds, pricingTables
  <2>2. obj.id \in Products /\ obj.verdict \in {"APPROVED", "REJECTED", "PENDING"} /\ obj.was = "PENDING"
    BY <1>2 DEF ReviewProduct, Holds, CInv, Careful, CarefulRead, Verdicts, IInv, Sound, SoundReview
  <2>3. /\ product[obj.id] = "PENDING" \/ <<"product", obj.id>> \in raced'
        /\ raced' = raced \/ raced' = raced \cup {<<"product", obj.id>>}
    BY <2>1, <2>2 DEF Races, StatusOf
  <2> HIDE DEF obj
  <2> QED BY <2>1, <2>2, <2>3, ProductIsPaid
<1> QED BY <1>1, <1>2

\* A proposal gets its verdict, and the points for it.
LEMMA MergeIsPaid ==
  ASSUME IInv, LInv, NEW id \in MergeIds, merge[id] # Null, NEW s \in Verdicts,
         merge' = [merge EXCEPT ![id].status = s],
         IF s = "APPROVED" THEN Award("REPORT_DUPLICATE_APPROVED", id) ELSE UNCHANGED awards,
         merge[id].status = "PENDING" \/ <<"merge", id>> \in raced',
         raced' = raced \/ raced' = raced \cup {<<"merge", id>>}
  PROVE  /\ awards' \in [DOMAIN awards' -> Nat]
         /\ \A b, j : b # "REPORT_DUPLICATE_APPROVED" => Points(b, j)' = Points(b, j)
         /\ \A p : <<"product", p>> \in raced' <=> <<"product", p>> \in raced
         /\ \A m \in MergeIds : MergePaid(m)'
<1>1. /\ awards' \in [DOMAIN awards' -> Nat]
      /\ \A b, j : b # "REPORT_DUPLICATE_APPROVED" \/ j # id => Points(b, j)' = Points(b, j)
      /\ Points("REPORT_DUPLICATE_APPROVED", id) \in Nat
      /\ Points("REPORT_DUPLICATE_APPROVED", id)' =
           Points("REPORT_DUPLICATE_APPROVED", id) + IF s = "APPROVED" THEN 1 ELSE 0
  <2>1. CASE s = "APPROVED"
    <3>1. /\ awards' \in [DOMAIN awards' -> Nat]
          /\ \A b, j : /\ Points(b, j) \in Nat
                       /\ Points(b, j)' = Points(b, j)
                            + IF b = "REPORT_DUPLICATE_APPROVED" /\ j = id THEN 1 ELSE 0
      BY <2>1, Awarded DEF LInv
    <3> QED BY <2>1, <3>1
  <2>2. CASE s # "APPROVED"
    <3>1. Points("REPORT_DUPLICATE_APPROVED", id) \in Nat
      BY DEF LInv, Points, BagIn, BagToSet
    <3>2. UNCHANGED awards
      BY <2>2
    <3> QED BY <2>2, <3>1, <3>2, NotAwarded DEF LInv
  <2> QED BY <2>1, <2>2
<1>2. PICK row \in Merges : row = merge[id]
  BY DEF IInv, Domains
<1>3. PICK new \in Merges : new = [row EXCEPT !.status = s]
  BY DEF Merges
<1>4. new.status = s
  BY <1>3 DEF Merges
<1>5. merge' = [merge EXCEPT ![id] = new] /\ DOMAIN merge = MergeIds
  BY <1>2, <1>3 DEF IInv, Domains
<1>6. \A p : <<"product", p>> \in raced' <=> <<"product", p>> \in raced
  OBVIOUS
<1>7. ASSUME NEW m \in MergeIds, m # id PROVE MergePaid(m)'
  <2>1. merge'[m] = merge[m] /\ (<<"merge", m>> \in raced' <=> <<"merge", m>> \in raced)
    BY <1>5, <1>7
  <2> QED BY <1>1, <1>7, <2>1, MergeStays DEF LInv
<1>8. MergePaid(id)'
  <2>1. MergePaid(id) /\ merge'[id] = new /\ new # Null
    BY <1>5 DEF LInv
  <2>2. CASE <<"merge", id>> \in raced'
    BY <2>1, <2>2 DEF MergePaid
  <2>3. CASE <<"merge", id>> \notin raced'
    <3>1. Points("REPORT_DUPLICATE_APPROVED", id) = 0
      BY <2>1, <2>3 DEF MergePaid
    <3> QED BY <1>1, <1>4, <2>1, <2>3, <3>1 DEF MergePaid
  <2> QED BY <2>2, <2>3
<1> QED BY <1>1, <1>6, <1>7, <1>8

LEMMA ProposalsPaid ==
  ASSUME IInv, CInv, LInv, NEW r \in Requests, ReviewEntry(r) \/ RejectMerge(r) \/ Propose(r)
  PROVE  LInv'
<1>1. CASE ReviewEntry(r)
  <2>1. UNCHANGED <<awards, product, history, confirmations, merge>> /\ Races(r) /\ req[r].kind = "entry"
    BY <1>1 DEF ReviewEntry, Holds, pricingTables
  <2>2. raced' = raced \/ raced' = raced \cup {<<"entry", req[r].obj.id>>}
    BY <2>1 DEF Races
  <2> QED BY <2>1, <2>2, LedgerStays DEF Updates, ConfirmationsOf
<1>2. CASE RejectMerge(r)
  <2> DEFINE id == req[r].obj.id
  <2>1. /\ UNCHANGED <<awards, product, history, confirmations>> /\ Races(r) /\ req[r].kind = "merge"
        /\ merge' = [merge EXCEPT ![id].status = "REJECTED"]
    BY <1>2 DEF RejectMerge, Holds, pricingTables
  <2>2. id \in MergeIds /\ merge[id] # Null /\ req[r].obj.was = "PENDING"
    BY <1>2 DEF RejectMerge, Holds, IInv, Sound, SoundReview
  <2>3. /\ merge[id].status = "PENDING" \/ <<"merge", id>> \in raced'
        /\ raced' = raced \/ raced' = raced \cup {<<"merge", id>>}
    BY <2>1, <2>2 DEF Races, StatusOf
  <2>4. PICK s \in Verdicts : s = "REJECTED"
    BY DEF Verdicts
  <2> HIDE DEF id
  <2>5. /\ \A m \in MergeIds : MergePaid(m)'
        /\ \A p : <<"product", p>> \in raced' <=> <<"product", p>> \in raced
    BY <2>1, <2>2, <2>3, <2>4, MergeIsPaid
  <2>6. \A b, j : Points(b, j)' = Points(b, j)
    BY <2>1, NotAwarded
  <2>7. \A p \in Products : ProductPaid(p)'
    BY <2>1, <2>5, <2>6, ProductStays DEF LInv
  <2>8. UpdatesPaid' /\ ConfirmationsPaid'
    <3>1. \A k : Updates(k)' = Updates(k) /\ ConfirmationsOf(k)' = ConfirmationsOf(k)
      BY <2>1 DEF Updates, ConfirmationsOf
    <3> QED BY <2>6, <3>1, UpdatesStay, ConfirmationsStay DEF LInv
  <2> QED BY <2>1, <2>5, <2>7, <2>8 DEF LInv
<1>3. CASE Propose(r)
  <2>1. req[r].obj \in Merges /\ req[r].obj.status = "PENDING"
    BY <1>3 DEF Propose, Holds, IInv, Sound, SoundReview, CInv, Careful, CarefulRead
  <2>2. PICK m \in MergeIds : merge[m] = Null /\ merge' = [merge EXCEPT ![m] = req[r].obj]
    BY <1>3 DEF Propose
  <2>3. UNCHANGED <<product, history, confirmations, awards, raced>>
    BY <1>3 DEF Propose, pricingTables
  <2>4. \A b, j : Points(b, j)' = Points(b, j)
    BY <2>3, NotAwarded
  <2>5. \A p \in Products : ProductPaid(p)'
    BY <2>3, <2>4, ProductStays DEF LInv
  <2>6. UpdatesPaid' /\ ConfirmationsPaid'
    <3>1. \A k : Updates(k)' = Updates(k) /\ ConfirmationsOf(k)' = ConfirmationsOf(k)
      BY <2>3 DEF Updates, ConfirmationsOf
    <3> QED BY <2>4, <3>1, UpdatesStay, ConfirmationsStay DEF LInv
  <2>7. DOMAIN merge = MergeIds
    BY DEF IInv, Domains
  <2>8. ASSUME NEW n \in MergeIds PROVE MergePaid(n)'
    <3>1. CASE n # m
      BY <2>2, <2>3, <2>4, <2>7, <3>1, MergeStays DEF LInv
    <3>2. CASE n = m
      <4>1. Points("REPORT_DUPLICATE_APPROVED", n) = 0 /\ <<"merge", n>> \notin raced
        BY <2>2, <3>2 DEF LInv, MergePaid
      <4>2. merge'[n] = req[r].obj /\ req[r].obj # Null
        BY <2>1, <2>2, <2>7, <3>2
      <4> QED BY <2>1, <2>3, <2>4, <4>1, <4>2 DEF MergePaid
    <3> QED BY <3>1, <3>2
  <2> QED BY <2>3, <2>5, <2>6, <2>8 DEF LInv
<1> QED BY <1>1, <1>2, <1>3

LEMMA CommitsPaid ==
  ASSUME IInv, CInv, LInv, NEW r \in Requests, CommitMerge(r)
  PROVE  LInv'
<1> DEFINE obj == req[r].obj
<1>1. /\ obj.target \in Products /\ obj.id \in MergeIds /\ merge[obj.id] # Null
      /\ obj.from \subseteq ListingIds /\ obj.to \subseteq ListingIds /\ obj.from \cap obj.to = {}
      /\ \A i \in obj.from : obj.shown[i] \in Prices
      /\ obj.was = "PENDING" /\ req[r].kind = "merge"
  BY DEF CommitMerge, IInv, Sound, SoundMerge, CInv, Careful, CarefulMerge
<1>2. CASE MergeFails(obj)
  <2>1. UNCHANGED <<product, history, confirmations, awards, merge, raced>>
    BY <1>2 DEF CommitMerge, pricingTables, catalogVars
  <2> QED BY <2>1, LedgerStays DEF Updates, ConfirmationsOf
<1>3. CASE ~MergeFails(obj)
  <2>1. /\ CASE obj.from = {} -> UNCHANGED pricingTables
             [] obj.from # {} /\ obj.to = {} ->
                  /\ listing' = [i \in ListingIds |-> IF i \in obj.from
                                    THEN [listing[i] EXCEPT !.product = obj.target] ELSE listing[i]]
                  /\ UNCHANGED <<initial, history, confirmations>>
             [] OTHER -> \E i \in obj.from, j \in obj.to : MergeListing(i, j, obj.shown[i])
        /\ product' = IF obj.merged THEN product ELSE [product EXCEPT ![obj.source] = "MERGED"]
        /\ merge' = [merge EXCEPT ![obj.id].status = "APPROVED"]
        /\ Award("REPORT_DUPLICATE_APPROVED", obj.id)
        /\ Races(r)
    BY <1>3 DEF CommitMerge
  <2>2. obj.from # {} => \A j \in obj.to : listing[j] # Null
    BY <1>3 DEF MergeFails
  <2>3. /\ merge[obj.id].status = "PENDING" \/ <<"merge", obj.id>> \in raced'
        /\ raced' = raced \/ raced' = raced \cup {<<"merge", obj.id>>}
    BY <1>1, <2>1 DEF Races, StatusOf
  <2> HIDE DEF obj
  <2>4. PICK s \in Verdicts : s = "APPROVED"
    BY DEF Verdicts
  <2>5. /\ awards' \in [DOMAIN awards' -> Nat]
        /\ \A b, j : b # "REPORT_DUPLICATE_APPROVED" => Points(b, j)' = Points(b, j)
        /\ \A p : <<"product", p>> \in raced' <=> <<"product", p>> \in raced
        /\ \A m \in MergeIds : MergePaid(m)'
    BY <1>1, <2>1, <2>3, <2>4, MergeIsPaid
  <2>6. \A k : Updates(k)' = Updates(k) /\ ConfirmationsOf(k)' = ConfirmationsOf(k)
    <3>1. CASE obj.from = {} \/ obj.to = {}
      <4>1. UNCHANGED <<history, confirmations>>
        BY <2>1, <3>1 DEF pricingTables
      <4> QED BY <4>1 DEF Updates, ConfirmationsOf
    <3>2. CASE obj.from # {} /\ obj.to # {}
      <4>1. PICK i \in obj.from, j \in obj.to : MergeListing(i, j, obj.shown[i])
        BY <2>1, <3>2
      <4>2. i \in ListingIds /\ j \in ListingIds /\ i # j /\ listing[j] # Null /\ obj.shown[i] \in Prices
        BY <1>1, <2>2, <3>2
      <4> QED BY <4>1, <4>2, MergerTold DEF CInv
    <3> QED BY <3>1, <3>2
  <2>7. UpdatesPaid' /\ ConfirmationsPaid'
    BY <2>5, <2>6, UpdatesStay, ConfirmationsStay DEF LInv
  <2>8. ASSUME NEW p \in Products PROVE ProductPaid(p)'
    <3>1. Points("CREATE_PRODUCT_APPROVED", p)' = Points("CREATE_PRODUCT_APPROVED", p)
      BY <2>5
    <3>2. product'[p] = product[p] \/ product'[p] = "MERGED"
      BY <2>1 DEF CInv, Tables
    <3>3. CASE product'[p] = product[p]
      BY <2>5, <3>1, <3>3, ProductStays DEF LInv
    <3>4. CASE product'[p] = "MERGED"
      <4>1. <<"product", p>> \notin raced => Points("CREATE_PRODUCT_APPROVED", p) <= 1
        BY DEF LInv, ProductPaid
      <4> QED BY <2>5, <3>1, <3>4, <4>1 DEF ProductPaid
    <3> QED BY <3>2, <3>3, <3>4
  <2> QED BY <2>5, <2>7, <2>8 DEF LInv
<1> QED BY <1>2, <1>3

LEMMA LInvInit ==
  ASSUME Init
  PROVE  LInv
<1> DEFINE approved == {p \in Products : product[p] = "APPROVED"}
           merged == {m \in MergeIds : merge[m] # Null /\ merge[m].status = "APPROVED"}
           given == {<<"CREATE_PRODUCT_APPROVED", p>> : p \in approved}
                    \cup {<<"REPORT_DUPLICATE_APPROVED", m>> : m \in merged}
<1>1. PICK s \in Scenarios : /\ PricingInit(s) /\ awards = SetToBag(given) /\ raced = {}
                             /\ merge = s.merge
  BY DEF Init
<1>2. history = <<>> /\ confirmations = <<>>
  BY <1>1 DEF PricingInit
<1>3. \A b, j : Points(b, j) = IF <<b, j>> \in given THEN 1 ELSE 0
  BY <1>1 DEF Points, BagIn, BagToSet, SetToBag
<1>4. awards \in [DOMAIN awards -> Nat]
  BY <1>1 DEF SetToBag
<1>5. /\ \A j : <<"UPDATE_PRICE", j>> \notin given /\ <<"CONFIRM_PRICE", j>> \notin given
      /\ \A p : <<"CREATE_PRODUCT_APPROVED", p>> \in given <=> p \in approved
      /\ \A m : <<"REPORT_DUPLICATE_APPROVED", m>> \in given <=> m \in merged
  OBVIOUS
<1>6. UpdatesPaid /\ ConfirmationsPaid
  <2>1. \A i : Updates(i) = {} /\ ConfirmationsOf(i) = {}
    BY <1>2 DEF Updates, ConfirmationsOf
  <2> QED BY <1>3, <1>5, <2>1, FS_EmptySet DEF UpdatesPaid, ConfirmationsPaid
<1>7. \A p \in Products : ProductPaid(p)
  BY <1>1, <1>3, <1>5 DEF ProductPaid
<1>8. \A m \in MergeIds : MergePaid(m)
  BY <1>1, <1>3, <1>5 DEF MergePaid
<1> QED BY <1>4, <1>6, <1>7, <1>8 DEF LInv

LEMMA LInvNext ==
  ASSUME IInv, CInv, LInv, [Next]_vars
  PROVE  LInv'
<1>1. CASE UNCHANGED vars
  <2>1. UNCHANGED <<awards, product, history, confirmations, merge, raced>>
    BY <1>1 DEF vars, pricingVars, catalogVars
  <2> QED BY <2>1, LedgerStays DEF Updates, ConfirmationsOf
<1>2. ASSUME NEW r \in Requests,
             \/ ReadToAttach(r) \/ Attach(r) \/ ReadEntry(r) \/ Report(r) \/ Move(r)
             \/ ReadReview(r) \/ ReadToPropose(r) \/ GatherMerge(r)
      PROVE  LInv'
  <2>1. UNCHANGED <<awards, product, history, confirmations, merge, raced>>
    BY <1>2 DEF ReadToAttach, Attach, ReadEntry, Report, Move, ReadReview, ReadToPropose, GatherMerge,
       pricingTables, catalogVars
  <2> QED BY Zenon, <2>1, LedgerStays DEF Updates, ConfirmationsOf
<1>3. CASE Next
  BY <1>2, <1>3, PricingPaid, ProductsArePaid, ProposalsPaid, CommitsPaid DEF Next
<1> QED BY <1>1, <1>3

\* The points in the ledger are those the tables account for: one award for each
\* price the community updated or confirmed, through every merge, and one for each
\* product and merge approved, unless two reviews of it overlapped (award_reputation
\* is called beside the write it rewards, and nothing keeps it from a second call).
THEOREM LedgerIsTrue == Spec => []LedgerMatches
<1>1. IInv /\ CInv /\ LInv /\ [Next]_vars => LInv'
  BY LInvNext
<1>2. LInv => LedgerMatches
  <2>1. LInv => \A i \in ListingIds :
          Points("UPDATE_PRICE", i) =
            Cardinality({n \in DOMAIN history : history[n].of = i /\ history[n].by = "update"})
    BY DEF LInv, UpdatesPaid, Updates
  <2>2. LInv => \A i \in ListingIds :
          Points("CONFIRM_PRICE", i) = Cardinality({n \in DOMAIN confirmations : confirmations[n].of = i})
    BY DEF LInv, ConfirmationsPaid, ConfirmationsOf
  <2>3. LInv => \A p \in Products : <<"product", p>> \notin raced =>
          /\ Points("CREATE_PRODUCT_APPROVED", p) <= 1
          /\ product[p] = "APPROVED" => Points("CREATE_PRODUCT_APPROVED", p) = 1
          /\ product[p] \in {"PENDING", "REJECTED"} => Points("CREATE_PRODUCT_APPROVED", p) = 0
    BY DEF LInv, ProductPaid
  <2>4. LInv => \A m \in MergeIds : merge[m] # Null /\ <<"merge", m>> \notin raced =>
          Points("REPORT_DUPLICATE_APPROVED", m) = IF merge[m].status = "APPROVED" THEN 1 ELSE 0
    BY DEF LInv, MergePaid
  <2> QED BY <2>1, <2>2, <2>3, <2>4 DEF LedgerMatches
<1> QED BY <1>1, <1>2, LInvInit, Invariant, CarefulInvariant, PTL DEF Spec
=============================================================================
