---------------------- MODULE ShoppingListItems_proofs ----------------------
(* What the item handlers guarantee, for every workload, every number of    *)
(* requests and every set of products, branches and prices.                *)
EXTENDS ShoppingListItems, TLAPS

USE ConstantsAssumption

LEMMA NoRowType == NoRow \in Row
  BY DEF NoRow, Row, OrNull

LEMMA NoRequestType == NoRequest \in Request
  BY NoRowType DEF NoRequest, Request, OrNull, Phases

LEMMA AnswerType ==
  ASSUME NEW q \in Request, NEW result \in Results, NEW body \in Nat
  PROVE  Answer(q, result, body) \in Request
<1>1. PICK b \in Request : b = NoRequest
  BY NoRequestType
<1>2. PICK p \in Request : p = [b EXCEPT !.pc = "done", !.kind = q.kind, !.item = q.item]
  BY DEF Request, Phases
<1>3. PICK d \in Request : d = [p EXCEPT !.crid = q.crid, !.expected = q.expected]
  BY DEF Request
<1>4. [d EXCEPT !.result = result, !.body = body] \in Request
  <2>1. result \in OrNull(Results)
    BY DEF OrNull
  <2> QED BY <2>1 DEF Request
<1> QED BY <1>1, <1>2, <1>3, <1>4 DEF Answer

LEMMA CommittedType ==
  ASSUME NEW q \in Request, NEW i \in 0..MaxItems, NEW o \in Row
  PROVE  Committed(q, i, o) \in Request
  BY DEF Committed, Request, Phases

LEMMA RowWithCapture ==
  ASSUME NEW o \in Row, NEW n \in Nat, NEW v \in Nat,
         NEW b \in OrNull(Branches), NEW p \in OrNull(Nat)
  PROVE  [o EXCEPT !.quantity = n, !.version = v,
                   !.capturedBranch = b, !.capturedPrice = p] \in Row
  BY DEF Row

LEMMA MergedType ==
  ASSUME NEW q \in Request, q.quantity \in Nat
  PROVE  Merged(q) \in Row
<1>1. /\ q.obj \in Row
      /\ q.obj.quantity + q.quantity \in Nat
      /\ q.obj.version + 1 \in Nat
      /\ (IF q.price = Null THEN q.obj.capturedBranch ELSE q.branch) \in OrNull(Branches)
      /\ (IF q.price = Null THEN q.obj.capturedPrice ELSE q.price) \in OrNull(Nat)
  BY DEF Request, Row
<1> QED BY <1>1, RowWithCapture DEF Merged

LEMMA FlushedType ==
  ASSUME NEW q \in Request, q.quantity \in Nat, NEW old \in Row
  PROVE  Flushed(q, old) \in Row
<1> DEFINE new == Merged(q)
<1>1. new \in Row
  BY MergedType
<1>2. /\ (IF new.quantity = q.obj.quantity THEN old.quantity ELSE new.quantity) \in Nat
      /\ new.version \in Nat
      /\ (IF new.capturedBranch = q.obj.capturedBranch THEN old.capturedBranch
          ELSE new.capturedBranch) \in OrNull(Branches)
      /\ (IF new.capturedPrice = q.obj.capturedPrice THEN old.capturedPrice
          ELSE new.capturedPrice) \in OrNull(Nat)
  BY <1>1 DEF Row
<1> HIDE DEF new
<1>3. [old EXCEPT
          !.quantity = IF new.quantity = q.obj.quantity THEN old.quantity ELSE new.quantity,
          !.version = new.version,
          !.capturedBranch = IF new.capturedBranch = q.obj.capturedBranch THEN old.capturedBranch
                             ELSE new.capturedBranch,
          !.capturedPrice = IF new.capturedPrice = q.obj.capturedPrice THEN old.capturedPrice
                            ELSE new.capturedPrice] \in Row
  BY <1>2, RowWithCapture
<1> QED BY <1>3 DEF Flushed, new

LEMMA WrittenType ==
  ASSUME NEW q \in Request, NEW old \in Row
  PROVE  Written(q, old) \in Row
<1> DEFINE n == IF q.quantity = Null THEN old.quantity ELSE q.quantity
           c == IF q.checked = Null THEN old.checked ELSE q.checked
           d == IF TakesSnapshot(q) THEN TRUE ELSE IF DropsSnapshot(q) THEN FALSE ELSE old.checkedAt
           s == IF TakesSnapshot(q) THEN q.branch ELSE IF DropsSnapshot(q) THEN Null
                ELSE old.storeBranch
           a == IF TakesSnapshot(q) THEN q.price ELSE IF DropsSnapshot(q) THEN Null
                ELSE old.priceAtCheck
           b == IF q.kind = "capture" THEN q.target ELSE old.capturedBranch
           p == IF q.kind = "capture" THEN q.price ELSE old.capturedPrice
<1>1. n \in Nat
  BY DEF Request, Row, OrNull
<1>2. c \in BOOLEAN
  BY DEF Request, Row, OrNull
<1>3. d \in BOOLEAN
  BY DEF Row
<1>4. s \in OrNull(Branches) /\ a \in OrNull(Nat)
  BY DEF Request, Row, OrNull
<1>5. b \in OrNull(Branches) /\ p \in OrNull(Nat)
  BY DEF Request, Row
<1>6. old.version + 1 \in Nat
  BY DEF Row
<1>7. Written(q, old) = [old EXCEPT !.version = old.version + 1, !.quantity = n, !.checked = c,
                                    !.checkedAt = d, !.storeBranch = s, !.priceAtCheck = a,
                                    !.capturedBranch = b, !.capturedPrice = p]
  BY DEF Written
<1> HIDE DEF n, c, d, s, a, b, p
<1>8. [old EXCEPT !.version = old.version + 1, !.quantity = n, !.checked = c,
                  !.checkedAt = d, !.storeBranch = s, !.priceAtCheck = a,
                  !.capturedBranch = b, !.capturedPrice = p] \in Row
  BY <1>1, <1>2, <1>3, <1>4, <1>5, <1>6 DEF Row
<1> QED BY <1>7, <1>8
-----------------------------------------------------------------------------
(* Type correctness                                                        *)

LEMMA AddCallType ==
  ASSUME NEW p \in Products, NEW n \in Quantities, NEW c \in OrNull(ClientRequestIds)
  PROVE  [NoRequest EXCEPT !.kind = "add", !.product = p, !.quantity = n, !.crid = c] \in Request
<1>1. "add" \in OrNull(AllKinds) /\ p \in OrNull(Products) /\ n \in OrNull(Quantities)
  BY DEF OrNull, AllKinds
<1> QED BY <1>1, NoRequestType DEF Request

LEMMA UpdateCallType ==
  ASSUME NEW i \in ItemIds, NEW v \in Nat, NEW n \in OrNull(Quantities), NEW c \in OrNull(BOOLEAN)
  PROVE  [NoRequest EXCEPT !.kind = "update", !.item = i, !.expected = v,
                           !.quantity = n, !.checked = c] \in Request
<1>1. "update" \in OrNull(AllKinds) /\ i \in 0..MaxItems
  BY DEF ItemIds, OrNull, AllKinds
<1> QED BY <1>1, NoRequestType DEF Request

LEMMA CaptureCallType ==
  ASSUME NEW i \in ItemIds, NEW v \in Nat, NEW b \in Branches, NEW p \in Products, NEW w \in Nat
  PROVE  [NoRequest EXCEPT !.kind = "capture", !.item = i, !.expected = v,
                           !.target = b, !.product = p, !.listingVersion = w] \in Request
<1>1. /\ "capture" \in OrNull(AllKinds) /\ i \in 0..MaxItems
      /\ b \in OrNull(Branches) /\ p \in OrNull(Products)
  BY DEF ItemIds, OrNull, AllKinds
<1> QED BY <1>1, NoRequestType DEF Request

LEMMA DeleteCallType ==
  ASSUME NEW i \in ItemIds
  PROVE  [NoRequest EXCEPT !.kind = "delete", !.item = i] \in Request
<1>1. i \in 0..MaxItems
  BY DEF ItemIds
<1> QED BY <1>1, NoRequestType DEF Request, OrNull, AllKinds

LEMMA BranchCallType ==
  ASSUME NEW b \in OrNull(Branches)
  PROVE  [NoRequest EXCEPT !.kind = "branch", !.target = b] \in Request
BY NoRequestType DEF Request, OrNull, AllKinds

\* A step that moves one request on and leaves the tables alone.
LEMMA ProgressType ==
  ASSUME TypeInv, NEW r \in Requests, NEW q \in Request, WellFormed(q),
         req' = [req EXCEPT ![r] = q], UNCHANGED <<listVars, rowVars, listingVars>>
  PROVE  TypeInv'
<1>1. TypeOK'
  BY DEF TypeInv, TypeOK, listVars, rowVars, listingVars
<1>2. ASSUME NEW s \in Requests PROVE WellFormed(req[s])'
  <2>1. req'[s] = IF s = r THEN q ELSE req[s]
    BY DEF TypeInv, TypeOK
  <2> QED BY <2>1 DEF TypeInv, WellFormed, InFlight
<1>3. ASSUME NEW i \in live' PROVE row'[i].product \in Products
  BY <1>3 DEF TypeInv, rowVars
<1> QED BY <1>1, <1>2, <1>3 DEF TypeInv

LEMMA ReplyType ==
  ASSUME TypeInv, NEW r \in Requests, NEW result \in Results, NEW body \in Nat,
         Reply(r, result, body), UNCHANGED <<listVars, rowVars, listingVars>>
  PROVE  TypeInv'
<1> DEFINE a == Answer(req[r], result, body)
<1>1. a \in Request
  BY AnswerType DEF TypeInv, TypeOK
<1>2. WellFormed(a)
  BY DEF Answer, NoRequest, WellFormed, InFlight
<1> HIDE DEF a
<1>3. req' = [req EXCEPT ![r] = a]
  BY DEF Reply, a
<1> QED BY <1>1, <1>2, <1>3, ProgressType

LEMMA AuthorizeType ==
  ASSUME TypeInv, NEW r \in Requests, NEW u \in Users, NEW call \in Request,
         WellFormed([call EXCEPT !.pc = "authorized"]),
         Authorize(r, u, call)
  PROVE  TypeInv'
<1> DEFINE denied(result) == Answer(call, result, 0)
           passed == [call EXCEPT !.pc = "authorized", !.branch = activeBranch]
<1>1. denied("not_found") \in Request /\ denied("denied") \in Request
  BY AnswerType DEF Results
<1>2. WellFormed(denied("not_found")) /\ WellFormed(denied("denied"))
  BY DEF Answer, NoRequest, WellFormed, InFlight
<1>3. passed \in Request
  BY DEF TypeInv, TypeOK, Request, Phases
<1>4. WellFormed(passed)
  BY DEF WellFormed, InFlight, Request
<1>5. UNCHANGED <<listVars, rowVars, listingVars>>
  BY DEF Authorize
<1>6. PICK q \in {denied("not_found"), denied("denied"), passed} : req' = [req EXCEPT ![r] = q]
  BY DEF Authorize, CanEditItems
<1> HIDE DEF denied, passed
<1> QED BY <1>1, <1>2, <1>3, <1>4, <1>5, <1>6, ProgressType

LEMMA AddStartType ==
  ASSUME TypeInv, NEW r \in Requests, AddStart(r)
  PROVE  TypeInv'
<1>1. PICK u \in Users, p \in Products, n \in Quantities, c \in OrNull(ClientRequestIds) :
        Authorize(r, u, [NoRequest EXCEPT !.kind = "add", !.product = p,
                                          !.quantity = n, !.crid = c])
  BY DEF AddStart
<1> DEFINE call == [NoRequest EXCEPT !.kind = "add", !.product = p, !.quantity = n, !.crid = c]
<1>2. call \in Request
  BY AddCallType
<1>3. WellFormed([call EXCEPT !.pc = "authorized"])
  BY DEF WellFormed, NoRequest
<1> HIDE DEF call
<1> QED BY <1>1, <1>2, <1>3, AuthorizeType DEF call

LEMMA UpdateStartType ==
  ASSUME TypeInv, NEW r \in Requests, UpdateStart(r)
  PROVE  TypeInv'
<1>0. PICK u \in Users, i \in ItemIds, n \in OrNull(Quantities), c \in OrNull(BOOLEAN) :
        \E v \in KnownVersions(i) :
          Authorize(r, u, [NoRequest EXCEPT !.kind = "update", !.item = i,
                                            !.expected = v, !.quantity = n, !.checked = c])
  BY DEF UpdateStart
<1>1. PICK v \in KnownVersions(i) :
        Authorize(r, u, [NoRequest EXCEPT !.kind = "update", !.item = i,
                                          !.expected = v, !.quantity = n, !.checked = c])
  BY <1>0
<1> DEFINE call == [NoRequest EXCEPT !.kind = "update", !.item = i,
                                     !.expected = v, !.quantity = n, !.checked = c]
<1>2. v \in Nat
  BY DEF KnownVersions, TypeInv, TypeOK
<1>3. call \in Request
  BY <1>2, UpdateCallType
<1>4. WellFormed([call EXCEPT !.pc = "authorized"])
  BY DEF WellFormed, NoRequest
<1> HIDE DEF call
<1> QED BY <1>1, <1>3, <1>4, AuthorizeType DEF call

LEMMA CaptureStartType ==
  ASSUME TypeInv, NEW r \in Requests, CaptureStart(r)
  PROVE  TypeInv'
<1>0. PICK u \in Users, i \in ItemIds, b \in Branches, p \in Products :
        \E v \in KnownVersions(i), w \in 1..listing[<<b, p>>].version :
          Authorize(r, u, [NoRequest EXCEPT !.kind = "capture", !.item = i, !.expected = v,
                                            !.target = b, !.product = p, !.listingVersion = w])
  BY DEF CaptureStart
<1>1. PICK v \in KnownVersions(i), w \in 1..listing[<<b, p>>].version :
        Authorize(r, u, [NoRequest EXCEPT !.kind = "capture", !.item = i, !.expected = v,
                                          !.target = b, !.product = p, !.listingVersion = w])
  BY <1>0
<1> DEFINE call == [NoRequest EXCEPT !.kind = "capture", !.item = i, !.expected = v,
                                     !.target = b, !.product = p, !.listingVersion = w]
<1>2. v \in Nat
  BY DEF KnownVersions, TypeInv, TypeOK
<1>3. listing[<<b, p>>] \in Listing
  BY DEF TypeInv, TypeOK, Listings
<1>4. w \in Nat
  BY <1>3 DEF Listing
<1>5. call \in Request
  BY <1>2, <1>4, CaptureCallType
<1>6. WellFormed([call EXCEPT !.pc = "authorized"])
  BY DEF WellFormed, NoRequest
<1> HIDE DEF call
<1> QED BY <1>1, <1>5, <1>6, AuthorizeType DEF call

LEMMA DeleteStartType ==
  ASSUME TypeInv, NEW r \in Requests, DeleteStart(r)
  PROVE  TypeInv'
<1>1. PICK u \in Users, i \in ItemIds :
        Authorize(r, u, [NoRequest EXCEPT !.kind = "delete", !.item = i])
  BY DEF DeleteStart
<1> DEFINE call == [NoRequest EXCEPT !.kind = "delete", !.item = i]
<1>2. call \in Request
  BY DeleteCallType
<1>3. WellFormed([call EXCEPT !.pc = "authorized"])
  BY DEF WellFormed, NoRequest
<1> HIDE DEF call
<1> QED BY <1>1, <1>2, <1>3, AuthorizeType DEF call

LEMMA BranchStartType ==
  ASSUME TypeInv, NEW r \in Requests, BranchStart(r)
  PROVE  TypeInv'
<1>1. PICK u \in Users, b \in OrNull(Branches) :
        Authorize(r, u, [NoRequest EXCEPT !.kind = "branch", !.target = b])
  BY DEF BranchStart
<1> DEFINE call == [NoRequest EXCEPT !.kind = "branch", !.target = b]
<1>2. call \in Request
  BY BranchCallType
<1>3. WellFormed([call EXCEPT !.pc = "authorized"])
  BY DEF WellFormed, NoRequest
<1> HIDE DEF call
<1> QED BY <1>1, <1>2, <1>3, AuthorizeType DEF call

LEMMA ListingType ==
  ASSUME TypeInv, NEW b \in Branches, NEW p \in Products
  PROVE  listing[<<b, p>>].price \in Nat
<1>1. listing[<<b, p>>] \in Listing
  BY DEF TypeInv, TypeOK, Listings
<1> QED BY <1>1 DEF Listing

LEMMA ItemType ==
  ASSUME TypeInv, NEW i \in ItemIds
  PROVE  /\ i \in 0..MaxItems
         /\ row[i] \in Row
         /\ row[i].version \in Nat
         /\ row[i].capturedBranch \in OrNull(Branches)
         /\ row[i].capturedPrice \in OrNull(Nat)
<1>1. i \in 0..MaxItems
  BY DEF ItemIds
<1>2. row[i] \in Row
  BY DEF TypeInv, TypeOK
<1> QED BY <1>1, <1>2 DEF Row

LEMMA SnapshotType ==
  ASSUME TypeInv, NEW i \in live, NEW b \in OrNull(Branches)
  PROVE  SnapshotBranch(row[i], b) \in OrNull(Branches) /\ SnapshotPrice(row[i], b) \in OrNull(Nat)
<1>1. i \in ItemIds /\ row[i].product \in Products
  BY DEF TypeInv, TypeOK
<1>2. SnapshotBranch(row[i], b) \in OrNull(Branches)
  BY <1>1, ItemType DEF SnapshotBranch, OrElse
<1>3. ASSUME NEW c \in OrNull(Branches) PROVE PriceAtBranch(row[i].product, c) \in OrNull(Nat)
  BY <1>1, ListingType DEF PriceAtBranch, OrNull
<1>4. SnapshotPrice(row[i], b) \in OrNull(Nat)
  BY <1>1, <1>2, <1>3, ItemType DEF SnapshotPrice, OrElse
<1> QED BY <1>2, <1>4

\* What the requests become when they have read what they need.
LEMMA ToInsertType ==
  ASSUME TypeInv, NEW q \in Request, WellFormed(q), q.pc = "authorized", q.kind = "add"
  PROVE  /\ AdoptedPrice(q) \in OrNull(Nat)
         /\ ToInsert(q) \in Request /\ WellFormed(ToInsert(q))
<1>1. q.product \in Products /\ q.branch \in OrNull(Branches)
  BY DEF WellFormed, InFlight, Request
<1>2. AdoptedPrice(q) \in OrNull(Nat)
  BY <1>1, ListingType DEF AdoptedPrice, OrNull
<1>3. ToInsert(q) \in Request
  BY <1>2 DEF ToInsert, Request, Phases
<1>4. WellFormed(ToInsert(q))
  BY DEF WellFormed, InFlight, ToInsert, Request
<1> QED BY <1>2, <1>3, <1>4

LEMMA ToMergeType ==
  ASSUME TypeInv, NEW q \in Request, WellFormed(q), q.pc = "authorized", q.kind = "add",
         NEW i \in live
  PROVE  ToMerge(q, i) \in Request /\ WellFormed(ToMerge(q, i))
<1>1. AdoptedPrice(q) \in OrNull(Nat)
  BY ToInsertType
<1>2. i \in ItemIds /\ i \in 0..MaxItems /\ row[i] \in Row
  BY ItemType DEF TypeInv, TypeOK
<1>3. ToMerge(q, i) \in Request
  BY <1>1, <1>2 DEF ToMerge, Request, Phases
<1>4. WellFormed(ToMerge(q, i))
  BY <1>2 DEF WellFormed, InFlight, ToMerge, Request
<1> QED BY <1>3, <1>4

LEMMA ToWriteType ==
  ASSUME TypeInv, NEW q \in Request, WellFormed(q), q.pc = "authorized",
         q.kind \in {"update", "delete"}
  PROVE  ToWrite(q) \in Request /\ WellFormed(ToWrite(q))
<1>1. row[q.item] \in Row
  BY ItemType DEF WellFormed, InFlight
<1>2. ToWrite(q) \in Request
  BY ZenonT(40), SMTT(30), <1>1 DEF ToWrite, Request, Phases, OrNull
<1>3. WellFormed(ToWrite(q))
  BY DEF WellFormed, InFlight, ToWrite, Request
<1> QED BY <1>2, <1>3

LEMMA ToCheckType ==
  ASSUME TypeInv, NEW q \in Request, WellFormed(q), q.pc = "authorized", q.kind = "update",
         q.item \in live
  PROVE  ToCheck(q) \in Request /\ WellFormed(ToCheck(q))
<1>1. row[q.item] \in Row
  BY ItemType DEF WellFormed, InFlight
<1>2. q.branch \in OrNull(Branches)
  BY DEF Request
<1>3. /\ SnapshotBranch(row[q.item], q.branch) \in OrNull(Branches)
      /\ SnapshotPrice(row[q.item], q.branch) \in OrNull(Nat)
  BY <1>2, SnapshotType
<1>4. ToCheck(q) \in Request
  BY <1>1, <1>3 DEF ToCheck, Request, Phases
<1>5. WellFormed(ToCheck(q))
  BY DEF WellFormed, InFlight, ToCheck, Request
<1> QED BY <1>4, <1>5

LEMMA ToCaptureType ==
  ASSUME TypeInv, NEW q \in Request, WellFormed(q), q.pc = "authorized", q.kind = "capture"
  PROVE  ToCapture(q) \in Request /\ WellFormed(ToCapture(q))
<1>1. row[q.item] \in Row
  BY ItemType DEF WellFormed, InFlight
<1>2. listing[<<q.target, q.product>>].price \in OrNull(Nat)
  BY ListingType DEF WellFormed, InFlight, OrNull
<1>3. ToCapture(q) \in Request
  BY <1>1, <1>2 DEF ToCapture, Request, Phases
<1>4. WellFormed(ToCapture(q))
  BY DEF WellFormed, InFlight, ToCapture, Request
<1> QED BY <1>3, <1>4

LEMMA RequestType ==
  ASSUME TypeInv, NEW r \in Requests
  PROVE  req[r] \in Request /\ WellFormed(req[r])
BY DEF TypeInv, TypeOK

LEMMA CommittedOK ==
  ASSUME NEW q \in Request, NEW i \in 0..MaxItems, NEW o \in Row
  PROVE  Committed(q, i, o) \in Request /\ WellFormed(Committed(q, i, o))
<1>1. WellFormed(Committed(q, i, o))
  BY DEF WellFormed, InFlight, Committed, Request
<1> QED BY <1>1, CommittedType

LEMMA AddReadType ==
  ASSUME TypeInv, NEW r \in Requests, AddRead(r)
  PROVE  TypeInv'
<1>1. /\ req[r] \in Request /\ WellFormed(req[r])
      /\ req[r].pc = "authorized" /\ req[r].kind = "add"
      /\ UNCHANGED <<listVars, rowVars, listingVars>>
  BY RequestType DEF AddRead
<1>2. CASE req' = [req EXCEPT ![r] = ToInsert(req[r])]
  BY <1>1, <1>2, ToInsertType, ProgressType
<1>3. ASSUME NEW i \in live, req' = [req EXCEPT ![r] = ToMerge(req[r], i)] PROVE TypeInv'
  BY <1>1, <1>3, ToMergeType, ProgressType
<1>4. ASSUME NEW i \in live, req' = [req EXCEPT ![r] = Committed(req[r], i, row[i])] PROVE TypeInv'
  <2>1. i \in 0..MaxItems /\ row[i] \in Row
    BY ItemType DEF TypeInv, TypeOK
  <2> QED BY <1>1, <1>4, <2>1, CommittedOK, ProgressType
<1>5. CASE Reply(r, "error", 0)
  BY <1>1, <1>5, ReplyType DEF Results
<1> QED BY <1>2, <1>3, <1>4, <1>5 DEF AddRead, RowsWithRequestId, RowsWithProduct

LEMMA UpdateReadType ==
  ASSUME TypeInv, NEW r \in Requests, UpdateRead(r)
  PROVE  TypeInv'
<1>1. /\ req[r] \in Request /\ WellFormed(req[r])
      /\ req[r].pc = "authorized" /\ req[r].kind = "update"
      /\ UNCHANGED <<listVars, rowVars, listingVars>>
  BY RequestType DEF UpdateRead
<1>2. CASE Reply(r, "not_found", 0)
  BY <1>1, <1>2, ReplyType DEF Results
<1>3. CASE req' = [req EXCEPT ![r] = ToWrite(req[r])]
  BY <1>1, <1>3, ToWriteType, ProgressType
<1>4. CASE req[r].item \in live /\ req' = [req EXCEPT ![r] = ToCheck(req[r])]
  BY <1>1, <1>4, ToCheckType, ProgressType
<1> QED BY <1>2, <1>3, <1>4 DEF UpdateRead

LEMMA CaptureReadType ==
  ASSUME TypeInv, NEW r \in Requests, CaptureRead(r)
  PROVE  TypeInv'
<1>1. /\ req[r] \in Request /\ WellFormed(req[r])
      /\ req[r].pc = "authorized" /\ req[r].kind = "capture"
      /\ UNCHANGED <<listVars, rowVars, listingVars>>
  BY RequestType DEF CaptureRead
<1>2. req[r].item \in ItemIds
  BY <1>1 DEF WellFormed, InFlight
<1>3. CASE Reply(r, "not_found", 0)
  BY <1>1, <1>3, ReplyType DEF Results
<1>4. CASE Reply(r, "conflict", row[req[r].item].version)
  BY <1>1, <1>2, <1>4, ItemType, ReplyType DEF Results
<1>5. CASE req' = [req EXCEPT ![r] = ToCapture(req[r])]
  BY <1>1, <1>5, ToCaptureType, ProgressType
<1> QED BY <1>3, <1>4, <1>5 DEF CaptureRead

LEMMA DeleteReadType ==
  ASSUME TypeInv, NEW r \in Requests, DeleteRead(r)
  PROVE  TypeInv'
<1>1. /\ req[r] \in Request /\ WellFormed(req[r])
      /\ req[r].pc = "authorized" /\ req[r].kind = "delete"
      /\ UNCHANGED <<listVars, rowVars, listingVars>>
  BY RequestType DEF DeleteRead
<1>2. CASE Reply(r, "ok", 0)
  BY <1>1, <1>2, ReplyType DEF Results
<1>3. CASE req' = [req EXCEPT ![r] = ToWrite(req[r])]
  BY <1>1, <1>3, ToWriteType, ProgressType
<1> QED BY <1>2, <1>3 DEF DeleteRead

LEMMA RequestsType ==
  ASSUME TypeInv, NEW r \in Requests, NEW q \in Request, WellFormed(q),
         req' = [req EXCEPT ![r] = q]
  PROVE  req' \in [Requests -> Request] /\ \A s \in Requests : WellFormed(req'[s])
<1>1. req \in [Requests -> Request] /\ \A s \in Requests : WellFormed(req[s])
  BY DEF TypeInv, TypeOK
<1> QED BY <1>1

\* A step that writes one row.
LEMMA RowStepType ==
  ASSUME TypeInv, NEW r \in Requests, NEW q \in Request, WellFormed(q),
         req' = [req EXCEPT ![r] = q],
         NEW i \in ItemIds, NEW o \in Row, o.product \in Products,
         row' = [row EXCEPT ![i] = o],
         live' \subseteq live \cup {i}, nextId' \in 1..(MaxItems + 1),
         issued' \in [ItemIds -> Nat], raced' \subseteq ItemIds,
         UNCHANGED <<listVars, listingVars>>
  PROVE  TypeInv'
<1>1. req' \in [Requests -> Request] /\ \A s \in Requests : WellFormed(req'[s])
  BY RequestsType
<1>2. row' \in [ItemIds -> Row] /\ live' \subseteq ItemIds
  BY DEF TypeInv, TypeOK
<1>3. TypeOK'
  BY <1>1, <1>2 DEF TypeInv, TypeOK, listVars, listingVars
<1>4. \A j \in live' : row'[j].product \in Products
  BY DEF TypeInv, TypeOK
<1>5. \A s \in Requests : WellFormed(req[s])'
  BY <1>1 DEF WellFormed, InFlight
<1> QED BY <1>3, <1>4, <1>5 DEF TypeInv

LEMMA AddMergeType ==
  ASSUME TypeInv, NEW r \in Requests, AddMerge(r)
  PROVE  TypeInv'
<1> DEFINE i == req[r].item
           o == Flushed(req[r], row[i])
           q == Committed(req[r], i, Merged(req[r]))
<1>1. req[r] \in Request /\ i \in ItemIds /\ i \in live /\ req[r].quantity \in Nat
  BY RequestType DEF AddMerge, WellFormed, InFlight
<1>2. row[i] \in Row /\ i \in 0..MaxItems /\ row[i].product \in Products
  BY <1>1, ItemType DEF TypeInv
<1>3. o \in Row /\ Merged(req[r]) \in Row
  BY <1>1, <1>2, FlushedType, MergedType
<1>4. o.product \in Products
  BY <1>1, <1>2 DEF Flushed, Row
<1>5. q \in Request /\ WellFormed(q)
  BY <1>1, <1>2, <1>3, CommittedOK
<1>6. row' = [row EXCEPT ![i] = o] /\ req' = [req EXCEPT ![r] = q]
  BY DEF AddMerge
<1>7. row' \in [ItemIds -> Row]
  BY <1>1, <1>3, <1>6 DEF TypeInv, TypeOK
<1>8. row'[i].version \in Nat
  BY <1>1, <1>7 DEF Row
<1>9. /\ live' = live /\ nextId' = nextId /\ UNCHANGED <<listVars, listingVars>>
      /\ issued' = [issued EXCEPT ![i] = IF @ > row'[i].version THEN @ ELSE row'[i].version]
      /\ raced' = raced \/ raced' = raced \cup {i}
  BY DEF AddMerge
<1>10. /\ issued' \in [ItemIds -> Nat] /\ raced' \subseteq ItemIds
       /\ nextId' \in 1..(MaxItems + 1) /\ live' \subseteq live \cup {i}
  BY <1>1, <1>8, <1>9 DEF TypeInv, TypeOK
<1> HIDE DEF i, o, q
<1> QED BY <1>1, <1>3, <1>4, <1>5, <1>6, <1>9, <1>10, RowStepType

LEMMA InsertedType ==
  ASSUME NEW q \in Request, q.product \in Products, q.quantity \in Nat
  PROVE  Inserted(q) \in Row /\ Inserted(q).product \in Products
<1> DEFINE b == IF q.price = Null THEN Null ELSE q.branch
<1>1. b \in OrNull(Branches) /\ q.price \in OrNull(Nat) /\ q.crid \in OrNull(ClientRequestIds)
  BY DEF Request, OrNull
<1>2. q.product \in OrNull(Products)
  BY DEF OrNull
<1>3. Inserted(q) = [NoRow EXCEPT !.product = q.product, !.quantity = q.quantity, !.version = 1,
                                  !.crid = q.crid, !.capturedBranch = b, !.capturedPrice = q.price]
  BY DEF Inserted
<1> HIDE DEF b
<1>4. [NoRow EXCEPT !.product = q.product, !.quantity = q.quantity, !.version = 1,
                    !.crid = q.crid, !.capturedBranch = b, !.capturedPrice = q.price] \in Row
  BY <1>1, <1>2, NoRowType DEF Row
<1>5. Inserted(q).product = q.product
  BY <1>3 DEF NoRow
<1> QED BY <1>3, <1>4, <1>5

LEMMA AddInsertType ==
  ASSUME TypeInv, NEW r \in Requests, AddInsert(r)
  PROVE  TypeInv'
<1> DEFINE o == Inserted(req[r])
           q == Committed(req[r], nextId, o)
<1>1. req[r] \in Request /\ req[r].product \in Products /\ req[r].quantity \in Nat
  BY RequestType DEF AddInsert, WellFormed, InFlight
<1>2. o \in Row /\ o.product \in Products
  BY <1>1, InsertedType
<1>3. nextId \in ItemIds /\ nextId \in 0..MaxItems /\ nextId + 1 \in 1..(MaxItems + 1)
  BY DEF AddInsert, ItemIds
<1>4. q \in Request /\ WellFormed(q)
  BY <1>1, <1>2, <1>3, CommittedOK
<1>5. /\ row' = [row EXCEPT ![nextId] = o] /\ req' = [req EXCEPT ![r] = q]
      /\ live' = live \cup {nextId} /\ nextId' = nextId + 1 /\ raced' = raced
      /\ issued' = [issued EXCEPT ![nextId] = 1] /\ UNCHANGED <<listVars, listingVars>>
  BY DEF AddInsert
<1>6. /\ issued' \in [ItemIds -> Nat] /\ raced' \subseteq ItemIds
      /\ nextId' \in 1..(MaxItems + 1) /\ live' \subseteq live \cup {nextId}
  BY <1>3, <1>5 DEF TypeInv, TypeOK
<1> HIDE DEF o, q
<1> QED BY <1>2, <1>3, <1>4, <1>5, <1>6, RowStepType

LEMMA VersionedWriteType ==
  ASSUME TypeInv, NEW r \in Requests, VersionedWrite(r)
  PROVE  TypeInv'
<1> DEFINE i == req[r].item
           o == Written(req[r], row[i])
           q == Committed(req[r], i, Written(req[r], req[r].obj))
<1>1. /\ req[r] \in Request /\ i \in ItemIds /\ i \in live
      /\ req[r].obj \in Row /\ req[r].expected \in Nat
  BY RequestType DEF VersionedWrite, VersionMatches, WellFormed, InFlight, Request
<1>2. row[i] \in Row /\ i \in 0..MaxItems /\ row[i].product \in Products
  BY <1>1, ItemType DEF TypeInv
<1>3. o \in Row /\ Written(req[r], req[r].obj) \in Row
  BY <1>1, <1>2, WrittenType
<1>4. o.product \in Products
  BY <1>1, <1>2 DEF Written, Row
<1>5. q \in Request /\ WellFormed(q)
  BY <1>1, <1>2, <1>3, CommittedOK
<1>6. /\ row' = [row EXCEPT ![i] = o] /\ req' = [req EXCEPT ![r] = q]
      /\ live' = live /\ nextId' = nextId /\ raced' = raced /\ UNCHANGED <<listVars, listingVars>>
      /\ issued' = [issued EXCEPT ![i] = IF @ > req[r].expected THEN @ ELSE req[r].expected + 1]
  BY DEF VersionedWrite
<1>7. /\ issued' \in [ItemIds -> Nat] /\ raced' \subseteq ItemIds
      /\ nextId' \in 1..(MaxItems + 1) /\ live' \subseteq live \cup {i}
  BY <1>1, <1>6 DEF TypeInv, TypeOK
<1> HIDE DEF i, o, q
<1> QED BY <1>1, <1>3, <1>4, <1>5, <1>6, <1>7, RowStepType

LEMMA AnswersType ==
  ASSUME TypeInv, NEW r \in Requests,
         \/ AddMergeGone(r) \/ AddInsertViolatesConstraint(r)
         \/ VersionedConflict(r) \/ Publish(r)
  PROVE  TypeInv'
<1>1. req[r].obj.version \in Nat
  BY RequestType DEF Request, Row
<1>2. CASE AddMergeGone(r)
  BY <1>2, ReplyType DEF AddMergeGone, Results
<1>3. CASE AddInsertViolatesConstraint(r)
  BY <1>3, ReplyType DEF AddInsertViolatesConstraint, Results
<1>4. CASE VersionedConflict(r)
  BY <1>1, <1>4, ReplyType DEF VersionedConflict, Results
<1>5. CASE Publish(r)
  BY <1>1, <1>5, ReplyType DEF Publish, Results
<1> QED BY <1>2, <1>3, <1>4, <1>5

\* A reply of a handler that has changed the list, or taken rows away.
LEMMA ListStepType ==
  ASSUME TypeInv, NEW r \in Requests, NEW q \in Request, WellFormed(q),
         req' = [req EXCEPT ![r] = q],
         listStatus' \in {"active", "archived", "gone"}, activeBranch' \in OrNull(Branches),
         members' \subseteq Users, live' \subseteq live,
         UNCHANGED <<row, nextId, issued, raced, listingVars>>
  PROVE  TypeInv'
<1>1. req' \in [Requests -> Request] /\ \A s \in Requests : WellFormed(req'[s])
  BY RequestsType
<1>2. TypeOK'
  BY <1>1 DEF TypeInv, TypeOK, listingVars
<1>3. \A j \in live' : row'[j].product \in Products
  BY DEF TypeInv, TypeOK
<1>4. \A s \in Requests : WellFormed(req[s])'
  BY <1>1 DEF WellFormed, InFlight
<1> QED BY <1>2, <1>3, <1>4 DEF TypeInv

LEMMA AnswerOK ==
  ASSUME TypeInv, NEW r \in Requests
  PROVE  /\ Answer(req[r], "ok", 0) \in Request /\ WellFormed(Answer(req[r], "ok", 0))
         /\ Reply(r, "ok", 0) => req' = [req EXCEPT ![r] = Answer(req[r], "ok", 0)]
<1>1. Answer(req[r], "ok", 0) \in Request
  BY RequestType, AnswerType DEF Results
<1>2. WellFormed(Answer(req[r], "ok", 0))
  BY DEF WellFormed, InFlight, Answer, NoRequest
<1> QED BY <1>1, <1>2 DEF Reply

LEMMA BranchWriteType ==
  ASSUME TypeInv, NEW r \in Requests, BranchWrite(r)
  PROVE  TypeInv'
<1>1. req[r].target \in OrNull(Branches)
  BY RequestType DEF Request
<1>2. /\ req' = [req EXCEPT ![r] = Answer(req[r], "ok", 0)]
      /\ listStatus' = listStatus /\ activeBranch' = req[r].target /\ members' = members
      /\ live' = live /\ UNCHANGED <<row, nextId, issued, raced, listingVars>>
  BY AnswerOK DEF BranchWrite, rowVars
<1> QED BY <1>1, <1>2, AnswerOK, ListStepType DEF TypeInv, TypeOK

LEMMA OwnerType ==
  ASSUME TypeInv, NEW r \in Requests, ArchiveList(r) \/ DeleteList(r) \/ RemoveMember(r)
  PROVE  TypeInv'
<1>1. /\ req' = [req EXCEPT ![r] = Answer(req[r], "ok", 0)]
      /\ listStatus' \in {listStatus, "archived", "gone"} /\ activeBranch' = activeBranch
      /\ members' \subseteq members /\ live' \subseteq live
      /\ UNCHANGED <<row, nextId, issued, raced, listingVars>>
  BY AnswerOK DEF ArchiveList, DeleteList, RemoveMember, ByOwner, rowVars
<1> QED BY <1>1, AnswerOK, ListStepType DEF TypeInv, TypeOK

LEMMA DeleteWriteType ==
  ASSUME TypeInv, NEW r \in Requests, DeleteWrite(r)
  PROVE  TypeInv'
<1> DEFINE q == Committed(req[r], req[r].item, req[r].obj)
<1>1. q \in Request /\ WellFormed(q)
  BY RequestType, CommittedOK DEF Request
<1>2. /\ req' = [req EXCEPT ![r] = q]
      /\ listStatus' = listStatus /\ activeBranch' = activeBranch /\ members' = members
      /\ live' \subseteq live /\ UNCHANGED <<row, nextId, issued, raced, listingVars>>
  BY DEF DeleteWrite, listVars
<1> HIDE DEF q
<1> QED BY <1>1, <1>2, ListStepType DEF TypeInv, TypeOK

LEMMA ListingStepType ==
  ASSUME TypeInv, NEW l \in Listings, ListingChange(l) \/ ListingStatusChange(l)
  PROVE  TypeInv'
<1>1. listing[l] \in Listing /\ everListed[l] \in SUBSET Nat
  BY DEF TypeInv, TypeOK
<1>2. listing' \in [Listings -> Listing] /\ everListed' \in [Listings -> SUBSET Nat]
  <2>1. CASE ListingChange(l)
    <3>1. PICK p \in Prices, s \in Availabilities :
            /\ listing' = [listing EXCEPT ![l] =
                             [price |-> p, version |-> @.version + 1, sellable |-> s]]
            /\ everListed' = [everListed EXCEPT ![l] = @ \cup {p}]
      BY <2>1 DEF ListingChange
    <3>2. [price |-> p, version |-> listing[l].version + 1, sellable |-> s] \in Listing
      <4>1. p \in Nat /\ s \in BOOLEAN
        BY ConstantsAssumption
      <4>2. listing[l].version + 1 \in Nat
        BY <1>1 DEF Listing
      <4> QED BY <4>1, <4>2 DEF Listing
    <3> QED BY <1>1, <3>1, <3>2 DEF TypeInv, TypeOK
  <2>2. CASE ListingStatusChange(l)
    <3>1. [listing[l] EXCEPT !.sellable = ~@] \in Listing
      BY <1>1 DEF Listing
    <3>2. listing' = [listing EXCEPT ![l] = [listing[l] EXCEPT !.sellable = ~@]]
      BY <2>2 DEF ListingStatusChange
    <3> QED BY <2>2, <3>1, <3>2 DEF ListingStatusChange, TypeInv, TypeOK
  <2> QED BY <2>1, <2>2
<1>3. UNCHANGED <<listVars, rowVars, req>>
  BY DEF ListingChange, ListingStatusChange
<1>4. TypeOK'
  BY <1>2, <1>3 DEF TypeInv, TypeOK, listVars, rowVars
<1>5. \A s \in Requests : WellFormed(req[s])'
  BY <1>3 DEF TypeInv, WellFormed, InFlight
<1>6. \A i \in live' : row'[i].product \in Products
  BY <1>3 DEF TypeInv, rowVars
<1> QED BY <1>4, <1>5, <1>6 DEF TypeInv

\* What a branch has in stock at the start has been shown.
LEMMA StockedOK ==
  ASSUME Init
  PROVE  /\ listing \in [Listings -> Listing] /\ everListed \in [Listings -> SUBSET Nat]
         /\ \A l \in Listings : listing[l].version > 0 => listing[l].price \in everListed[l]
<1>1. PICK shown \in [Listings -> OrNull(Prices)], sold \in SUBSET Listings : Stocked(shown, sold)
  BY DEF Init
<1>2. Prices \subseteq Nat
  BY ConstantsAssumption
<1>3. ASSUME NEW l \in Listings
      PROVE  /\ listing[l] \in Listing /\ everListed[l] \subseteq Nat
             /\ listing[l].version > 0 => listing[l].price \in everListed[l]
  <2>1. /\ listing[l] = [price |-> IF shown[l] = Null THEN 0 ELSE shown[l],
                         version |-> IF shown[l] = Null THEN 0 ELSE 1,
                         sellable |-> shown[l] # Null /\ l \in sold]
        /\ everListed[l] = {shown[l]} \ {Null}
    BY <1>1 DEF Stocked
  <2>2. shown[l] = Null \/ shown[l] \in Nat
    BY <1>2 DEF OrNull
  <2> QED BY <2>1, <2>2 DEF Listing
<1> QED BY <1>1, <1>3 DEF Stocked

LEMMA TypeInvInit == Init => TypeInv
<1> SUFFICES ASSUME Init PROVE TypeInv
  OBVIOUS
<1>1. TypeOK
  <2>1. listing \in [Listings -> Listing] /\ everListed \in [Listings -> SUBSET Nat]
    BY StockedOK
  <2> QED BY <2>1, NoRowType, NoRequestType DEF Init, TypeOK, OrNull, ItemIds
<1>2. \A r \in Requests : WellFormed(req[r])
  BY DEF Init, WellFormed, InFlight, NoRequest
<1> QED BY <1>1, <1>2 DEF Init, TypeInv

LEMMA TypeInvNext == TypeInv /\ [Next]_vars => TypeInv'
<1> SUFFICES ASSUME TypeInv, [Next]_vars PROVE TypeInv'
  OBVIOUS
<1>1. ASSUME NEW r \in Requests, Add(r) PROVE TypeInv'
  BY <1>1, AddStartType, AddReadType, AddMergeType, AddInsertType, AnswersType DEF Add
<1>2. ASSUME NEW r \in Requests, VersionedUpdate(r) PROVE TypeInv'
  BY <1>2, UpdateStartType, UpdateReadType, CaptureStartType, CaptureReadType,
     VersionedWriteType, AnswersType DEF VersionedUpdate
<1>3. ASSUME NEW r \in Requests, Delete(r) PROVE TypeInv'
  BY <1>3, DeleteStartType, DeleteReadType, DeleteWriteType DEF Delete
<1>4. ASSUME NEW r \in Requests, SetActiveBranch(r) PROVE TypeInv'
  BY <1>4, BranchStartType, BranchWriteType DEF SetActiveBranch
<1>5. ASSUME NEW r \in Requests,
             Publish(r) \/ ArchiveList(r) \/ DeleteList(r) \/ RemoveMember(r)
      PROVE  TypeInv'
  BY <1>5, AnswersType, OwnerType
<1>6. ASSUME NEW l \in Listings, ListingChange(l) \/ ListingStatusChange(l) PROVE TypeInv'
  BY <1>6, ListingStepType
<1>7. CASE UNCHANGED vars
  <2>1. UNCHANGED <<listVars, rowVars, listingVars, req>>
    BY <1>7 DEF vars
  <2>2. TypeOK'
    BY <2>1 DEF TypeInv, TypeOK, listVars, rowVars, listingVars
  <2> QED BY <2>1, <2>2 DEF TypeInv, WellFormed, InFlight, rowVars
<1> QED BY <1>1, <1>2, <1>3, <1>4, <1>5, <1>6, <1>7 DEF Next

\* Every variable keeps its type, and every request in flight carries what its
\* handler needs, for all workloads.
THEOREM TypeCorrect == Spec => []TypeOK
<1>1. TypeInv => TypeOK
  BY DEF TypeInv
<1> QED BY <1>1, TypeInvInit, TypeInvNext, PTL DEF Spec

-----------------------------------------------------------------------------
(* The safety of the handlers, from the inductive invariant IInv.           *)
(*                                                                         *)
(* A step may move one request, write one row and add prices to the history *)
(* of the listings.  What every request knew of the rows stays true as long *)
(* as the rows advance: a row that is not raced is unchanged or its version *)
(* has grown.                                                              *)

Advances ==
    /\ nextId <= nextId'
    /\ raced \subseteq raced'
    /\ \A l \in Listings : everListed[l] \subseteq everListed'[l]
    /\ \A i \in 1..(nextId - 1) :
         /\ row'[i].product = row[i].product
         /\ i \notin raced' => row'[i] = row[i] \/ row'[i].version > row[i].version

LEMMA IssuedItem ==
  ASSUME TypeInv, NEW i \in 1..(nextId - 1)
  PROVE  i \in ItemIds /\ i \in Nat /\ row[i] \in Row
<1>1. nextId \in 1..(MaxItems + 1)
  BY DEF TypeInv, TypeOK
<1>2. i \in ItemIds
  BY <1>1 DEF ItemIds
<1> QED BY <1>2 DEF TypeInv, TypeOK

LEMMA RequestKept ==
  ASSUME IInv, TypeInv', Advances, NEW s \in Requests, req'[s] = req[s]
  PROVE  RequestOK(req[s])'
<1> DEFINE q == req[s]
           i == req[s].item
<1>1. /\ RequestOK(q) /\ q \in Request /\ WellFormed(q) /\ req[s]' = q
      /\ nextId \in Nat /\ nextId' \in Nat /\ nextId <= nextId'
      /\ i \notin raced' => i \notin raced
  BY RequestType DEF IInv, TypeInv, TypeOK, Advances
<1>2. ASSUME i \in 1..(nextId - 1)
      PROVE  /\ i \in 1..(nextId' - 1) /\ i \in ItemIds
             /\ row[i].version \in Nat /\ row'[i].version \in Nat
             /\ row'[i].product = row[i].product
             /\ i \notin raced' => row'[i] = row[i] \/ row'[i].version > row[i].version
  <2>1. i \in ItemIds
    BY <1>2, IssuedItem DEF IInv
  <2>2. row[i] \in Row /\ row'[i] \in Row
    BY <2>1 DEF IInv, TypeInv, TypeOK
  <2> QED BY <1>1, <1>2, <2>1, <2>2 DEF Advances, Row
<1>3. q.obj.version \in Nat /\ q.expected \in Nat
  BY <1>1 DEF Request, Row
<1> HIDE DEF q, i
<1>4. InstanceOK(req[s])'
  BY <1>1, <1>2, <1>3 DEF RequestOK, InstanceOK, Holds, i, q
<1>5. ExpectedOK(req[s])'
  BY <1>1, <1>2, <1>3 DEF RequestOK, ExpectedOK, InstanceOK, Holds, IsVersioned, Accepted, i, q
<1>6. \A p, b, x : Listed(p, b, x) /\ p # Null => <<b, x>> \in Listings /\ p \in everListed'[<<b, x>>]
  BY DEF Listed, Advances
<1>7. PriceOK(req[s])'
  BY <1>1, <1>2, <1>6 DEF RequestOK, InstanceOK, Holds, PriceOK, Listed, TakesSnapshot, i, q
<1> QED BY <1>4, <1>5, <1>7 DEF RequestOK

LEMMA RowKept ==
  ASSUME IInv, TypeInv', Advances, NEW i \in ItemIds, row'[i] = row[i], issued'[i] = issued[i],
         i \in live' => i \in live
  PROVE  RowOK(i)'
<1>1. RowOK(i) /\ nextId \in Nat /\ nextId' \in Nat /\ i \in Nat
  BY DEF IInv, TypeInv, TypeOK, ItemIds
<1>2. \A p, b, x : Listed(p, b, x) /\ p # Null => <<b, x>> \in Listings /\ p \in everListed'[<<b, x>>]
  BY DEF Listed, Advances
<1> QED BY <1>1, <1>2 DEF RowOK, Listed, Advances

\* A step that moves one request and writes no listing.
LEMMA StepInv ==
  ASSUME IInv, TypeInv', Advances, NEW r \in Requests,
         \A s \in Requests \ {r} : req'[s] = req[s],
         RequestOK(req[r])', \A i \in ItemIds : RowOK(i)', UNCHANGED listingVars
  PROVE  IInv'
<1>1. ASSUME NEW s \in Requests PROVE RequestOK(req[s])'
  BY <1>1, RequestKept
<1>2. \A l \in Listings : ListingOK(l)'
  BY DEF IInv, ListingOK, listingVars
<1> QED BY <1>1, <1>2 DEF IInv

\* A step that writes no row either.
LEMMA ProgressInv ==
  ASSUME IInv, TypeInv', NEW r \in Requests, NEW q \in Request, RequestOK(q),
         req' = [req EXCEPT ![r] = q],
         UNCHANGED <<row, nextId, issued, raced, listingVars>>, live' \subseteq live
  PROVE  IInv'
<1>1. Advances
  BY DEF Advances, listingVars, IInv, TypeInv, TypeOK
<1>2. req'[r] = q /\ \A s \in Requests \ {r} : req'[s] = req[s]
  BY DEF IInv, TypeInv, TypeOK
<1>3. RequestOK(req[r])'
  BY <1>2 DEF RequestOK, InstanceOK, ExpectedOK, PriceOK, Holds, IsVersioned, Accepted,
              Listed, TakesSnapshot, listingVars
<1>4. ASSUME NEW i \in ItemIds PROVE RowOK(i)'
  BY <1>1, RowKept
<1> QED BY <1>1, <1>2, <1>3, <1>4, StepInv DEF listingVars

LEMMA AnswerInv ==
  ASSUME NEW q \in Request, NEW result \in Results, NEW body \in Nat,
         result # "ok" \/ ~IsVersioned(q)
  PROVE  RequestOK(Answer(q, result, body))
BY DEF Answer, NoRequest, Request, RequestOK, InstanceOK, Holds, ExpectedOK, PriceOK,
       IsVersioned, Accepted

LEMMA ReplyInv ==
  ASSUME IInv, TypeInv', NEW r \in Requests, NEW result \in Results, NEW body \in Nat,
         result # "ok" \/ ~IsVersioned(req[r]), Reply(r, result, body),
         UNCHANGED <<row, nextId, issued, raced, listingVars>>, live' \subseteq live
  PROVE  IInv'
<1> DEFINE a == Answer(req[r], result, body)
<1>1. a \in Request /\ req[r] \in Request
  BY RequestType, AnswerType DEF IInv
<1>2. RequestOK(a)
  BY <1>1, AnswerInv
<1>3. req' = [req EXCEPT ![r] = a]
  BY DEF Reply
<1> HIDE DEF a
<1> QED BY <1>1, <1>2, <1>3, ProgressInv

-----------------------------------------------------------------------------
(* The steps that write nothing                                            *)

LEMMA AuthorizeInv ==
  ASSUME IInv, TypeInv', NEW r \in Requests, NEW u \in Users, NEW call \in Request,
         RequestOK([call EXCEPT !.pc = "authorized", !.branch = activeBranch]),
         Authorize(r, u, call)
  PROVE  IInv'
<1> DEFINE denied(result) == Answer(call, result, 0)
           passed == [call EXCEPT !.pc = "authorized", !.branch = activeBranch]
<1>1. denied("not_found") \in Request /\ denied("denied") \in Request
  BY AnswerType DEF Results
<1>2. RequestOK(denied("not_found")) /\ RequestOK(denied("denied"))
  BY AnswerInv DEF Results
<1>3. passed \in Request
  BY DEF IInv, TypeInv, TypeOK, Request, Phases
<1>4. UNCHANGED <<row, nextId, issued, raced, listingVars>> /\ live' \subseteq live
  BY DEF Authorize, rowVars
<1>5. PICK q \in {denied("not_found"), denied("denied"), passed} : req' = [req EXCEPT ![r] = q]
  BY DEF Authorize, CanEditItems
<1> HIDE DEF denied
<1>6. RequestOK(q) /\ q \in Request
  BY <1>1, <1>2, <1>3
<1> HIDE DEF passed
<1> QED BY <1>4, <1>5, <1>6, ProgressInv

\* The version a client sends is one the row has reached.
LEMMA KnownVersion ==
  ASSUME IInv, NEW i \in ItemIds, NEW v \in KnownVersions(i)
  PROVE  v \in Nat /\ i \in 1..(nextId - 1) /\ (i \notin raced => v <= row[i].version)
<1>1. issued[i] \in Nat /\ nextId \in Nat /\ RowOK(i) /\ i \in Nat /\ i >= 1
  BY DEF IInv, TypeInv, TypeOK, ItemIds
<1>2. v \in 1..issued[i]
  BY DEF KnownVersions
<1>3. i < nextId
  BY <1>1, <1>2 DEF RowOK
<1> QED BY <1>1, <1>2, <1>3 DEF RowOK

LEMMA AddStartInv ==
  ASSUME IInv, TypeInv', NEW r \in Requests,
         AddStart(r) \/ DeleteStart(r) \/ BranchStart(r)
  PROVE  IInv'
<1>1. ASSUME NEW call \in Request, call.kind \in {"add", "delete", "branch"}
      PROVE  RequestOK([call EXCEPT !.pc = "authorized", !.branch = activeBranch])
  BY <1>1 DEF Request, RequestOK, InstanceOK, Holds, ExpectedOK, PriceOK, IsVersioned, Accepted
<1>2. CASE AddStart(r)
  <2>1. PICK u \in Users, p \in Products, n \in Quantities, c \in OrNull(ClientRequestIds) :
          Authorize(r, u, [NoRequest EXCEPT !.kind = "add", !.product = p,
                                            !.quantity = n, !.crid = c])
    BY <1>2 DEF AddStart
  <2> DEFINE call == [NoRequest EXCEPT !.kind = "add", !.product = p, !.quantity = n, !.crid = c]
  <2>2. call \in Request /\ call.kind = "add"
    BY AddCallType DEF NoRequest
  <2> HIDE DEF call
  <2> QED BY <1>1, <2>1, <2>2, AuthorizeInv DEF call
<1>3. CASE DeleteStart(r)
  <2>1. PICK u \in Users, i \in ItemIds :
          Authorize(r, u, [NoRequest EXCEPT !.kind = "delete", !.item = i])
    BY <1>3 DEF DeleteStart
  <2> DEFINE call == [NoRequest EXCEPT !.kind = "delete", !.item = i]
  <2>2. call \in Request /\ call.kind = "delete"
    BY DeleteCallType DEF NoRequest
  <2> HIDE DEF call
  <2> QED BY <1>1, <2>1, <2>2, AuthorizeInv DEF call
<1>4. CASE BranchStart(r)
  <2>1. PICK u \in Users, b \in OrNull(Branches) :
          Authorize(r, u, [NoRequest EXCEPT !.kind = "branch", !.target = b])
    BY <1>4 DEF BranchStart
  <2> DEFINE call == [NoRequest EXCEPT !.kind = "branch", !.target = b]
  <2>2. call \in Request /\ call.kind = "branch"
    BY BranchCallType DEF NoRequest
  <2> HIDE DEF call
  <2> QED BY <1>1, <2>1, <2>2, AuthorizeInv DEF call
<1> QED BY <1>2, <1>3, <1>4

LEMMA UpdateStartInv ==
  ASSUME IInv, TypeInv', NEW r \in Requests, UpdateStart(r) \/ CaptureStart(r)
  PROVE  IInv'
<1>1. ASSUME NEW call \in Request, call.kind \in {"update", "capture"}, call.result = Null,
             call.item \in ItemIds, call.expected \in KnownVersions(call.item)
      PROVE  RequestOK([call EXCEPT !.pc = "authorized", !.branch = activeBranch])
  BY <1>1, KnownVersion
     DEF Request, RequestOK, InstanceOK, Holds, ExpectedOK, PriceOK, IsVersioned, Accepted
<1>2. CASE UpdateStart(r)
  <2>1. PICK u \in Users, i \in ItemIds, n \in OrNull(Quantities), c \in OrNull(BOOLEAN) :
          \E v \in KnownVersions(i) :
            Authorize(r, u, [NoRequest EXCEPT !.kind = "update", !.item = i,
                                              !.expected = v, !.quantity = n, !.checked = c])
    BY <1>2 DEF UpdateStart
  <2>2. PICK v \in KnownVersions(i) :
          Authorize(r, u, [NoRequest EXCEPT !.kind = "update", !.item = i,
                                            !.expected = v, !.quantity = n, !.checked = c])
    BY <2>1
  <2> DEFINE call == [NoRequest EXCEPT !.kind = "update", !.item = i,
                                       !.expected = v, !.quantity = n, !.checked = c]
  <2>3. v \in Nat
    BY KnownVersion
  <2>4. call \in Request
    BY <2>3, UpdateCallType
  <2>5. call.kind = "update" /\ call.result = Null /\ call.item = i /\ call.expected = v
    BY DEF NoRequest
  <2> HIDE DEF call
  <2> QED BY <1>1, <2>2, <2>4, <2>5, AuthorizeInv DEF call
<1>3. CASE CaptureStart(r)
  <2>1. PICK u \in Users, i \in ItemIds, b \in Branches, p \in Products :
          \E v \in KnownVersions(i), w \in 1..listing[<<b, p>>].version :
            Authorize(r, u, [NoRequest EXCEPT !.kind = "capture", !.item = i, !.expected = v,
                                              !.target = b, !.product = p, !.listingVersion = w])
    BY <1>3 DEF CaptureStart
  <2>2. PICK v \in KnownVersions(i), w \in 1..listing[<<b, p>>].version :
          Authorize(r, u, [NoRequest EXCEPT !.kind = "capture", !.item = i, !.expected = v,
                                            !.target = b, !.product = p, !.listingVersion = w])
    BY <2>1
  <2> DEFINE call == [NoRequest EXCEPT !.kind = "capture", !.item = i, !.expected = v,
                                       !.target = b, !.product = p, !.listingVersion = w]
  <2>3. v \in Nat
    BY KnownVersion
  <2>4. listing[<<b, p>>] \in Listing
    BY DEF IInv, TypeInv, TypeOK, Listings
  <2>5. w \in Nat
    BY <2>4 DEF Listing
  <2>6. call \in Request
    BY <2>3, <2>5, CaptureCallType
  <2>7. call.kind = "capture" /\ call.result = Null /\ call.item = i /\ call.expected = v
    BY DEF NoRequest
  <2> HIDE DEF call
  <2> QED BY <1>1, <2>2, <2>6, <2>7, AuthorizeInv DEF call
<1> QED BY <1>2, <1>3

-----------------------------------------------------------------------------
(* The steps that read                                                     *)

LEMMA AvailableIsListed ==
  ASSUME IInv, NEW b \in Branches, NEW p \in Products, listing[<<b, p>>].version > 0
  PROVE  Listed(listing[<<b, p>>].price, b, p)
<1>1. <<b, p>> \in Listings
  BY DEF Listings
<1> QED BY <1>1 DEF IInv, ListingOK, Listed

LEMMA AdoptedIsListed ==
  ASSUME IInv, NEW q \in Request, q.product \in Products
  PROVE  Listed(AdoptedPrice(q), q.branch, q.product)
<1>1. CASE q.branch # Null /\ Available(<<q.branch, q.product>>)
  <2>1. q.branch \in Branches
    BY <1>1 DEF Request, OrNull
  <2>2. listing[<<q.branch, q.product>>].version > 0
    BY <1>1 DEF Available
  <2> QED BY <1>1, <2>1, <2>2, AvailableIsListed DEF AdoptedPrice
<1>2. CASE ~(q.branch # Null /\ Available(<<q.branch, q.product>>))
  BY <1>2 DEF AdoptedPrice, Listed
<1> QED BY <1>1, <1>2

LEMMA LiveIsIssued ==
  ASSUME IInv, NEW i \in live
  PROVE  i \in 1..(nextId - 1) /\ i \in ItemIds /\ row[i].product \in Products
<1>1. i \in ItemIds /\ nextId \in Nat /\ row[i].product \in Products
  BY DEF IInv, TypeInv, TypeOK
<1>2. i < nextId
  BY <1>1 DEF IInv, RowOK
<1> QED BY <1>1, <1>2 DEF ItemIds

LEMMA AddReadInv ==
  ASSUME IInv, TypeInv', NEW r \in Requests, AddRead(r)
  PROVE  IInv'
<1>1. /\ req[r] \in Request /\ WellFormed(req[r]) /\ TypeInv
      /\ req[r].pc = "authorized" /\ req[r].kind = "add" /\ req[r].product \in Products
      /\ UNCHANGED <<row, nextId, issued, raced, listingVars>> /\ live' \subseteq live
  BY RequestType DEF AddRead, IInv, rowVars, WellFormed, InFlight
<1>2. Listed(AdoptedPrice(req[r]), req[r].branch, req[r].product)
  BY <1>1, AdoptedIsListed
<1>3. CASE req' = [req EXCEPT ![r] = ToInsert(req[r])]
  <2>1. RequestOK(ToInsert(req[r]))
    BY <1>1, <1>2 DEF ToInsert, Request, RequestOK, InstanceOK, Holds, ExpectedOK, IsVersioned, PriceOK
  <2> QED BY <1>1, <1>3, <2>1, ToInsertType, ProgressInv
<1>4. ASSUME NEW i \in live, row[i].product = req[r].product,
             req' = [req EXCEPT ![r] = ToMerge(req[r], i)]
      PROVE  IInv'
  <2>1. i \in 1..(nextId - 1) /\ row[i] \in Row /\ row[i].version \in Nat
    BY <1>1, LiveIsIssued, ItemType
  <2>2. RequestOK(ToMerge(req[r], i))
    BY <1>1, <1>2, <1>4, <2>1
       DEF ToMerge, Request, RequestOK, InstanceOK, Holds, ExpectedOK, IsVersioned, PriceOK
  <2> QED BY <1>1, <1>4, <2>2, ToMergeType, ProgressInv
<1>5. ASSUME NEW i \in live, req' = [req EXCEPT ![r] = Committed(req[r], i, row[i])] PROVE IInv'
  <2>1. i \in 0..MaxItems /\ row[i] \in Row
    BY <1>1, LiveIsIssued, ItemType
  <2>2. RequestOK(Committed(req[r], i, row[i]))
    BY <1>1 DEF Committed, Request, RequestOK, InstanceOK, Holds, ExpectedOK, IsVersioned, PriceOK
  <2> QED BY <1>1, <1>5, <2>1, <2>2, CommittedOK, ProgressInv
<1>6. CASE Reply(r, "error", 0)
  BY <1>1, <1>6, ReplyInv DEF Results
<1> QED BY <1>3, <1>4, <1>5, <1>6 DEF AddRead, RowsWithRequestId, RowsWithProduct

LEMMA UpdateReadInv ==
  ASSUME IInv, TypeInv', NEW r \in Requests, UpdateRead(r)
  PROVE  IInv'
<1> DEFINE i == req[r].item
           b == SnapshotBranch(row[i], req[r].branch)
           p == SnapshotPrice(row[i], req[r].branch)
<1>1. /\ req[r] \in Request /\ WellFormed(req[r]) /\ RequestOK(req[r]) /\ TypeInv
      /\ req[r].pc = "authorized" /\ req[r].kind = "update"
      /\ UNCHANGED <<row, nextId, issued, raced, listingVars>> /\ live' \subseteq live
  BY RequestType DEF UpdateRead, IInv, rowVars
<1>2. CASE Reply(r, "not_found", 0)
  BY <1>1, <1>2, ReplyInv DEF Results
<1>3. ASSUME i \in live
      PROVE  /\ i \in 1..(nextId - 1) /\ row[i] \in Row /\ row[i].version \in Nat
             /\ row[i].product \in Products /\ RowOK(i)
  BY <1>1, <1>3, LiveIsIssued, ItemType DEF IInv
<1>4. CASE i \in live /\ ~TakesSnapshot(ToWrite(req[r])) /\ req' = [req EXCEPT ![r] = ToWrite(req[r])]
  <2>1. RequestOK(ToWrite(req[r]))
    BY <1>1, <1>3, <1>4
       DEF ToWrite, Request, RequestOK, InstanceOK, Holds, ExpectedOK, IsVersioned, Accepted,
           PriceOK, TakesSnapshot
  <2> QED BY <1>1, <1>4, <2>1, ToWriteType, ProgressInv
<1>5. CASE i \in live /\ TakesSnapshot(ToWrite(req[r])) /\ req' = [req EXCEPT ![r] = ToCheck(req[r])]
  <2>1. i \notin raced => Listed(p, b, row[i].product)
    <3> SUFFICES ASSUME i \notin raced, p # Null
                 PROVE  Listed(p, b, row[i].product)
      BY DEF Listed
    <3>1. /\ row[i].capturedBranch = Null <=> row[i].capturedPrice = Null
          /\ Listed(row[i].capturedPrice, row[i].capturedBranch, row[i].product)
          /\ row[i].capturedBranch # 0
      BY <1>3, <1>5 DEF RowOK, Row, OrNull
    <3>2. CASE row[i].capturedPrice \in {Null, 0}
      <4>1. p = PriceAtBranch(row[i].product, b)
        BY <3>2 DEF SnapshotPrice, OrElse
      <4>2. b \in OrNull(Branches)
        BY <1>1, <1>3, <1>5, SnapshotType DEF Request
      <4>3. b # Null /\ listing[<<b, row[i].product>>].version # 0
            /\ p = listing[<<b, row[i].product>>].price
        BY <4>1 DEF PriceAtBranch
      <4>4. <<b, row[i].product>> \in Listings /\ b \in Branches
        BY <1>3, <1>5, <4>2, <4>3 DEF OrNull, Listings
      <4>5. listing[<<b, row[i].product>>] \in Listing
        BY <1>1, <4>4 DEF TypeInv, TypeOK
      <4>6. listing[<<b, row[i].product>>].version > 0
        BY <4>3, <4>5 DEF Listing
      <4> QED BY <1>3, <1>5, <4>3, <4>4, <4>6, AvailableIsListed
    <3>3. CASE row[i].capturedPrice \notin {Null, 0}
      <4>1. p = row[i].capturedPrice /\ b = row[i].capturedBranch
        BY <3>1, <3>3 DEF SnapshotPrice, SnapshotBranch, OrElse
      <4> QED BY <3>1, <4>1
    <3> QED BY <3>2, <3>3
  <2> HIDE DEF b, p
  <2>2. ToCheck(req[r]) = [req[r] EXCEPT !.pc = "read", !.obj = row[i], !.branch = b, !.price = p]
    BY DEF ToCheck, b, p
  <2>3. RequestOK([req[r] EXCEPT !.pc = "read", !.obj = row[i], !.branch = b, !.price = p])
    BY <1>1, <1>3, <1>5, <2>1
       DEF Request, RequestOK, InstanceOK, Holds, ExpectedOK, IsVersioned, Accepted, PriceOK
  <2> QED BY <1>1, <1>5, <2>2, <2>3, ToCheckType, ProgressInv
<1> QED BY <1>2, <1>4, <1>5 DEF UpdateRead

LEMMA CaptureReadInv ==
  ASSUME IInv, TypeInv', NEW r \in Requests, CaptureRead(r)
  PROVE  IInv'
<1> DEFINE i == req[r].item
           l == <<req[r].target, req[r].product>>
<1>1. /\ req[r] \in Request /\ WellFormed(req[r]) /\ RequestOK(req[r]) /\ TypeInv
      /\ req[r].pc = "authorized" /\ req[r].kind = "capture"
      /\ req[r].target \in Branches /\ req[r].product \in Products /\ i \in ItemIds
      /\ UNCHANGED <<row, nextId, issued, raced, listingVars>> /\ live' \subseteq live
  BY RequestType DEF CaptureRead, IInv, rowVars, WellFormed, InFlight
<1>2. CASE Reply(r, "not_found", 0)
  BY <1>1, <1>2, ReplyInv DEF Results
<1>3. CASE Reply(r, "conflict", row[i].version)
  BY <1>1, <1>3, ItemType, ReplyInv DEF Results
<1>4. CASE i \in live /\ Adoptable(req[r]) /\ req' = [req EXCEPT ![r] = ToCapture(req[r])]
  <2>1. /\ i \in 1..(nextId - 1) /\ row[i] \in Row /\ row[i].version \in Nat
    BY <1>1, <1>4, LiveIsIssued, ItemType
  <2>2. req[r].product = row[i].product /\ listing[l].version > 0
    BY <1>4 DEF Adoptable, Available
  <2>3. Listed(listing[l].price, req[r].target, req[r].product) /\ listing[l].price # Null
    BY <1>1, <2>2, AvailableIsListed, ListingType
  <2>4. req[r].target # Null
    <3>1. PICK b \in Branches : b = req[r].target
      BY <1>1
    <3> QED BY <3>1, ConstantsAssumption
  <2>5. RequestOK(ToCapture(req[r]))
    <3>1. PICK q : q = ToCapture(req[r])
      OBVIOUS
    <3>2. /\ q.pc = "read" /\ q.kind = "capture" /\ q.item = i /\ q.obj = row[i]
          /\ q.price = listing[l].price /\ q.target = req[r].target
          /\ q.product = req[r].product /\ q.expected = req[r].expected
      BY <1>1, <3>1 DEF ToCapture, Request
    <3>3. i \notin raced => req[r].expected <= row[i].version
      BY <1>1 DEF RequestOK, ExpectedOK, IsVersioned
    <3>4. InstanceOK(q) /\ PriceOK(q)
      BY <2>1, <2>2, <2>3, <2>4, <3>2 DEF InstanceOK, PriceOK
    <3>5. ExpectedOK(q)
      BY <2>1, <3>2, <3>3 DEF ExpectedOK, IsVersioned, Accepted
    <3> QED BY <3>1, <3>4, <3>5 DEF RequestOK
  <2> QED BY <1>1, <1>4, <2>5, ToCaptureType, ProgressInv
<1> QED BY <1>2, <1>3, <1>4 DEF CaptureRead

LEMMA DeleteReadInv ==
  ASSUME IInv, TypeInv', NEW r \in Requests, DeleteRead(r)
  PROVE  IInv'
<1>1. /\ req[r] \in Request /\ WellFormed(req[r]) /\ TypeInv
      /\ req[r].pc = "authorized" /\ req[r].kind = "delete"
      /\ UNCHANGED <<row, nextId, issued, raced, listingVars>> /\ live' \subseteq live
  BY RequestType DEF DeleteRead, IInv, rowVars
<1>2. CASE Reply(r, "ok", 0)
  BY <1>1, <1>2, ReplyInv DEF Results, IsVersioned
<1>3. CASE req[r].item \in live /\ req' = [req EXCEPT ![r] = ToWrite(req[r])]
  <2>1. req[r].item \in 1..(nextId - 1) /\ row[req[r].item] \in Row /\ row[req[r].item].version \in Nat
    BY <1>1, <1>3, LiveIsIssued, ItemType
  <2>2. RequestOK(ToWrite(req[r]))
    BY <1>1, <2>1
       DEF ToWrite, Request, RequestOK, InstanceOK, Holds, ExpectedOK, IsVersioned, PriceOK
  <2> QED BY <1>1, <1>3, <2>2, ToWriteType, ProgressInv
<1> QED BY <1>2, <1>3 DEF DeleteRead

-----------------------------------------------------------------------------
(* Answers, and the handlers of the list                                   *)

LEMMA AnswersInv ==
  ASSUME IInv, TypeInv', NEW r \in Requests,
         \/ AddMergeGone(r) \/ AddInsertViolatesConstraint(r) \/ VersionedConflict(r)
         \/ BranchWrite(r) \/ ArchiveList(r) \/ DeleteList(r) \/ RemoveMember(r)
  PROVE  IInv'
<1>1. /\ UNCHANGED <<row, nextId, issued, raced, listingVars>> /\ live' \subseteq live
      /\ req[r] \in Request /\ req[r].obj.version \in Nat /\ RequestOK(req[r])
  BY RequestType DEF AddMergeGone, AddInsertViolatesConstraint, VersionedConflict, BranchWrite,
     ArchiveList, DeleteList, RemoveMember, rowVars, IInv, Request, Row
<1>2. ASSUME BranchWrite(r) \/ ArchiveList(r) \/ DeleteList(r) \/ RemoveMember(r)
      PROVE  ~IsVersioned(req[r]) /\ Reply(r, "ok", 0)
  BY <1>1, <1>2 DEF BranchWrite, ArchiveList, DeleteList, RemoveMember, ByOwner, RequestOK,
     ExpectedOK, IsVersioned
<1>3. ASSUME AddMergeGone(r) \/ AddInsertViolatesConstraint(r) \/ VersionedConflict(r)
      PROVE  Reply(r, "error", 0) \/ Reply(r, "conflict", req[r].obj.version)
  BY <1>3 DEF AddMergeGone, AddInsertViolatesConstraint, VersionedConflict
<1> QED BY <1>1, <1>2, <1>3, ReplyInv DEF Results

LEMMA PublishInv ==
  ASSUME IInv, TypeInv', NEW r \in Requests, Publish(r)
  PROVE  IInv'
<1> DEFINE a == Answer(req[r], "ok", req[r].obj.version)
<1>1. /\ UNCHANGED <<row, nextId, issued, raced, listingVars>> /\ live' \subseteq live
      /\ req[r] \in Request /\ req[r].obj.version \in Nat /\ RequestOK(req[r])
      /\ req[r].pc = "committed" /\ req' = [req EXCEPT ![r] = a]
  BY RequestType DEF Publish, Reply, rowVars, IInv, Request, Row
<1>2. a \in Request
  BY <1>1, AnswerType DEF Results
<1>3. RequestOK(a)
  BY <1>1 DEF Answer, NoRequest, RequestOK, InstanceOK, Holds, ExpectedOK, IsVersioned, Accepted,
     PriceOK
<1> HIDE DEF a
<1> QED BY <1>1, <1>2, <1>3, ProgressInv

LEMMA DeleteWriteInv ==
  ASSUME IInv, TypeInv', NEW r \in Requests, DeleteWrite(r)
  PROVE  IInv'
<1> DEFINE q == Committed(req[r], req[r].item, req[r].obj)
<1>1. /\ UNCHANGED <<row, nextId, issued, raced, listingVars>> /\ live' \subseteq live
      /\ req[r] \in Request /\ req[r].kind = "delete" /\ req' = [req EXCEPT ![r] = q]
      /\ req[r].item \in 0..MaxItems /\ req[r].obj \in Row
  BY RequestType DEF DeleteWrite, listVars, IInv, Request
<1>2. q \in Request
  BY <1>1, CommittedOK
<1>3. RequestOK(q)
  BY <1>1 DEF Committed, Request, RequestOK, InstanceOK, Holds, ExpectedOK, IsVersioned, PriceOK
<1> HIDE DEF q
<1> QED BY <1>1, <1>2, <1>3, ProgressInv

LEMMA ListingStepInv ==
  ASSUME IInv, TypeInv', NEW l \in Listings, ListingChange(l) \/ ListingStatusChange(l)
  PROVE  IInv'
<1>1. /\ UNCHANGED <<live, row, nextId, issued, raced, req>>
      /\ nextId \in Nat /\ TypeInv
  BY DEF ListingChange, ListingStatusChange, rowVars, IInv, TypeInv, TypeOK
<1>2. \A m \in Listings : everListed[m] \subseteq everListed'[m]
  BY DEF ListingChange, ListingStatusChange, IInv, TypeInv, TypeOK
<1>3. Advances
  BY <1>1, <1>2 DEF Advances
<1>4. \A s \in Requests : RequestOK(req[s])'
  BY <1>1, <1>3, RequestKept
<1>5. \A i \in ItemIds : RowOK(i)'
  BY <1>1, <1>3, RowKept
<1>6. ASSUME NEW m \in Listings PROVE ListingOK(m)'
  <2>1. listing[m] \in Listing /\ ListingOK(m) /\ everListed \in [Listings -> SUBSET Nat]
        /\ listing \in [Listings -> Listing]
    BY DEF IInv, TypeInv, TypeOK
  <2>2. CASE ListingChange(l)
    <3>1. PICK p \in Prices, s \in Availabilities :
            /\ listing' = [listing EXCEPT ![l] =
                             [price |-> p, version |-> @.version + 1, sellable |-> s]]
            /\ everListed' = [everListed EXCEPT ![l] = @ \cup {p}]
      BY <2>2 DEF ListingChange
    <3> QED BY <2>1, <3>1 DEF ListingOK
  <2>3. CASE ListingStatusChange(l)
    BY <2>1, <2>3 DEF ListingStatusChange, ListingOK, Listing
  <2> QED BY <2>2, <2>3
<1> QED BY <1>4, <1>5, <1>6 DEF IInv

-----------------------------------------------------------------------------
(* The steps that write a row                                              *)

\* A merge of an instance that is the row leaves the row the instance becomes.
LEMMA MergeOfTheRow ==
  ASSUME NEW q \in Request, q.quantity \in Nat
  PROVE  Flushed(q, q.obj) = Merged(q)
<1>1. q.obj \in Row
  BY DEF Request
<1> QED BY <1>1 DEF Flushed, Merged, Row

LEMMA MergedRow ==
  ASSUME NEW q \in Request, q.quantity \in Nat, q.obj \in Row, NEW old \in Row
  PROVE  /\ Merged(q).version = q.obj.version + 1
         /\ Merged(q).product = q.obj.product
         /\ Merged(q).checked = q.obj.checked
         /\ Merged(q).checkedAt = q.obj.checkedAt
         /\ Merged(q).storeBranch = q.obj.storeBranch
         /\ Merged(q).priceAtCheck = q.obj.priceAtCheck
         /\ Merged(q).capturedBranch = IF q.price = Null THEN q.obj.capturedBranch ELSE q.branch
         /\ Merged(q).capturedPrice = IF q.price = Null THEN q.obj.capturedPrice ELSE q.price
         /\ Flushed(q, old).product = old.product
BY DEF Merged, Flushed, Row

LEMMA AddMergeInv ==
  ASSUME IInv, TypeInv', NEW r \in Requests, AddMerge(r)
  PROVE  IInv'
<1> DEFINE q == req[r]
           c == Committed(req[r], req[r].item, Merged(req[r]))
<1>0. PICK i \in ItemIds : i = q.item
  BY RequestType DEF AddMerge, IInv, WellFormed, InFlight
<1>1. /\ q \in Request /\ WellFormed(q) /\ RequestOK(q) /\ TypeInv
      /\ q.pc = "read" /\ q.kind = "add" /\ q.found /\ i \in live /\ i = q.item /\ q.quantity \in Nat
      /\ q.obj \in Row /\ UNCHANGED <<live, nextId, listingVars>>
  BY <1>0, RequestType DEF AddMerge, IInv, WellFormed, InFlight, Request
<1>2. /\ row' = [row EXCEPT ![i] = Flushed(q, row[i])]
      /\ issued' = [issued EXCEPT ![i] = IF @ > row'[i].version THEN @ ELSE row'[i].version]
      /\ raced' = IF row[i].version = q.obj.version THEN raced ELSE raced \cup {i}
      /\ req' = [req EXCEPT ![r] = c]
  BY <1>0 DEF AddMerge
<1>3. /\ i \in 1..(nextId - 1) /\ i \in ItemIds /\ row[i] \in Row /\ row[i].version \in Nat
      /\ RowOK(i) /\ issued[i] \in Nat /\ nextId \in Nat /\ i < nextId
  BY <1>1, LiveIsIssued, ItemType DEF IInv, TypeInv, TypeOK, RowOK
<1>4. row'[i] = Flushed(q, row[i])
  BY <1>1, <1>2, <1>3 DEF TypeInv, TypeOK
<1>5. row'[i].product = row[i].product
  BY <1>1, <1>3, <1>4, MergedRow
<1>6. i \notin raced' => i \notin raced /\ q.obj = row[i] /\ row'[i] = Merged(q)
  <2> SUFFICES ASSUME i \notin raced' PROVE i \notin raced /\ q.obj = row[i] /\ row'[i] = Merged(q)
    OBVIOUS
  <2>1. i \notin raced /\ q.obj.version = row[i].version
    BY <1>2
  <2>2. q.obj = row[i]
    BY <1>1, <2>1 DEF RequestOK, InstanceOK, Holds
  <2> QED BY <1>1, <1>4, <2>1, <2>2, MergeOfTheRow
<1>7. Advances
  <2>1. \A j \in 1..(nextId - 1) : j # i => row'[j] = row[j]
    BY <1>1, <1>2, IssuedItem DEF TypeInv, TypeOK
  <2>2. i \notin raced' => row'[i].version > row[i].version
    BY <1>1, <1>3, <1>6, MergedRow
  <2> QED BY <1>1, <1>2, <1>3, <1>5, <2>1, <2>2 DEF Advances, listingVars
<1>8. RowOK(i)'
  <2>1. CASE i \in raced'
    BY <1>1, <1>3, <2>1 DEF RowOK, ItemIds
  <2>2. CASE i \notin raced'
    <3>1. /\ i \notin raced /\ q.obj = row[i] /\ row'[i] = Merged(q)
          /\ row'[i].version = row[i].version + 1
      BY <1>1, <1>3, <1>6, <2>2, MergedRow
    <3>2. issued'[i] = row'[i].version
      BY <1>1, <1>2, <1>3, <3>1 DEF RowOK, TypeInv, TypeOK
    <3>3. Listed(q.price, q.branch, row[i].product)
      BY <1>1 DEF RequestOK, PriceOK
    <3>4. q.price # Null => q.branch # Null
      BY <3>3 DEF Listed, Listings
    <3> QED BY <1>1, <1>3, <1>5, <2>2, <3>1, <3>2, <3>3, <3>4, MergedRow
            DEF RowOK, Listed, listingVars
  <2> QED BY <2>1, <2>2
<1>9. \A j \in ItemIds : RowOK(j)'
  <2>1. ASSUME NEW j \in ItemIds, j # i PROVE RowOK(j)'
    <3>1. row'[j] = row[j] /\ issued'[j] = issued[j]
      BY <1>1, <1>2, <2>1 DEF TypeInv, TypeOK
    <3> QED BY <1>1, <1>7, <3>1, RowKept
  <2> QED BY <1>8, <2>1
<1>10. req'[r] = c /\ \A s \in Requests \ {r} : req'[s] = req[s]
  BY <1>1, <1>2 DEF TypeInv, TypeOK
<1>11. RequestOK(req[r])'
  BY <1>1, <1>10 DEF Committed, Request, RequestOK, InstanceOK, Holds, ExpectedOK, IsVersioned, PriceOK
<1> HIDE DEF c
<1> QED BY <1>1, <1>7, <1>9, <1>10, <1>11, StepInv

LEMMA AddInsertInv ==
  ASSUME IInv, TypeInv', NEW r \in Requests, AddInsert(r)
  PROVE  IInv'
<1>0. PICK k \in ItemIds : k = nextId
  BY DEF AddInsert
<1>1. PICK o : o = Inserted(req[r])
  OBVIOUS
<1> DEFINE q == req[r]
           c == Committed(req[r], k, o)
<1>2. /\ q \in Request /\ WellFormed(q) /\ RequestOK(q) /\ TypeInv
      /\ q.pc = "read" /\ q.kind = "add" /\ q.product \in Products /\ q.quantity \in Nat
  BY RequestType DEF AddInsert, IInv, WellFormed, InFlight
<1>3. /\ k = nextId /\ k \in Nat /\ k >= 1
      /\ live' = live \cup {k} /\ nextId' = k + 1 /\ UNCHANGED <<raced, listingVars>>
  BY <1>0 DEF AddInsert, ItemIds
<1>4. row' = [row EXCEPT ![k] = o] /\ issued' = [issued EXCEPT ![k] = 1]
  BY <1>0, <1>1 DEF AddInsert
<1>5. req' = [req EXCEPT ![r] = c]
  BY <1>0, <1>1 DEF AddInsert
<1>6. row'[k] = o /\ issued'[k] = 1
  BY <1>2, <1>4 DEF TypeInv, TypeOK
<1>7. ASSUME NEW j \in ItemIds, j # k PROVE row'[j] = row[j] /\ issued'[j] = issued[j]
  BY <1>2, <1>4, <1>7 DEF TypeInv, TypeOK
<1>8. Advances
  <2>1. ASSUME NEW j \in 1..(nextId - 1) PROVE row'[j] = row[j]
    <3>1. j \in ItemIds /\ j # k
      BY <1>2, <1>3, IssuedItem
    <3> QED BY <1>7, <3>1
  <2> QED BY <1>3, <2>1 DEF Advances, listingVars
<1>9. RowOK(k)'
  <2>1. /\ o.version = 1 /\ o.product = q.product /\ o.checked = FALSE /\ o.checkedAt = FALSE
        /\ o.storeBranch = Null /\ o.priceAtCheck = Null /\ o.capturedPrice = q.price
        /\ o.capturedBranch = IF q.price = Null THEN Null ELSE q.branch
    BY <1>1 DEF Inserted, NoRow
  <2>2. Listed(q.price, q.branch, q.product)
    BY <1>2 DEF RequestOK, PriceOK
  <2>3. q.price # Null => q.branch # Null
    BY <2>2 DEF Listed, Listings
  <2>4. o.capturedBranch = Null <=> o.capturedPrice = Null
    BY <2>1, <2>3
  <2>5. k < nextId'
    BY <1>3
  <2>6. Listed(o.capturedPrice, o.capturedBranch, o.product)'
    BY <1>3, <2>1, <2>2 DEF Listed, listingVars
  <2>7. Listed(o.priceAtCheck, o.storeBranch, o.product)'
    BY <2>1 DEF Listed
  <2>8. o.checked = o.checkedAt
    BY <2>1
  <2>9. ~(k >= nextId')
    BY <1>3
  <2> HIDE DEF q
  <2> QED BY <1>6, <2>1, <2>4, <2>5, <2>6, <2>7, <2>8, <2>9 DEF RowOK
<1>10. ASSUME NEW j \in ItemIds PROVE RowOK(j)'
  BY <1>3, <1>7, <1>8, <1>9, RowKept
<1>11. req'[r] = c /\ \A s \in Requests \ {r} : req'[s] = req[s]
  BY <1>2, <1>5 DEF TypeInv, TypeOK
<1>12. c.pc = "committed" /\ c.kind = "add"
  BY <1>2 DEF Committed, Request
<1>13. RequestOK(req[r])'
  BY <1>11, <1>12 DEF RequestOK, InstanceOK, Holds, ExpectedOK, IsVersioned, PriceOK
<1> HIDE DEF c
<1> QED BY <1>3, <1>8, <1>10, <1>11, <1>13, StepInv

LEMMA WrittenRow ==
  ASSUME NEW q \in Request, NEW old \in Row
  PROVE  /\ Written(q, old).version = old.version + 1
         /\ Written(q, old).product = old.product
         /\ Written(q, old).checked = IF q.checked = Null THEN old.checked ELSE q.checked
         /\ Written(q, old).checkedAt =
              IF TakesSnapshot(q) THEN TRUE ELSE IF DropsSnapshot(q) THEN FALSE ELSE old.checkedAt
         /\ Written(q, old).storeBranch =
              IF TakesSnapshot(q) THEN q.branch ELSE IF DropsSnapshot(q) THEN Null
              ELSE old.storeBranch
         /\ Written(q, old).priceAtCheck =
              IF TakesSnapshot(q) THEN q.price ELSE IF DropsSnapshot(q) THEN Null
              ELSE old.priceAtCheck
         /\ Written(q, old).capturedBranch = IF q.kind = "capture" THEN q.target ELSE old.capturedBranch
         /\ Written(q, old).capturedPrice = IF q.kind = "capture" THEN q.price ELSE old.capturedPrice
BY DEF Written, Row

\* The version test makes the instance the row: the version sent is no newer than
\* the instance, and the instance no newer than the row.
LEMMA TestedInstanceIsRow ==
  ASSUME IInv, NEW r \in Requests, req[r].pc = "read", IsVersioned(req[r]), VersionMatches(req[r]),
         req[r].item \notin raced
  PROVE  req[r].obj = row[req[r].item]
<1>1. /\ req[r] \in Request /\ RequestOK(req[r]) /\ Holds(req[r])
      /\ req[r].item \in live
  BY RequestType DEF IInv, Holds, IsVersioned, VersionMatches
<1>2. row[req[r].item].version \in Nat /\ req[r].obj.version \in Nat /\ req[r].expected \in Nat
  BY <1>1, LiveIsIssued, ItemType DEF IInv, Request, Row
<1> QED BY <1>1, <1>2 DEF RequestOK, InstanceOK, ExpectedOK, VersionMatches

LEMMA VersionedWriteInv ==
  ASSUME IInv, TypeInv', NEW r \in Requests, VersionedWrite(r)
  PROVE  IInv'
<1>0. PICK i \in ItemIds : i = req[r].item
  BY RequestType DEF VersionedWrite, IInv, WellFormed, InFlight
<1>1. PICK o : o = Written(req[r], row[i])
  OBVIOUS
<1> DEFINE q == req[r]
           c == Committed(req[r], i, Written(req[r], req[r].obj))
<1>2. /\ q \in Request /\ WellFormed(q) /\ RequestOK(q) /\ TypeInv /\ q.expected \in Nat
      /\ q.pc = "read" /\ q.kind \in {"update", "capture"} /\ i = q.item
      /\ i \in live /\ row[i].version = q.expected /\ UNCHANGED <<live, nextId, raced, listingVars>>
  BY <1>0, RequestType DEF VersionedWrite, VersionMatches, IInv, Request
<1>3. /\ row' = [row EXCEPT ![i] = o] /\ req' = [req EXCEPT ![r] = c]
      /\ issued' = [issued EXCEPT ![i] = IF @ > q.expected THEN @ ELSE q.expected + 1]
  BY <1>0, <1>1 DEF VersionedWrite
<1>4. /\ i \in 1..(nextId - 1) /\ row[i] \in Row /\ row[i].version \in Nat
      /\ RowOK(i) /\ issued[i] \in Nat /\ nextId \in Nat /\ i < nextId
  BY <1>2, LiveIsIssued, ItemType DEF IInv, TypeInv, TypeOK, RowOK
<1>5. /\ row'[i] = o /\ o.version = q.expected + 1 /\ o.product = row[i].product
      /\ issued'[i] = IF issued[i] > q.expected THEN issued[i] ELSE q.expected + 1
  <2>0. q \in Request /\ row[i] \in Row
    BY <1>2, <1>4
  <2>1. o.version = row[i].version + 1 /\ o.product = row[i].product
    BY <1>1, <2>0, WrittenRow
  <2>2. row \in [ItemIds -> Row] /\ issued \in [ItemIds -> Nat]
    BY <1>2 DEF TypeInv, TypeOK
  <2> HIDE DEF q
  <2>3. row'[i] = o /\ issued'[i] = IF issued[i] > q.expected THEN issued[i] ELSE q.expected + 1
    BY <1>3, <2>2
  <2> QED BY <1>2, <2>1, <2>3
<1>6. ASSUME NEW j \in ItemIds, j # i PROVE row'[j] = row[j] /\ issued'[j] = issued[j]
  BY <1>2, <1>3, <1>6 DEF TypeInv, TypeOK
<1>7. Advances
  <2>1. ASSUME NEW j \in 1..(nextId - 1), j # i PROVE row'[j] = row[j]
    BY <1>2, <1>6, <2>1, IssuedItem
  <2> QED BY <1>2, <1>4, <1>5, <2>1 DEF Advances, listingVars
<1>8. RowOK(i)'
  <2>1. CASE i \in raced'
    BY <1>2, <1>4, <2>1 DEF RowOK
  <2>2. CASE i \notin raced'
    <3>1. i \notin raced /\ q.obj = row[i]
      BY <1>2, <2>2, TestedInstanceIsRow DEF IsVersioned, VersionMatches
    <3>2. issued'[i] = row'[i].version
      BY <1>2, <1>4, <1>5, <3>1 DEF RowOK
    <3>3. /\ o.checked = IF q.checked = Null THEN row[i].checked ELSE q.checked
          /\ o.checkedAt = IF TakesSnapshot(q) THEN TRUE ELSE IF DropsSnapshot(q) THEN FALSE
                           ELSE row[i].checkedAt
          /\ o.storeBranch = IF TakesSnapshot(q) THEN q.branch ELSE IF DropsSnapshot(q) THEN Null
                             ELSE row[i].storeBranch
          /\ o.priceAtCheck = IF TakesSnapshot(q) THEN q.price ELSE IF DropsSnapshot(q) THEN Null
                              ELSE row[i].priceAtCheck
          /\ o.capturedBranch = IF q.kind = "capture" THEN q.target ELSE row[i].capturedBranch
          /\ o.capturedPrice = IF q.kind = "capture" THEN q.price ELSE row[i].capturedPrice
      <4>1. q \in Request /\ row[i] \in Row
        BY <1>2, <1>4
      <4> QED BY ZenonT(40), SMTT(30), <1>1, <4>1, WrittenRow
    <3>4. row[i].checked \in BOOLEAN /\ q.checked \in {TRUE, FALSE, Null}
      BY <1>2, <1>4 DEF Request, Row, OrNull
    <3>5. q.kind = "capture" => q.checked = Null /\ q.price # Null /\ q.target # Null
      BY <1>2 DEF RequestOK, PriceOK, WellFormed, InFlight
    <3>6. /\ row[i].checked = row[i].checkedAt
          /\ ~row[i].checked => row[i].storeBranch = Null /\ row[i].priceAtCheck = Null
          /\ row[i].capturedBranch = Null <=> row[i].capturedPrice = Null
      BY <1>4, <3>1 DEF RowOK
    <3>7. o.checked = o.checkedAt
      <4>1. CASE q.checked = Null
        BY <3>1, <3>3, <3>6, <4>1 DEF TakesSnapshot, DropsSnapshot
      <4>2. CASE q.checked = TRUE
        BY <3>1, <3>3, <3>4, <3>6, <4>2 DEF TakesSnapshot, DropsSnapshot
      <4>3. CASE q.checked = FALSE
        BY <3>1, <3>3, <3>4, <3>6, <4>3 DEF TakesSnapshot, DropsSnapshot
      <4> QED BY <3>4, <4>1, <4>2, <4>3
    <3>8. ~o.checked => o.storeBranch = Null /\ o.priceAtCheck = Null
      BY <3>1, <3>3, <3>4, <3>6 DEF TakesSnapshot, DropsSnapshot
    <3>9. o.capturedBranch = Null <=> o.capturedPrice = Null
      BY <3>3, <3>5, <3>6
    <3>10. Listed(o.capturedPrice, o.capturedBranch, o.product)
      BY <1>2, <1>4, <1>5, <3>1, <3>3 DEF RequestOK, PriceOK, RowOK
    <3>11. Listed(o.priceAtCheck, o.storeBranch, o.product)
      <4>1. CASE TakesSnapshot(q)
        <5>1. q.kind = "update"
          BY <1>2, <3>5, <4>1 DEF TakesSnapshot
        <5> QED BY <1>2, <1>5, <3>1, <3>3, <4>1, <5>1 DEF RequestOK, PriceOK
      <4>2. CASE ~TakesSnapshot(q)
        BY <1>4, <1>5, <3>1, <3>3, <4>2 DEF RowOK, Listed
      <4> QED BY <4>1, <4>2
    <3>12. /\ Listed(o.capturedPrice, o.capturedBranch, o.product)'
           /\ Listed(o.priceAtCheck, o.storeBranch, o.product)'
      BY <1>2, <3>10, <3>11 DEF Listed, listingVars
    <3>13. i < nextId' /\ ~(i >= nextId')
      BY <1>2, <1>4
    <3> HIDE DEF q
    <3> QED BY <1>5, <3>2, <3>7, <3>8, <3>9, <3>12, <3>13 DEF RowOK
  <2> QED BY <2>1, <2>2
<1>9. ASSUME NEW j \in ItemIds PROVE RowOK(j)'
  BY <1>2, <1>6, <1>7, <1>8, RowKept
<1>10. req'[r] = c /\ \A s \in Requests \ {r} : req'[s] = req[s]
  BY <1>2, <1>3 DEF TypeInv, TypeOK
<1>11. c.pc = "committed" /\ c.kind = q.kind /\ c.item = i /\ c.expected = q.expected
  BY <1>2 DEF Committed, Request
<1>12. q.expected < row'[i].version /\ i \in 1..(nextId' - 1)
  BY <1>2, <1>4, <1>5
<1>13. RequestOK(req[r])'
  BY <1>10, <1>11, <1>12 DEF RequestOK, InstanceOK, Holds, ExpectedOK, IsVersioned, PriceOK
<1> HIDE DEF c
<1> QED BY <1>2, <1>7, <1>9, <1>10, <1>13, StepInv

-----------------------------------------------------------------------------
(* The invariant                                                           *)

LEMMA IInvInit == Init => IInv
<1> SUFFICES ASSUME Init PROVE IInv
  OBVIOUS
<1>1. TypeInv
  BY TypeInvInit
<1>2. ASSUME NEW i \in ItemIds PROVE RowOK(i)
  BY DEF Init, RowOK, ItemIds, NoRow, Listed
<1>3. ASSUME NEW l \in Listings PROVE ListingOK(l)
  BY StockedOK DEF ListingOK
<1>4. ASSUME NEW r \in Requests PROVE RequestOK(req[r])
  BY DEF Init, NoRequest, AllKinds, RequestOK, InstanceOK, Holds, ExpectedOK, IsVersioned, PriceOK
<1> QED BY <1>1, <1>2, <1>3, <1>4 DEF IInv

LEMMA IInvNext == IInv /\ [Next]_vars => IInv'
<1> SUFFICES ASSUME IInv, [Next]_vars PROVE IInv'
  OBVIOUS
<1>0. TypeInv'
  BY TypeInvNext DEF IInv
<1>1. ASSUME NEW r \in Requests, Add(r) PROVE IInv'
  BY <1>0, <1>1, AddStartInv, AddReadInv, AddMergeInv, AddInsertInv, AnswersInv DEF Add
<1>2. ASSUME NEW r \in Requests, VersionedUpdate(r) PROVE IInv'
  BY <1>0, <1>2, UpdateStartInv, UpdateReadInv, CaptureReadInv, VersionedWriteInv, AnswersInv
     DEF VersionedUpdate
<1>3. ASSUME NEW r \in Requests, Delete(r) PROVE IInv'
  BY <1>0, <1>3, AddStartInv, DeleteReadInv, DeleteWriteInv DEF Delete
<1>4. ASSUME NEW r \in Requests, SetActiveBranch(r) PROVE IInv'
  BY <1>0, <1>4, AddStartInv, AnswersInv DEF SetActiveBranch
<1>5. ASSUME NEW r \in Requests,
             Publish(r) \/ ArchiveList(r) \/ DeleteList(r) \/ RemoveMember(r)
      PROVE  IInv'
  BY <1>0, <1>5, PublishInv, AnswersInv
<1>6. ASSUME NEW l \in Listings, ListingChange(l) \/ ListingStatusChange(l) PROVE IInv'
  BY <1>0, <1>6, ListingStepInv
<1>7. CASE UNCHANGED vars
  <2>1. UNCHANGED <<nextId, live, row, issued, raced, listing, everListed, req>>
    BY <1>7 DEF vars, rowVars, listingVars
  <2>2. \A i \in ItemIds : RowOK(i)'
    BY <2>1 DEF IInv, RowOK, Listed
  <2>3. \A l \in Listings : ListingOK(l)'
    BY <2>1 DEF IInv, ListingOK
  <2>4. \A s \in Requests : RequestOK(req[s])'
    BY <2>1 DEF IInv, RequestOK, InstanceOK, Holds, ExpectedOK, IsVersioned, Accepted, PriceOK,
       Listed, TakesSnapshot
  <2> QED BY <1>0, <2>2, <2>3, <2>4 DEF IInv
<1> QED BY <1>1, <1>2, <1>3, <1>4, <1>5, <1>6, <1>7 DEF Next

LEMMA Invariance == Spec => []IInv
BY IInvInit, IInvNext, PTL DEF Spec

-----------------------------------------------------------------------------
(* What follows from it                                                    *)

\* The purchase snapshot of a row agrees with its check mark, however many requests
\* check and uncheck the item at once.
THEOREM SnapshotAgrees == Spec => []SnapshotIffChecked
<1>1. IInv => SnapshotIffChecked
  BY DEF IInv, TypeInv, TypeOK, RowOK, SnapshotIffChecked, Trusted
<1> QED BY <1>1, Invariance, PTL

\* The price captured on a row was listed at the branch captured with it.
THEOREM CapturesAreListed == Spec => []CapturedPriceWasListed
<1>1. IInv => CapturedPriceWasListed
  BY DEF IInv, TypeInv, TypeOK, RowOK, CapturedPriceWasListed, Trusted, Listed
<1> QED BY <1>1, Invariance, PTL

\* The price a purchase is recorded with was listed at the branch it is attributed to.
THEOREM PurchasesAreListed == Spec => []CheckedPriceWasListed
<1>1. IInv => CheckedPriceWasListed
  BY DEF IInv, TypeInv, TypeOK, RowOK, CheckedPriceWasListed, Trusted, Listed, Listings
<1> QED BY <1>1, Invariance, PTL

-----------------------------------------------------------------------------
(* The first writer of a version wins                                      *)

Winner(q) == IsVersioned(q) /\ Accepted(q)


\* A step moves one request, and only a versioned write makes it a winner.
Moves(r) ==
    \E q : /\ req' = [req EXCEPT ![r] = q]
           /\ Winner(q) => \/ VersionedWrite(r)
                           \/ /\ Winner(req[r])
                              /\ q.item = req[r].item /\ q.expected = req[r].expected

LEMMA ReplyMoves ==
  ASSUME IInv, NEW r \in Requests, NEW result, NEW body, Reply(r, result, body),
         result # "ok" \/ ~IsVersioned(req[r]) \/ req[r].pc = "committed"
  PROVE  Moves(r)
<1> DEFINE a == Answer(req[r], result, body)
<1>1. a.pc = "done" /\ a.kind = req[r].kind /\ a.item = req[r].item
      /\ a.expected = req[r].expected /\ a.result = result
  BY DEF Answer, NoRequest
<1>2. req' = [req EXCEPT ![r] = a]
  BY DEF Reply
<1> HIDE DEF a
<1> QED BY <1>1, <1>2 DEF Moves, Winner, Accepted, IsVersioned

LEMMA AuthorizeMoves ==
  ASSUME IInv, NEW r \in Requests, NEW u \in Users, NEW call \in Request, call.result = Null,
         Authorize(r, u, call)
  PROVE  Moves(r)
<1> DEFINE denied(result) == Answer(call, result, 0)
           passed == [call EXCEPT !.pc = "authorized", !.branch = activeBranch]
<1>1. PICK q \in {denied("not_found"), denied("denied"), passed} : req' = [req EXCEPT ![r] = q]
  BY DEF Authorize, CanEditItems
<1>2. /\ denied("not_found").pc = "done" /\ denied("not_found").result = "not_found"
      /\ denied("denied").pc = "done" /\ denied("denied").result = "denied"
      /\ passed.pc = "authorized"
  BY DEF Answer, NoRequest, Request
<1> HIDE DEF denied, passed
<1> QED BY <1>1, <1>2 DEF Moves, Winner, Accepted

LEMMA StartMoves ==
  ASSUME IInv, NEW r \in Requests,
         \/ AddStart(r) \/ UpdateStart(r) \/ CaptureStart(r) \/ DeleteStart(r) \/ BranchStart(r)
  PROVE  Moves(r)
<1>1. CASE AddStart(r)
  BY <1>1, AddCallType, AuthorizeMoves DEF AddStart, NoRequest
<1>2. CASE UpdateStart(r)
  <2>1. PICK u \in Users, i \in ItemIds, n \in OrNull(Quantities), c \in OrNull(BOOLEAN) :
          \E v \in KnownVersions(i) :
            Authorize(r, u, [NoRequest EXCEPT !.kind = "update", !.item = i,
                                              !.expected = v, !.quantity = n, !.checked = c])
    BY <1>2 DEF UpdateStart
  <2>2. PICK v \in KnownVersions(i) :
          Authorize(r, u, [NoRequest EXCEPT !.kind = "update", !.item = i,
                                            !.expected = v, !.quantity = n, !.checked = c])
    BY <2>1
  <2> QED BY <2>2, KnownVersion, UpdateCallType, AuthorizeMoves DEF NoRequest
<1>3. CASE CaptureStart(r)
  <2>1. PICK u \in Users, i \in ItemIds, b \in Branches, p \in Products :
          \E v \in KnownVersions(i), w \in 1..listing[<<b, p>>].version :
            Authorize(r, u, [NoRequest EXCEPT !.kind = "capture", !.item = i, !.expected = v,
                                              !.target = b, !.product = p, !.listingVersion = w])
    BY <1>3 DEF CaptureStart
  <2>2. PICK v \in KnownVersions(i), w \in 1..listing[<<b, p>>].version :
          Authorize(r, u, [NoRequest EXCEPT !.kind = "capture", !.item = i, !.expected = v,
                                            !.target = b, !.product = p, !.listingVersion = w])
    BY <2>1
  <2>3. listing[<<b, p>>] \in Listing
    BY DEF IInv, TypeInv, TypeOK, Listings
  <2>4. w \in Nat
    BY <2>3 DEF Listing
  <2> QED BY <2>2, <2>4, KnownVersion, CaptureCallType, AuthorizeMoves DEF NoRequest
<1>4. CASE DeleteStart(r)
  BY <1>4, DeleteCallType, AuthorizeMoves DEF DeleteStart, NoRequest
<1>5. CASE BranchStart(r)
  BY <1>5, BranchCallType, AuthorizeMoves DEF BranchStart, NoRequest
<1> QED BY <1>1, <1>2, <1>3, <1>4, <1>5

LEMMA ReadMoves ==
  ASSUME IInv, NEW r \in Requests,
         AddRead(r) \/ UpdateRead(r) \/ CaptureRead(r) \/ DeleteRead(r)
  PROVE  Moves(r)
<1>1. req[r] \in Request
  BY RequestType DEF IInv
<1>2. ASSUME NEW q, req' = [req EXCEPT ![r] = q], q.pc = "read" PROVE Moves(r)
  BY <1>2 DEF Moves, Winner, Accepted
<1>3. CASE AddRead(r)
  <2>1. ToInsert(req[r]).pc = "read" /\ \A i \in live : ToMerge(req[r], i).pc = "read"
    BY <1>1 DEF ToInsert, ToMerge, Request
  <2>2. ASSUME NEW i \in live, req' = [req EXCEPT ![r] = Committed(req[r], i, row[i])]
        PROVE  Moves(r)
    <3>1. Committed(req[r], i, row[i]).kind = "add"
      BY <1>1, <1>3 DEF Committed, Request, AddRead
    <3> QED BY <2>2, <3>1 DEF Moves, Winner, IsVersioned
  <2> QED BY <1>2, <1>3, <2>1, <2>2, ReplyMoves DEF AddRead, RowsWithProduct, RowsWithRequestId
<1>4. CASE UpdateRead(r)
  <2>1. ToWrite(req[r]).pc = "read" /\ ToCheck(req[r]).pc = "read"
    BY <1>1 DEF ToWrite, ToCheck, Request
  <2> QED BY <1>2, <1>4, <2>1, ReplyMoves DEF UpdateRead
<1>5. CASE CaptureRead(r)
  <2>1. ToCapture(req[r]).pc = "read"
    BY <1>1 DEF ToCapture, Request
  <2> QED BY <1>2, <1>5, <2>1, ReplyMoves DEF CaptureRead
<1>6. CASE DeleteRead(r)
  <2>1. ToWrite(req[r]).pc = "read"
    BY <1>1 DEF ToWrite, Request
  <2> QED BY <1>2, <1>6, <2>1, ReplyMoves DEF DeleteRead, IsVersioned
<1> QED BY <1>3, <1>4, <1>5, <1>6

LEMMA WriteMoves ==
  ASSUME IInv, NEW r \in Requests,
         AddMerge(r) \/ AddInsert(r) \/ VersionedWrite(r) \/ DeleteWrite(r)
  PROVE  Moves(r)
<1>1. req[r] \in Request
  BY RequestType DEF IInv
<1>2. ASSUME NEW i, NEW o, req[r].kind \in {"add", "delete"},
             req' = [req EXCEPT ![r] = Committed(req[r], i, o)]
      PROVE  Moves(r)
  <2>1. Committed(req[r], i, o).kind = req[r].kind
    BY <1>1 DEF Committed, Request
  <2> QED BY <1>2, <2>1 DEF Moves, Winner, IsVersioned
<1>3. CASE VersionedWrite(r)
  BY <1>3 DEF VersionedWrite, Moves
<1> QED BY <1>2, <1>3 DEF AddMerge, AddInsert, DeleteWrite

LEMMA AnswerMoves ==
  ASSUME IInv, NEW r \in Requests,
         \/ AddMergeGone(r) \/ AddInsertViolatesConstraint(r) \/ VersionedConflict(r)
         \/ BranchWrite(r) \/ ArchiveList(r) \/ DeleteList(r) \/ RemoveMember(r) \/ Publish(r)
  PROVE  Moves(r)
<1>1. ASSUME BranchWrite(r) \/ ArchiveList(r) \/ DeleteList(r) \/ RemoveMember(r)
      PROVE  ~IsVersioned(req[r]) /\ Reply(r, "ok", 0)
  BY <1>1 DEF BranchWrite, ArchiveList, DeleteList, RemoveMember, ByOwner, IInv, RequestOK,
     ExpectedOK, IsVersioned
<1>2. ASSUME AddMergeGone(r) \/ AddInsertViolatesConstraint(r) \/ VersionedConflict(r)
      PROVE  Reply(r, "error", 0) \/ Reply(r, "conflict", req[r].obj.version)
  BY <1>2 DEF AddMergeGone, AddInsertViolatesConstraint, VersionedConflict
<1>3. ASSUME Publish(r)
      PROVE  Reply(r, "ok", req[r].obj.version) /\ req[r].pc = "committed"
  BY <1>3 DEF Publish
<1> QED BY <1>1, <1>2, <1>3, ReplyMoves

LEMMA RequestMoves ==
  ASSUME IInv, [Next]_vars
  PROVE  req' = req \/ \E r \in Requests : Moves(r)
<1>1. ASSUME NEW r \in Requests, Add(r) \/ VersionedUpdate(r) \/ Delete(r) \/ SetActiveBranch(r)
             \/ Publish(r) \/ ArchiveList(r) \/ DeleteList(r) \/ RemoveMember(r)
      PROVE  Moves(r)
  BY <1>1, StartMoves, ReadMoves, WriteMoves, AnswerMoves
     DEF Add, VersionedUpdate, Delete, SetActiveBranch
<1>2. ASSUME NEW l \in Listings, ListingChange(l) \/ ListingStatusChange(l) PROVE req' = req
  BY <1>2 DEF ListingChange, ListingStatusChange
<1> QED BY <1>1, <1>2 DEF Next, vars

LEMMA StartKeepsTables ==
  ASSUME NEW r \in Requests,
         \/ AddStart(r) \/ UpdateStart(r) \/ CaptureStart(r) \/ DeleteStart(r) \/ BranchStart(r)
  PROVE  UNCHANGED <<listVars, rowVars, listingVars>>
<1>1. ASSUME NEW u \in Users, NEW call, Authorize(r, u, call)
      PROVE  UNCHANGED <<listVars, rowVars, listingVars>>
  BY <1>1 DEF Authorize
<1>2. CASE AddStart(r)
  BY <1>1, <1>2 DEF AddStart
<1>3. CASE UpdateStart(r)
  BY <1>1, <1>3 DEF UpdateStart
<1>4. CASE CaptureStart(r)
  BY <1>1, <1>4 DEF CaptureStart
<1>5. CASE DeleteStart(r) \/ BranchStart(r)
  BY <1>1, <1>5 DEF DeleteStart, BranchStart
<1> QED BY <1>2, <1>3, <1>4, <1>5

LEMMA RacedStays == ASSUME IInv, [Next]_vars PROVE raced \subseteq raced'
<1>1. ASSUME NEW r \in Requests, Add(r) PROVE raced \subseteq raced'
  BY <1>1, StartKeepsTables DEF Add, AddRead, AddMerge, AddMergeGone, AddInsert,
     AddInsertViolatesConstraint, rowVars
<1>2. ASSUME NEW r \in Requests, VersionedUpdate(r) \/ Delete(r) \/ SetActiveBranch(r) \/ Publish(r)
        \/ ArchiveList(r) \/ DeleteList(r) \/ RemoveMember(r)
      PROVE raced' = raced
  BY <1>2, StartKeepsTables
     DEF VersionedUpdate, Delete, SetActiveBranch, Publish, ArchiveList, DeleteList, RemoveMember,
         UpdateRead, CaptureRead, VersionedWrite, VersionedConflict, DeleteRead, DeleteWrite,
         BranchWrite, rowVars
<1>3. ASSUME NEW l \in Listings, ListingChange(l) \/ ListingStatusChange(l) PROVE raced' = raced
  BY <1>3 DEF ListingChange, ListingStatusChange, rowVars
<1> QED BY <1>1, <1>2, <1>3 DEF Next, vars, rowVars

LEMMA WinnersStep == IInv /\ NoTwoWinners /\ [Next]_vars => NoTwoWinners'
<1> SUFFICES ASSUME IInv, NoTwoWinners, [Next]_vars,
                    NEW r \in Requests, NEW s \in Requests, r # s,
                    Winner(req'[r]), Winner(req'[s]), req'[r].item = req'[s].item,
                    req'[r].item \notin raced'
             PROVE  req'[r].expected # req'[s].expected
  BY DEF NoTwoWinners, Winner, IsVersioned, Accepted
<1>1. req'[r].item \notin raced
  BY RacedStays
<1>2. ASSUME NEW t \in Requests, req'[t] # req[t], Winner(req'[t])
      PROVE  \/ VersionedWrite(t)
             \/ Winner(req[t]) /\ req'[t].item = req[t].item /\ req'[t].expected = req[t].expected
  BY <1>2, RequestMoves DEF Moves, IInv, TypeInv, TypeOK
<1>3. req'[r] = req[r] \/ req'[s] = req[s]
  BY RequestMoves DEF Moves, IInv, TypeInv, TypeOK
\* The version the write finds is newer than any that another request won with.
<1>4. ASSUME NEW t \in Requests, NEW o \in Requests, VersionedWrite(t), req'[o] = req[o],
             Winner(req[o]), req'[t].item = req[o].item, req[o].item \notin raced
      PROVE  req'[t].expected # req[o].expected
  <2>1. req[t] \in Request /\ req[o] \in Request /\ RequestOK(req[o])
    BY RequestType DEF IInv
  <2>2. req'[t].item = req[t].item /\ req'[t].expected = req[t].expected
    <3>1. req'[t] = Committed(req[t], req[t].item, Written(req[t], req[t].obj))
      BY <1>4 DEF VersionedWrite, IInv, TypeInv, TypeOK
    <3> QED BY <2>1, <3>1 DEF Committed, Request
  <2>3. row[req[t].item].version = req[t].expected /\ req[t].expected \in Nat
    BY <1>4, <2>1 DEF VersionedWrite, VersionMatches, Request
  <2>4. req[o].expected < row[req[o].item].version
    BY <1>4, <2>1 DEF Winner, RequestOK, ExpectedOK
  <2> QED BY <1>4, <2>1, <2>2, <2>3, <2>4 DEF Request
<1>5. CASE req'[r] = req[r] /\ req'[s] = req[s]
  BY <1>1, <1>5 DEF NoTwoWinners, Winner, IsVersioned, Accepted
<1>6. CASE req'[r] # req[r]
  <2>1. CASE VersionedWrite(r)
    BY <1>1, <1>3, <1>4, <1>6, <2>1
  <2>2. CASE Winner(req[r]) /\ req'[r].item = req[r].item /\ req'[r].expected = req[r].expected
    BY <1>1, <1>3, <1>6, <2>2 DEF NoTwoWinners, Winner, IsVersioned, Accepted
  <2> QED BY <1>2, <1>6, <2>1, <2>2
<1>7. CASE req'[s] # req[s]
  <2>1. CASE VersionedWrite(s)
    BY <1>1, <1>3, <1>4, <1>7, <2>1
  <2>2. CASE Winner(req[s]) /\ req'[s].item = req[s].item /\ req'[s].expected = req[s].expected
    BY <1>1, <1>3, <1>7, <2>2 DEF NoTwoWinners, Winner, IsVersioned, Accepted
  <2> QED BY <1>2, <1>7, <2>1, <2>2
<1> QED BY <1>5, <1>6, <1>7

\* Optimistic locking works: of all the requests that sent the same version of a row
\* that no merge raced, at most one is accepted.
THEOREM FirstWriterWins == Spec => []NoTwoWinners
<1>1. Init => NoTwoWinners
  BY DEF Init, NoTwoWinners, NoRequest, Accepted
<1> QED BY <1>1, WinnersStep, Invariance, PTL DEF Spec

-----------------------------------------------------------------------------
(* What a step may do to a row                                             *)

LEMMA RowChanges ==
  ASSUME IInv, [Next]_vars, NEW i \in live, i \notin raced', row'[i] # row[i]
  PROVE  \E r \in Requests :
           /\ req[r] \in Request /\ req[r].obj = row[i] /\ row[i] \in Row
           /\ \/ req[r].quantity \in Nat /\ row'[i] = Merged(req[r])
              \/ row'[i] = Written(req[r], row[i])
<1>1. /\ TypeInv /\ i \in ItemIds /\ row[i] \in Row /\ i # nextId /\ i \notin raced
      /\ row \in [ItemIds -> Row]
  BY LiveIsIssued, RacedStays DEF IInv, TypeInv, TypeOK
<1>2. ASSUME NEW r \in Requests, AddMerge(r)
      PROVE  /\ req[r] \in Request /\ req[r].obj = row[i]
             /\ req[r].quantity \in Nat /\ row'[i] = Merged(req[r])
  <2>1. /\ req[r] \in Request /\ RequestOK(req[r]) /\ req[r].quantity \in Nat
        /\ Holds(req[r])
    BY <1>2, RequestType DEF AddMerge, IInv, WellFormed, InFlight, Holds
  <2>2. i = req[r].item /\ row'[i] = Flushed(req[r], row[i])
    BY <1>1, <1>2 DEF AddMerge
  <2>3. req[r].obj.version = row[i].version
    BY <1>1, <1>2, <2>2 DEF AddMerge
  <2>4. req[r].obj = row[i]
    BY <1>1, <2>1, <2>2, <2>3 DEF RequestOK, InstanceOK
  <2> QED BY <2>1, <2>2, <2>4, MergeOfTheRow
<1>3. ASSUME NEW r \in Requests, VersionedWrite(r)
      PROVE  req[r] \in Request /\ req[r].obj = row[i] /\ row'[i] = Written(req[r], row[i])
  <2>1. i = req[r].item /\ row'[i] = Written(req[r], row[i])
    BY <1>1, <1>3 DEF VersionedWrite
  <2>2. req[r].obj = row[i]
    BY <1>1, <1>3, <2>1, TestedInstanceIsRow DEF VersionedWrite, IsVersioned
  <2> QED BY <2>1, <2>2, RequestType DEF IInv
<1>4. ASSUME NEW r \in Requests, Add(r) PROVE AddMerge(r)
  BY <1>1, <1>4, StartKeepsTables DEF Add, AddRead, AddMergeGone, AddInsert,
     AddInsertViolatesConstraint, rowVars
<1>5. ASSUME NEW r \in Requests, VersionedUpdate(r) PROVE VersionedWrite(r)
  BY <1>5, StartKeepsTables DEF VersionedUpdate, UpdateRead, CaptureRead, VersionedConflict, rowVars
<1>6. ASSUME NEW r \in Requests, Delete(r) \/ SetActiveBranch(r) \/ Publish(r)
        \/ ArchiveList(r) \/ DeleteList(r) \/ RemoveMember(r)
      PROVE  FALSE
  BY <1>6, StartKeepsTables DEF Delete, SetActiveBranch, Publish, ArchiveList, DeleteList,
     RemoveMember, DeleteRead, DeleteWrite, BranchWrite, rowVars
<1>7. ASSUME NEW l \in Listings, ListingChange(l) \/ ListingStatusChange(l) PROVE FALSE
  BY <1>7 DEF ListingChange, ListingStatusChange, rowVars
<1> QED BY <1>1, <1>2, <1>3, <1>4, <1>5, <1>6, <1>7 DEF Next, vars, rowVars

\* A row that no merge raced moves from one version to the next whenever it changes.
THEOREM VersionsAdvance == Spec => VersionAdvances
<1>1. ASSUME IInv, [Next]_vars, NEW i \in Trusted, i \notin raced', row'[i] # row[i]
      PROVE  row'[i].version = row[i].version + 1
  <2>1. PICK r \in Requests :
           /\ req[r] \in Request /\ req[r].obj = row[i] /\ row[i] \in Row
           /\ \/ req[r].quantity \in Nat /\ row'[i] = Merged(req[r])
              \/ row'[i] = Written(req[r], row[i])
    BY <1>1, RowChanges DEF Trusted
  <2>2. CASE req[r].quantity \in Nat /\ row'[i] = Merged(req[r])
    BY <2>1, <2>2, MergedRow
  <2>3. CASE row'[i] = Written(req[r], row[i])
    <3>1. Written(req[r], row[i]).version = row[i].version + 1
      BY <2>1, WrittenRow
    <3> QED BY <2>3, <3>1
  <2> QED BY <2>1, <2>2, <2>3
<1>2. IInv /\ [Next]_vars =>
        [\A i \in Trusted : i \notin raced' /\ row'[i] # row[i] =>
             row'[i].version = row[i].version + 1]_vars
  BY <1>1
<1> QED BY <1>2, Invariance, PTL DEF Spec, VersionAdvances

\* While an item that no merge raced stays checked, its purchase snapshot is frozen.
THEOREM SnapshotsAreFrozen == Spec => SnapshotFrozen
<1>1. ASSUME IInv, [Next]_vars, NEW i \in Trusted, i \notin raced', row[i].checked, row'[i].checked,
             row'[i] # row[i]
      PROVE  row'[i].priceAtCheck = row[i].priceAtCheck /\ row'[i].storeBranch = row[i].storeBranch
  <2>1. PICK r \in Requests :
           /\ req[r] \in Request /\ req[r].obj = row[i] /\ row[i] \in Row
           /\ \/ req[r].quantity \in Nat /\ row'[i] = Merged(req[r])
              \/ row'[i] = Written(req[r], row[i])
    BY <1>1, RowChanges DEF Trusted
  <2>2. CASE req[r].quantity \in Nat /\ row'[i] = Merged(req[r])
    BY <2>1, <2>2, MergedRow
  <2>3. CASE row'[i] = Written(req[r], row[i])
    <3>1. TakesSnapshot(req[r]) = FALSE
      BY <1>1, <2>1 DEF TakesSnapshot
    <3>2. Written(req[r], row[i]).checked
            = IF req[r].checked = Null THEN row[i].checked ELSE req[r].checked
      BY <2>1, WrittenRow
    <3>3. req[r].checked # FALSE
      <4> SUFFICES ASSUME req[r].checked = FALSE PROVE FALSE
        OBVIOUS
      <4>1. row'[i].checked = FALSE
        BY <2>3, <3>2
      <4> QED BY <1>1, <4>1
    <3>4. DropsSnapshot(req[r]) = FALSE
      BY <3>3 DEF DropsSnapshot
    <3>5. /\ Written(req[r], row[i]).storeBranch =
               IF TakesSnapshot(req[r]) THEN req[r].branch
               ELSE IF DropsSnapshot(req[r]) THEN Null ELSE row[i].storeBranch
          /\ Written(req[r], row[i]).priceAtCheck =
               IF TakesSnapshot(req[r]) THEN req[r].price
               ELSE IF DropsSnapshot(req[r]) THEN Null ELSE row[i].priceAtCheck
      BY <2>1, WrittenRow
    <3> QED BY <2>3, <3>1, <3>4, <3>5
  <2> QED BY <2>1, <2>2, <2>3
<1>2. IInv /\ [Next]_vars =>
        [\A i \in Trusted : i \notin raced' /\ row[i].checked /\ row'[i].checked =>
            /\ row'[i].priceAtCheck = row[i].priceAtCheck
            /\ row'[i].storeBranch = row[i].storeBranch]_vars
  BY <1>1
<1> QED BY <1>2, Invariance, PTL DEF Spec, SnapshotFrozen

-----------------------------------------------------------------------------
(* The instance a request commits is the row it wrote                      *)

\* A step moves one request; unless it deletes, it commits nothing or the row.
CommitsTheRow(r) ==
    \E q : /\ req' = [req EXCEPT ![r] = q]
           /\ q.pc = "committed" /\ q.kind # "delete" /\ q.item \notin raced'
                => q.obj = row'[q.item]

LEMMA ReplyCommitsNothing ==
  ASSUME NEW r \in Requests, NEW result, NEW body, Reply(r, result, body)
  PROVE  CommitsTheRow(r)
<1>1. Answer(req[r], result, body).pc = "done"
  BY DEF Answer, NoRequest
<1> QED BY <1>1 DEF Reply, CommitsTheRow

LEMMA StartCommitsNothing ==
  ASSUME IInv, NEW r \in Requests,
         \/ AddStart(r) \/ UpdateStart(r) \/ CaptureStart(r) \/ DeleteStart(r) \/ BranchStart(r)
  PROVE  CommitsTheRow(r)
<1>1. ASSUME NEW u \in Users, NEW call, DOMAIN call = DOMAIN NoRequest, Authorize(r, u, call)
      PROVE  CommitsTheRow(r)
  <2> DEFINE passed == [call EXCEPT !.pc = "authorized", !.branch = activeBranch]
  <2>1. PICK q \in {Answer(call, "not_found", 0), Answer(call, "denied", 0), passed} :
          req' = [req EXCEPT ![r] = q]
    BY <1>1 DEF Authorize, CanEditItems
  <2>2. Answer(call, "not_found", 0).pc = "done" /\ Answer(call, "denied", 0).pc = "done"
    BY DEF Answer, NoRequest
  <2>3. passed.pc = "authorized"
    BY <1>1 DEF NoRequest
  <2> HIDE DEF passed
  <2> QED BY <2>1, <2>2, <2>3 DEF CommitsTheRow
<1>2. CASE AddStart(r)
  BY <1>1, <1>2 DEF AddStart, NoRequest
<1>3. CASE UpdateStart(r)
  BY <1>1, <1>3 DEF UpdateStart, NoRequest
<1>4. CASE CaptureStart(r)
  BY <1>1, <1>4 DEF CaptureStart, NoRequest
<1>5. CASE DeleteStart(r) \/ BranchStart(r)
  BY <1>1, <1>5 DEF DeleteStart, BranchStart, NoRequest
<1> QED BY <1>2, <1>3, <1>4, <1>5

\* A committed request names its item and keeps its kind.
LEMMA CommittedRow ==
  ASSUME IInv, NEW r \in Requests, NEW i, NEW o,
         req' = [req EXCEPT ![r] = Committed(req[r], i, o)],
         req[r].kind # "delete" /\ i \notin raced' => o = row'[i]
  PROVE  CommitsTheRow(r)
<1> DEFINE q == Committed(req[r], i, o)
<1>1. req[r] \in Request
  BY RequestType DEF IInv
<1>2. q.kind = req[r].kind /\ q.item = i /\ q.obj = o
  BY <1>1 DEF Committed, Request
<1> HIDE DEF q
<1>3. req' = [req EXCEPT ![r] = q]
  BY DEF q
<1> QED BY <1>2, <1>3 DEF CommitsTheRow

LEMMA ReadCommitsTheRow ==
  ASSUME IInv, NEW r \in Requests,
         AddRead(r) \/ UpdateRead(r) \/ CaptureRead(r) \/ DeleteRead(r)
  PROVE  CommitsTheRow(r)
<1>1. req[r] \in Request
  BY RequestType DEF IInv
<1>2. ASSUME NEW q, req' = [req EXCEPT ![r] = q], q.pc = "read" PROVE CommitsTheRow(r)
  BY <1>2 DEF CommitsTheRow
<1>3. CASE AddRead(r)
  <2>1. ToInsert(req[r]).pc = "read" /\ \A i \in live : ToMerge(req[r], i).pc = "read"
    BY <1>1 DEF ToInsert, ToMerge, Request
  <2>2. ASSUME NEW i \in live, req' = [req EXCEPT ![r] = Committed(req[r], i, row[i])]
        PROVE  CommitsTheRow(r)
    <3>1. row' = row
      BY <1>3 DEF AddRead, rowVars
    <3> QED BY <2>2, <3>1, CommittedRow
  <2> QED BY <1>2, <1>3, <2>1, <2>2, ReplyCommitsNothing
       DEF AddRead, RowsWithProduct, RowsWithRequestId
<1>4. ToWrite(req[r]).pc = "read" /\ ToCheck(req[r]).pc = "read" /\ ToCapture(req[r]).pc = "read"
  BY <1>1 DEF ToWrite, ToCheck, ToCapture, Request
<1>5. CASE UpdateRead(r)
  BY <1>2, <1>4, <1>5, ReplyCommitsNothing DEF UpdateRead
<1>6. CASE CaptureRead(r)
  BY <1>2, <1>4, <1>6, ReplyCommitsNothing DEF CaptureRead
<1>7. CASE DeleteRead(r)
  BY <1>2, <1>4, <1>7, ReplyCommitsNothing DEF DeleteRead
<1> QED BY <1>3, <1>5, <1>6, <1>7

LEMMA WriteCommitsTheRow ==
  ASSUME IInv, NEW r \in Requests,
         AddMerge(r) \/ AddInsert(r) \/ VersionedWrite(r) \/ DeleteWrite(r)
  PROVE  CommitsTheRow(r)
<1>1. req[r] \in Request /\ RequestOK(req[r]) /\ TypeInv /\ row \in [ItemIds -> Row]
  BY RequestType DEF IInv, TypeInv, TypeOK
<1>2. CASE AddMerge(r)
  <2> DEFINE i == req[r].item
  <2>1. i \in ItemIds /\ row'[i] = Flushed(req[r], row[i]) /\ Holds(req[r])
    BY <1>1, <1>2, LiveIsIssued DEF AddMerge, Holds
  <2>2. ASSUME i \notin raced' PROVE Merged(req[r]) = row'[i]
    <3>1. req[r].obj = row[i]
      BY <1>1, <1>2, <2>1, <2>2 DEF AddMerge, RequestOK, InstanceOK
    <3>2. req[r].quantity \in Nat
      BY <1>2, RequestType DEF AddMerge, IInv, WellFormed, InFlight
    <3> QED BY <1>1, <2>1, <3>1, <3>2, MergeOfTheRow
  <2>3. req' = [req EXCEPT ![r] = Committed(req[r], i, Merged(req[r]))]
    BY <1>2 DEF AddMerge
  <2> HIDE DEF i
  <2> QED BY <2>2, <2>3, CommittedRow
<1>3. CASE AddInsert(r)
  <2>1. row'[nextId] = Inserted(req[r])
    BY <1>1, <1>3 DEF AddInsert
  <2> QED BY <1>3, <2>1, CommittedRow DEF AddInsert
<1>4. CASE VersionedWrite(r)
  <2> DEFINE i == req[r].item
  <2>1. i \in ItemIds /\ row'[i] = Written(req[r], row[i]) /\ raced' = raced
    BY <1>1, <1>4, LiveIsIssued DEF VersionedWrite, VersionMatches
  <2>2. i \notin raced' => Written(req[r], req[r].obj) = row'[i]
    BY <1>4, <2>1, TestedInstanceIsRow DEF VersionedWrite, IsVersioned
  <2>3. req' = [req EXCEPT ![r] = Committed(req[r], i, Written(req[r], req[r].obj))]
    BY <1>4 DEF VersionedWrite
  <2> HIDE DEF i
  <2> QED BY <2>2, <2>3, CommittedRow
<1>5. CASE DeleteWrite(r)
  BY <1>5, CommittedRow DEF DeleteWrite
<1> QED BY <1>2, <1>3, <1>4, <1>5

LEMMA AnswerCommitsNothing ==
  ASSUME NEW r \in Requests,
         \/ AddMergeGone(r) \/ AddInsertViolatesConstraint(r) \/ VersionedConflict(r)
         \/ BranchWrite(r) \/ ArchiveList(r) \/ DeleteList(r) \/ RemoveMember(r) \/ Publish(r)
  PROVE  CommitsTheRow(r)
BY ReplyCommitsNothing DEF AddMergeGone, AddInsertViolatesConstraint, VersionedConflict,
   BranchWrite, ArchiveList, DeleteList, RemoveMember, ByOwner, Publish

\* What a handler answers with and publishes is the row it committed, unless a merge
\* raced that row: the new values are computed once on the instance held by the session
\* and once by the database, and they agree.
THEOREM PublishedIsCommitted == Spec => CommittedInstanceIsRow
<1>1. ASSUME IInv, [Next]_vars, NEW r \in Requests,
             req[r].pc # "committed", req'[r].pc = "committed", req'[r].kind # "delete",
             req'[r].item \notin raced'
      PROVE  req'[r].obj = row'[req'[r].item]
  <2>1. ASSUME NEW s \in Requests, CommitsTheRow(s) PROVE req'[r].obj = row'[req'[r].item]
    BY <1>1, <2>1 DEF CommitsTheRow, IInv, TypeInv, TypeOK
  <2>2. ASSUME NEW s \in Requests, Add(s) \/ VersionedUpdate(s) \/ Delete(s) \/ SetActiveBranch(s)
               \/ Publish(s) \/ ArchiveList(s) \/ DeleteList(s) \/ RemoveMember(s)
        PROVE  CommitsTheRow(s)
    BY <1>1, <2>2, StartCommitsNothing, ReadCommitsTheRow, WriteCommitsTheRow, AnswerCommitsNothing
       DEF Add, VersionedUpdate, Delete, SetActiveBranch
  <2>3. ASSUME NEW l \in Listings, ListingChange(l) \/ ListingStatusChange(l) PROVE req' = req
    BY <2>3 DEF ListingChange, ListingStatusChange
  <2>4. req' # req
    BY <1>1
  <2> QED BY <1>1, <2>1, <2>2, <2>3, <2>4 DEF Next, vars
<1>2. IInv /\ [Next]_vars =>
        [\A r \in Requests :
            /\ req[r].pc # "committed" /\ req'[r].pc = "committed"
            /\ req'[r].kind # "delete" /\ req'[r].item \notin raced'
            => req'[r].obj = row'[req'[r].item]]_vars
  BY <1>1
<1> QED BY <1>2, Invariance, PTL DEF Spec, CommittedInstanceIsRow
=============================================================================
