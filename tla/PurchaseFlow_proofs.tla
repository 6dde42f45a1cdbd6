------------------------ MODULE PurchaseFlow_proofs ------------------------
(* The purchase flow keeps its promises for any barcodes, lists, prices and   *)
(* bounds: a created product is added once and announced truthfully, is not   *)
(* looked up again by itself, and a saved price replaces the one that was on  *)
(* the screen.                                                                *)
EXTENDS PurchaseFlow, FiniteSetTheorems, SequenceTheorems, TLAPS

-----------------------------------------------------------------------------
(* The inductive invariant                                                    *)

\* A copy of a listing is no newer than the listing, and the listing itself when as new.
Current(h) ==
    h # None => /\ h \in Held
                /\ h.version <= listing[h.prod].version
                /\ h.version = listing[h.prod].version => h.price = listing[h.prod].price

\* A product of the catalogue.
Known(p) == p \in Codes /\ resolves[p] # None

\* The scanner of a product just created is locked on its code until the shopper
\* resets it or another code is read; "Agregado a tu compra" is true.
ScreenOK(s) ==
    /\ s.name = "Scan" /\ s.suppressed # None /\ ~s.touched => s.last = s.suppressed
    /\ s.name = "ScanResult" =>
         Known(s.prod) /\ Current(s.held) /\ (s.step \in {"verify", "update"} => s.held \in Held)
    /\ SaysAdded(s) => rows[s.list][s.code] # None

Adding == {"first", "retry"}
Pricing == {"confirm", "save", "register"}

\* What a request carries, and what its answer says.
Carries(c) ==
    /\ c.op \in {"scan", "attach", "product", "first", "retry", "register", "add"} => c.code \in Codes
    /\ c.op = "attach" => Known(c.held)
    /\ c.op = "register" => Known(c.code)
    /\ c.op \in {"product", "first", "retry", "add"} => c.list \in Lists
    /\ IF c.op \in {"product", "first", "retry"} THEN c.id \in Ids ELSE c.id = None
    /\ c.op \in {"confirm", "save"} => c.held \in Held /\ Current(c.held)
    /\ c.op = "save" => c.shown = c.held.price
Replied(c) ==
    c.at = "answered" =>
        /\ c.reply \in Replies /\ Current(c.reply.held)
        /\ c.reply.kind = "found" => Known(c.reply.prod)
        /\ c.reply.kind = "ok" /\ c.op \in Pricing => c.reply.held \in Held
        /\ c.reply.kind = "ok" /\ c.op \in Adding => rows[c.list][c.code] # None
        /\ c.reply.kind = "conflict" =>
             c.op = "save" /\ c.reply.held \in Held /\ c.reply.held.prod = c.held.prod
CallOK(c) == Carries(c) /\ Replied(c)

EntryOK(e) == Known(e.prod) /\ Current(e.held)
CopiesOK ==
    /\ \A l \in Nullable(Lists) : \A n \in DOMAIN recent[l] : EntryOK(recent[l][n])
    /\ \A c \in Codes : cache.barcode[c] # None => Known(cache.barcode[c])
    /\ \A p \in Codes : Current(cache.held[p])
CatalogOK ==
    \A p \in Codes : /\ listing[p].version # 0 => Known(p)
                     /\ Known(p) => Known(resolves[p])

\* The screen that sends a request.
Caller == [scan |-> "Scan", attach |-> "ScanDisambiguation", product |-> "CreateProduct",
           first |-> "CreateProduct", retry |-> "ProductCreatedSuccess", confirm |-> "ScanResult",
           save |-> "ScanResult", register |-> "ScanResult", add |-> "ScanResult"]

KeysOK ==
    /\ \A i, j \in DOMAIN stack : stack[i].key = stack[j].key => i = j
    /\ \A c \in calls, i \in DOMAIN stack : stack[i].key = c.key => stack[i].name = Caller[c.op]

\* One of the requests cs, or a screen of st, adds product p to list l under the id.
AddsIn(cs, st, id, l, p) ==
    \/ \E c \in cs : c.op \in Adding /\ c.id = id /\ c.list = l /\ c.code = p
    \/ \E i \in DOMAIN st : /\ st[i].name = "ProductCreatedSuccess"
                            /\ st[i].id = id /\ st[i].list = l /\ st[i].code = p
Adds(id, l, p) == AddsIn(calls, stack, id, l, p)

Unsent(id) == applied[id] = 0 /\ \A l \in Lists, p \in Codes : ~Adds(id, l, p)

\* Until its product is created, an attempt's id is known to its screen and to the one
\* request it has under way.
ProductAlone ==
    \A c \in calls : c.op = "product" =>
        /\ Unsent(c.id)
        /\ \A d \in calls : d.id = c.id => d = c
        /\ \A i \in DOMAIN stack : stack[i].name = "CreateProduct" =>
             /\ stack[i].id = c.id => stack[i].key = c.key
             /\ stack[i].key = c.key => stack[i].id = c.id /\ stack[i].started
IdleAlone ==
    \A i \in DOMAIN stack :
        stack[i].name = "CreateProduct" /\ ~stack[i].started /\ stack[i].id # None =>
            /\ Unsent(stack[i].id)
            /\ \A c \in calls : c.id # stack[i].id
            /\ \A j \in DOMAIN stack :
                 stack[j].name = "CreateProduct" /\ stack[j].id = stack[i].id => j = i

\* From then on everything that carries the id adds the same product to the same list.
AddsOK ==
    \A id \in Ids, l \in Lists, p \in Codes :
        /\ Adds(id, l, p) =>
             /\ \A m \in Lists, q \in Codes : Adds(id, m, q) => m = l /\ q = p
             /\ applied[id] # 0 => rows[l][p] # None
        /\ rows[l][p] = id =>
             /\ applied[id] = 1
             /\ \A m \in Lists, q \in Codes : Adds(id, m, q) => m = l /\ q = p

IInv ==
    /\ TypeOK /\ IsFiniteSet(calls)
    /\ \A i \in DOMAIN stack : ScreenOK(stack[i])
    /\ \A c \in calls : CallOK(c)
    /\ CatalogOK /\ CopiesOK /\ KeysOK
    /\ ProductAlone /\ IdleAlone /\ AddsOK
    /\ ~rescanned

-----------------------------------------------------------------------------
(* The stack and its keys                                                     *)

LEMMA SequenceOf ==
  ASSUME NEW S, NEW n \in Nat, NEW f \in [1..n -> S]
  PROVE  f \in Seq(S) /\ Len(f) = n /\ DOMAIN f = 1..n
<1>1. f \in Seq(S)
  BY SeqDef
<1>2. DOMAIN f = 1..Len(f) /\ Len(f) \in Nat
  BY <1>1, LenProperties
<1> QED BY <1>1, <1>2

LEMMA StackType ==
  ASSUME TypeOK
  PROVE  /\ Len(stack) \in Nat \ {0} /\ DOMAIN stack = 1..Len(stack)
         /\ stack \in [1..Len(stack) -> Screens]
         /\ Len(stack) \in DOMAIN stack /\ Top \in Screens
<1>1. stack \in Seq(Screens) /\ stack # <<>>
  BY DEF TypeOK
<1>2. /\ Len(stack) \in Nat /\ DOMAIN stack = 1..Len(stack)
      /\ stack \in [1..Len(stack) -> Screens]
  BY <1>1, LenProperties
<1>3. Len(stack) # 0
  BY <1>1, EmptySeq
<1> QED BY <1>2, <1>3 DEF Top

LEMMA Kinds ==
  ASSUME NEW s \in Screens
  PROVE  /\ s.key \in Nat
         /\ s.name = "Scan" => s \in Scanners
         /\ s.name = "ScanResult" => s \in Results
         /\ s.name = "ScanDisambiguation" => s \in Choices
         /\ s.name = "ProductNotFound" => s \in Unknowns
         /\ s.name = "CreateProduct" => s \in Creations
         /\ s.name = "ProductCreatedSuccess" => s \in Successes
BY DEF Screens, Scanners, Results, Choices, Unknowns, Creations, Successes

LEMMA FiniteImage ==
  ASSUME NEW S, IsFiniteSet(S), NEW f
  PROVE  IsFiniteSet({f[x] : x \in S})
<1> DEFINE T == {f[x] : x \in S}
           g == [x \in S |-> f[x]]
<1>1. g \in Surjection(S, T)
  BY DEF Surjection
<1> HIDE DEF g, T
<1>2. IsFiniteSet(T)
  BY <1>1, FS_Surjection
<1> QED BY <1>2 DEF T

LEMMA UsedFinite == ASSUME TypeOK, IsFiniteSet(calls) PROVE IsFiniteSet(Used)
<1> DEFINE f == [i \in DOMAIN stack |-> stack[i].key]
           g == [c \in calls |-> c.key]
<1>1. IsFiniteSet(1..Len(stack)) /\ DOMAIN stack = 1..Len(stack)
  BY StackType, FS_Interval
<1>2. IsFiniteSet({f[i] : i \in DOMAIN stack})
  <2> HIDE DEF f
  <2> QED BY <1>1, FiniteImage
<1>3. IsFiniteSet({g[c] : c \in calls})
  <2> HIDE DEF g
  <2> QED BY FiniteImage
<1>4. Mounted = {f[i] : i \in DOMAIN stack} /\ {c.key : c \in calls} = {g[c] : c \in calls}
  BY DEF Mounted
<1> HIDE DEF f, g
<1> QED BY <1>2, <1>3, <1>4, FS_Union DEF Used

\* Among one number more than a set has members, one is new to it.
LEMMA Pigeonhole ==
  ASSUME NEW S, IsFiniteSet(S), NEW n \in Nat, n > Cardinality(S)
  PROVE  \E k \in 1..n : k \notin S
<1> SUFFICES ASSUME 1..n \subseteq S PROVE FALSE
  OBVIOUS
<1>1. Cardinality(1..n) = n
  BY FS_Interval
<1>2. Cardinality(1..n) <= Cardinality(S)
  BY FS_Subset
<1>3. Cardinality(S) \in Nat
  BY FS_CardinalityType
<1> QED BY <1>1, <1>2, <1>3

LEMMA Keys ==
  ASSUME TypeOK, IsFiniteSet(calls)
  PROVE  /\ FreshKey \in Nat /\ FreshKey \notin Used
         /\ NextKey \in Nat /\ NextKey \notin Used /\ NextKey # FreshKey
<1>1. IsFiniteSet(Used) /\ Cardinality(Used) \in Nat
  BY UsedFinite, FS_CardinalityType
<1>2. \E k \in 1..(Cardinality(Used) + 1) : k \notin Used
  BY <1>1, Pigeonhole
<1>3. FreshKey \in 1..(Cardinality(Used) + 1) /\ FreshKey \notin Used
  BY <1>2 DEF FreshKey
<1>4. PICK n \in Nat : n = Cardinality(Used)
  BY <1>1
<1>5. IsFiniteSet(Used \cup {FreshKey}) /\ Cardinality(Used \cup {FreshKey}) = n + 1
  BY <1>1, <1>3, <1>4, FS_AddElement
<1>6. \E k \in 1..(Cardinality(Used) + 2) : k \notin Used \cup {FreshKey}
  BY <1>4, <1>5, Pigeonhole
<1>7. NextKey \in 1..(Cardinality(Used) + 2) /\ NextKey \notin Used \cup {FreshKey}
  BY <1>6 DEF NextKey
<1> QED BY <1>1, <1>3, <1>7

LEMMA KeysInUse ==
  /\ \A i \in DOMAIN stack : stack[i].key \in Used
  /\ \A c \in calls : c.key \in Used
BY DEF Used, Mounted

-----------------------------------------------------------------------------
(* A step of the phone                                                        *)

\* What a screen becomes while it stays on the stack.
Becomes(s, t) ==
    /\ t \in Screens /\ ScreenOK(t) /\ t.key = s.key /\ t.name = s.name
    /\ s.name \in {"CreateProduct", "ProductCreatedSuccess"} => t = s

\* A screen that comes up starts an attempt of its own, or tells the end of one.
ComesUp(t) ==
    /\ t \in Screens /\ ScreenOK(t) /\ t.key \notin Used
    /\ t.name = "CreateProduct" => ~t.started /\ t.id = None
    /\ t.name = "ProductCreatedSuccess" =>
         \E c \in calls : c.op \in Adding /\ c.id = t.id /\ c.list = t.list /\ c.code = t.code

StackMoves(st) ==
    /\ st \in Seq(Screens) /\ st # <<>>
    /\ \A i \in DOMAIN st : (i \in DOMAIN stack /\ Becomes(stack[i], st[i])) \/ ComesUp(st[i])
    /\ \A i, j \in DOMAIN st : ComesUp(st[i]) /\ ComesUp(st[j]) /\ st[i].key = st[j].key => i = j

\* A request that a screen sends under no id, or under that of the product created.
Sends(c, s) ==
    /\ c \in Calls /\ CallOK(c)
    /\ c.key = s.key /\ s.name = Caller[c.op]
    /\ \/ c.id = None
       \/ /\ c.op = "retry"
          /\ s.id = c.id /\ s.list = c.list /\ s.code = c.code
CallsMove(cs) ==
    /\ IsFiniteSet(cs)
    /\ \A c \in cs : c \in calls \/ \E i \in DOMAIN stack : Sends(c, stack[i])

LEMMA MovedStack ==
  ASSUME IInv, NEW st, StackMoves(st), NEW i \in DOMAIN st
  PROVE  /\ st[i] \in Screens /\ ScreenOK(st[i])
         /\ \/ i \in DOMAIN stack /\ Becomes(stack[i], st[i]) /\ st[i].key \in Used
            \/ ComesUp(st[i]) /\ st[i].key \notin Used
BY KeysInUse DEF StackMoves, Becomes, ComesUp

LEMMA MovedKeys ==
  ASSUME IInv, NEW cs, NEW st, StackMoves(st), CallsMove(cs)
  PROVE  /\ \A i, j \in DOMAIN st : st[i].key = st[j].key => i = j
         /\ \A c \in cs, i \in DOMAIN st : st[i].key = c.key => st[i].name = Caller[c.op]
<1>1. ASSUME NEW i \in DOMAIN st, NEW j \in DOMAIN st, st[i].key = st[j].key PROVE i = j
  <2>1. CASE st[i].key \in Used
    BY <1>1, <2>1, MovedStack DEF Becomes, IInv, KeysOK
  <2>2. CASE st[i].key \notin Used
    BY <1>1, <2>2, MovedStack DEF StackMoves
  <2> QED BY <2>1, <2>2
<1>2. ASSUME NEW c \in cs, NEW i \in DOMAIN st, st[i].key = c.key
      PROVE  st[i].name = Caller[c.op]
  <2>1. c.key \in Used
    BY KeysInUse DEF CallsMove, Sends
  <2>2. i \in DOMAIN stack /\ st[i].key = stack[i].key /\ st[i].name = stack[i].name
    BY <1>2, <2>1, MovedStack DEF Becomes
  <2>3. CASE c \in calls
    BY <1>2, <2>2, <2>3 DEF IInv, KeysOK
  <2>4. ASSUME NEW j \in DOMAIN stack, Sends(c, stack[j]) PROVE st[i].name = Caller[c.op]
    BY <1>2, <2>2, <2>4 DEF Sends, IInv, KeysOK
  <2> QED BY <2>3, <2>4 DEF CallsMove
<1> QED BY <1>1, <1>2

\* Nothing new is added under any id.
LEMMA MovedAdds ==
  ASSUME IInv, NEW cs, CallsMove(cs), NEW st, StackMoves(st), NEW id \in Ids, NEW l, NEW p,
         AddsIn(cs, st, id, l, p)
  PROVE  Adds(id, l, p)
<1>1. CASE \E c \in cs : c.op \in Adding /\ c.id = id /\ c.list = l /\ c.code = p
  <2>1. PICK c \in cs : c.op \in Adding /\ c.id = id /\ c.list = l /\ c.code = p
    BY <1>1
  <2>2. CASE c \in calls
    BY <2>1, <2>2 DEF Adds, AddsIn
  <2>3. ASSUME NEW i \in DOMAIN stack, Sends(c, stack[i]) PROVE Adds(id, l, p)
    BY <2>1, <2>3, NamesAssumption DEF Adds, AddsIn, Sends, Caller
  <2> QED BY <2>1, <2>2, <2>3 DEF CallsMove
<1>2. CASE \E i \in DOMAIN st : /\ st[i].name = "ProductCreatedSuccess"
                                /\ st[i].id = id /\ st[i].list = l /\ st[i].code = p
  <2>1. PICK i \in DOMAIN st : /\ st[i].name = "ProductCreatedSuccess"
                               /\ st[i].id = id /\ st[i].list = l /\ st[i].code = p
    BY <1>2
  <2>2. CASE i \in DOMAIN stack /\ Becomes(stack[i], st[i])
    BY <2>1, <2>2 DEF Adds, AddsIn, Becomes
  <2>3. CASE ComesUp(st[i])
    BY <2>1, <2>3 DEF Adds, AddsIn, ComesUp
  <2> QED BY <2>2, <2>3, MovedStack
<1> QED BY <1>1, <1>2 DEF AddsIn

LEMMA PhoneStep ==
  ASSUME IInv, StackMoves(stack'), CallsMove(calls'), UNCHANGED server,
         recent' \in [Nullable(Lists) -> Seq(Recent)],
         cache' \in [barcode: [Codes -> Nullable(Codes)], held: [Codes -> Nullable(Held)]],
         active' \in Nullable(Lists), rescanned' = FALSE,
         \A l \in Nullable(Lists) : \A n \in DOMAIN recent'[l] : EntryOK(recent'[l][n]),
         \A p \in Codes : cache'.barcode[p] # None => Known(cache'.barcode[p]),
         \A p \in Codes : Current(cache'.held[p])
  PROVE  IInv'
<1>0. UNCHANGED <<resolves, listing, rows, applied>>
  BY DEF server
<1>1. TypeOK' /\ IsFiniteSet(calls)'
  BY <1>0 DEF IInv, TypeOK, StackMoves, CallsMove, Sends
<1>2. /\ \A i \in DOMAIN stack' : ScreenOK(stack[i])'
      /\ \A c \in calls' : CallOK(c)'
      /\ CopiesOK' /\ CatalogOK'
  <2>1. \A s : ScreenOK(s) => ScreenOK(s)'
    BY <1>0 DEF ScreenOK, Current, Known
  <2>2. \A c : CallOK(c) => CallOK(c)'
    BY <1>0 DEF CallOK, Carries, Replied, Current, Known
  <2>3. \A i \in DOMAIN stack' : ScreenOK(stack'[i])
    BY MovedStack
  <2>4. \A c \in calls' : CallOK(c)
    BY DEF CallsMove, Sends, IInv
  <2>5. CopiesOK'
    BY <1>0 DEF CopiesOK, EntryOK, Current, Known
  <2>6. CatalogOK'
    BY <1>0 DEF IInv, CatalogOK, Known
  <2> QED BY <1>0, <2>2, <2>3, <2>4, <2>5, <2>6 DEF ScreenOK, Current, Known
<1>3. KeysOK'
  BY MovedKeys DEF KeysOK
<1>4. ASSUME NEW id \in Ids, NEW l, NEW p, Adds(id, l, p)' PROVE Adds(id, l, p)
  BY <1>4, MovedAdds DEF Adds
<1>5. \A id \in Ids : Unsent(id) => Unsent(id)'
  BY <1>0, <1>4 DEF Unsent
<1>6. \A c \in calls' : c.op = "product" => c \in calls /\ c.id \in Ids
  BY NamesAssumption DEF CallsMove, Sends, IInv, CallOK, Carries
<1>7. ASSUME NEW c \in calls', c.id # None, c \notin calls
      PROVE  \E i \in DOMAIN stack : stack[i].name = "ProductCreatedSuccess" /\ stack[i].id = c.id
             /\ stack[i].list \in Lists /\ stack[i].code \in Codes
  <2>1. PICK i \in DOMAIN stack : Sends(c, stack[i])
    BY <1>7 DEF CallsMove
  <2>2. stack[i].name = "ProductCreatedSuccess" /\ stack[i].id = c.id
    BY <1>7, <2>1 DEF Sends, Caller
  <2>3. stack[i] \in Successes
    BY <2>2, StackType, Kinds DEF IInv
  <2> QED BY <2>2, <2>3 DEF Successes
<1>8. ASSUME NEW id \in Ids, Unsent(id), NEW c \in calls', c.id = id PROVE c \in calls
  BY <1>7, <1>8, NamesAssumption DEF Unsent, Adds, AddsIn
<1>9. ASSUME NEW i \in DOMAIN stack', stack'[i].name = "CreateProduct"
      PROVE  \/ i \in DOMAIN stack /\ stack'[i] = stack[i]
             \/ ~stack'[i].started /\ stack'[i].id = None /\ stack'[i].key \notin Used
  BY <1>9, MovedStack DEF Becomes, ComesUp
<1>10. ProductAlone'
  <2> SUFFICES ASSUME NEW c \in calls', c.op = "product"
               PROVE  /\ Unsent(c.id)'
                      /\ \A d \in calls' : d.id = c.id => d = c
                      /\ \A i \in DOMAIN stack' : stack'[i].name = "CreateProduct" =>
                           /\ stack'[i].id = c.id => stack'[i].key = c.key
                           /\ stack'[i].key = c.key => stack'[i].id = c.id /\ stack'[i].started
    BY DEF ProductAlone
  <2>1. c \in calls /\ c.id \in Ids /\ Unsent(c.id) /\ c.key \in Used
    BY <1>6, KeysInUse DEF IInv, ProductAlone
  <2>2. ASSUME NEW d \in calls', d.id = c.id PROVE d = c
    BY <1>8, <2>1, <2>2 DEF IInv, ProductAlone
  <2>3. ASSUME NEW i \in DOMAIN stack', stack'[i].name = "CreateProduct"
        PROVE  /\ stack'[i].id = c.id => stack'[i].key = c.key
               /\ stack'[i].key = c.key => stack'[i].id = c.id /\ stack'[i].started
    <3>1. c.id # None
      BY <2>1, NamesAssumption
    <3>2. \A j \in DOMAIN stack : stack[j].name = "CreateProduct" =>
            /\ stack[j].id = c.id => stack[j].key = c.key
            /\ stack[j].key = c.key => stack[j].id = c.id /\ stack[j].started
      BY <2>1 DEF IInv, ProductAlone
    <3>3. CASE i \in DOMAIN stack /\ stack'[i] = stack[i]
      BY <2>3, <3>2, <3>3
    <3>4. CASE ~stack'[i].started /\ stack'[i].id = None /\ stack'[i].key \notin Used
      BY <2>1, <3>1, <3>4
    <3> QED BY <1>9, <2>3, <3>3, <3>4
  <2> QED BY <1>5, <2>1, <2>2, <2>3
<1>11. IdleAlone'
  <2> SUFFICES ASSUME NEW i \in DOMAIN stack', stack'[i].name = "CreateProduct",
                      ~stack'[i].started, stack'[i].id # None
               PROVE  /\ Unsent(stack[i].id)'
                      /\ \A c \in calls' : c.id # stack'[i].id
                      /\ \A j \in DOMAIN stack' :
                           stack'[j].name = "CreateProduct" /\ stack'[j].id = stack'[i].id => j = i
    BY DEF IdleAlone
  <2>1. i \in DOMAIN stack /\ stack'[i] = stack[i]
    BY <1>9
  <2>2. stack[i].id \in Ids
    <3>1. stack[i] \in Creations
      BY <2>1, StackType, Kinds DEF IInv
    <3> QED BY <2>1, <3>1 DEF Creations, Nullable
  <2>3. Unsent(stack[i].id)
    BY <2>1 DEF IInv, IdleAlone
  <2>4. \A c \in calls' : c.id # stack[i].id
    BY <1>8, <2>1, <2>2, <2>3 DEF IInv, IdleAlone
  <2>5. \A j \in DOMAIN stack' :
          stack'[j].name = "CreateProduct" /\ stack'[j].id = stack[i].id => j = i
    BY <1>9, <2>1 DEF IInv, IdleAlone
  <2> QED BY <1>5, <2>1, <2>2, <2>3, <2>4, <2>5
<1>12. AddsOK'
  BY <1>0, <1>4 DEF IInv, AddsOK
<1> QED BY <1>1, <1>2, <1>3, <1>10, <1>11, <1>12 DEF IInv

-----------------------------------------------------------------------------
(* What the presses and the answers make of the stack                         *)

\* The stack with its screens in their places.
Turned(st) ==
    /\ st \in [1..Len(stack) -> Screens]
    /\ \A i \in DOMAIN stack : Becomes(stack[i], st[i])

LEMMA StaysAsItIs ==
  ASSUME IInv
  PROVE  Turned(stack) /\ \A i \in DOMAIN stack : Becomes(stack[i], stack[i])
BY StackType DEF IInv, Turned, Becomes

LEMMA ScreenTurns ==
  ASSUME IInv, NEW i \in DOMAIN stack, NEW s, Becomes(stack[i], s)
  PROVE  Turned([stack EXCEPT ![i] = s])
<1>1. stack \in [1..Len(stack) -> Screens] /\ DOMAIN stack = 1..Len(stack) /\ s \in Screens
  BY StackType DEF IInv, Becomes
<1> QED BY <1>1, StaysAsItIs DEF Turned

LEMMA TurnedType ==
  ASSUME IInv, NEW st, Turned(st)
  PROVE  /\ st \in Seq(Screens) /\ Len(st) = Len(stack) /\ DOMAIN st = DOMAIN stack
         /\ Len(st) \in DOMAIN stack /\ st # <<>> /\ st[Len(st)] \in Screens
         /\ Len(st) \in Nat \ {0} /\ DOMAIN st = 1..Len(st)
<1>1. Len(stack) \in Nat \ {0} /\ DOMAIN stack = 1..Len(stack)
  BY StackType DEF IInv
<1>2. st \in Seq(Screens) /\ Len(st) = Len(stack) /\ DOMAIN st = 1..Len(stack)
  BY <1>1, SequenceOf DEF Turned
<1>3. st # <<>>
  BY <1>1, <1>2, EmptySeq
<1> QED BY <1>1, <1>2, <1>3 DEF Turned

LEMMA TurnedMoves == ASSUME IInv, NEW st, Turned(st) PROVE StackMoves(st)
<1>1. \A i \in DOMAIN st : st[i].key = stack[i].key /\ stack[i].key \in Used
  BY TurnedType, KeysInUse DEF Turned, Becomes
<1> QED BY <1>1, TurnedType DEF StackMoves, Turned, ComesUp

LEMMA ReplaceMoves ==
  ASSUME IInv, NEW st, Turned(st), NEW s, ComesUp(s)
  PROVE  StackMoves(Replace(st, s))
<1> DEFINE n == Len(st)
           new == [st EXCEPT ![n] = s]
<1>1. /\ n \in Nat \ {0} /\ n \in DOMAIN stack /\ DOMAIN stack = 1..n /\ s \in Screens
      /\ st \in [1..n -> Screens]
  BY TurnedType DEF ComesUp, Turned
<1>2. new \in [1..n -> Screens]
  BY <1>1
<1> HIDE DEF n
<1>3. /\ new \in Seq(Screens) /\ Len(new) = n /\ DOMAIN new = 1..n
  <2> HIDE DEF new
  <2> QED BY <1>1, <1>2, SequenceOf
<1>4. new # <<>>
  BY <1>1, <1>3, EmptySeq
<1>5. \A i \in 1..n : IF i = n THEN ComesUp(new[i])
                      ELSE Becomes(stack[i], new[i]) /\ new[i].key \in Used
  BY <1>1, KeysInUse DEF Turned, Becomes
<1>6. \A i \in 1..n : ComesUp(new[i]) => i = n
  BY <1>5 DEF ComesUp
<1>7. StackMoves(new)
  <2> HIDE DEF new
  <2> QED BY <1>1, <1>3, <1>4, <1>5, <1>6 DEF StackMoves
<1> QED BY <1>7 DEF Replace, n

LEMMA AppendMoves ==
  ASSUME IInv, NEW st, Turned(st), NEW s, ComesUp(s)
  PROVE  StackMoves(Append(st, s))
<1> DEFINE n == Len(st)
           new == Append(st, s)
<1>1. /\ n \in Nat \ {0} /\ DOMAIN stack = 1..n /\ s \in Screens /\ st \in Seq(Screens)
      /\ st \in [1..n -> Screens]
  BY TurnedType DEF ComesUp, Turned
<1>2. /\ new \in Seq(Screens) /\ new # <<>> /\ Len(new) = n + 1
      /\ \A i \in 1..n : new[i] = st[i]
      /\ new[n + 1] = s
  BY <1>1, AppendProperties
<1>3. DOMAIN new = 1..(n + 1)
  <2> HIDE DEF new
  <2> QED BY <1>2, LenProperties
<1> HIDE DEF n, new
<1>4. \A i \in 1..n : Becomes(stack[i], new[i]) /\ new[i].key \in Used
  BY <1>1, <1>2, KeysInUse DEF Turned, Becomes
<1>5. \A i \in DOMAIN new : i \in 1..n \/ i = n + 1
  BY <1>1, <1>3
<1>6. \A i \in DOMAIN new : ComesUp(new[i]) => i = n + 1
  BY <1>4, <1>5 DEF ComesUp
<1>7. StackMoves(new)
  BY <1>1, <1>2, <1>4, <1>5, <1>6 DEF StackMoves
<1> QED BY <1>7 DEF new

\* A result screen shown another product by navigate.
Swapped(r, s) == [r EXCEPT !.prod = s.prod, !.cached = s.cached, !.swapped = TRUE]

LEMMA SwappedResult ==
  ASSUME NEW r \in Results, NEW s \in Results
  PROVE  /\ Swapped(r, s) \in Results /\ Swapped(r, s).key = r.key /\ Swapped(r, s).name = r.name
         /\ Swapped(r, s).held = r.held /\ Swapped(r, s).step = r.step
         /\ Swapped(r, s).prod = s.prod
BY DEF Results, Swapped

LEMMA NavigateMoves ==
  ASSUME IInv, NEW st, Turned(st), NEW s \in Results, ComesUp(s)
  PROVE  StackMoves(Navigate(st, s))
<1>1. CASE st[Len(st)].name # s.name
  BY <1>1, AppendMoves DEF Navigate
<1>2. CASE st[Len(st)].name = s.name
  <2> DEFINE n == Len(st)
             new == [st EXCEPT ![n].prod = s.prod, ![n].cached = s.cached, ![n].swapped = TRUE]
  <2>1. n \in DOMAIN stack /\ DOMAIN stack = 1..n /\ st \in [1..n -> Screens] /\ st[n].name = s.name
        /\ n = Len(stack)
    BY <1>2, TurnedType DEF Turned
  <2> HIDE DEF n
  <2>2. st[n] \in Results /\ Becomes(stack[n], st[n])
    BY <2>1, Kinds DEF Results, Turned
  <2>3. new[n] = Swapped(st[n], s)
    BY <2>1 DEF Swapped
  <2> HIDE DEF new
  <2>4. new[n] \in Results /\ new[n].key = st[n].key /\ new[n].name = st[n].name
        /\ new[n].held = st[n].held /\ new[n].step = st[n].step /\ new[n].prod = s.prod
    BY <2>2, <2>3, SwappedResult
  <2>5. new[n].name = "ScanResult" /\ stack[n].name = "ScanResult" /\ new[n] \in Screens
    BY <2>2, <2>4 DEF Results, Screens, Becomes
  <2>6. Becomes(stack[n], new[n])
    <3>1. Known(s.prod)
      BY DEF ComesUp, ScreenOK, Results
    <3> QED BY <2>2, <2>4, <2>5, <3>1 DEF Becomes, ScreenOK, SaysAdded
  <2>7. new \in [1..n -> Screens] /\ \A i \in 1..n : i # n => new[i] = st[i]
    BY SMTT(30), ZenonT(40), <2>1, <2>5 DEF new
  <2>8. Turned(new)
    BY <2>1, <2>6, <2>7 DEF Turned
  <2>9. Navigate(st, s) = new
    BY <1>2 DEF Navigate, n, new
  <2> QED BY <2>8, <2>9, TurnedMoves
<1> QED BY <1>1, <1>2

LEMMA PopMoves ==
  ASSUME IInv, Len(stack) > 1
  PROVE  StackMoves(SubSeq(stack, 1, Len(stack) - 1))
<1> DEFINE n == Len(stack)
           new == SubSeq(stack, 1, n - 1)
<1>1. n \in Nat /\ n > 1 /\ DOMAIN stack = 1..n /\ \A i \in 1..n : stack[i] \in Screens
  BY StackType DEF IInv
<1>2. /\ new \in Seq(Screens) /\ Len(new) = n - 1
      /\ \A i \in 1..(n - 1) : new[i] = stack[i]
  <2> HIDE DEF n
  <2>1. \A i \in 1..(n - 1) : stack[i] \in Screens
    BY <1>1
  <2>2. /\ new \in Seq(Screens) /\ Len(new) = IF 1 <= n - 1 THEN n - 1 - 1 + 1 ELSE 0
        /\ \A i \in 1..(n - 1 - 1 + 1) : new[i] = stack[1 + i - 1]
    BY <1>1, <2>1, SubSeqProperties
  <2> QED BY <1>1, <2>2
<1> HIDE DEF n, new
<1>3. DOMAIN new = 1..(n - 1) /\ new # <<>>
  BY <1>1, <1>2, LenProperties, EmptySeq
<1>4. \A i \in DOMAIN new : /\ i \in DOMAIN stack /\ Becomes(stack[i], new[i])
                            /\ new[i].key \in Used
  BY <1>1, <1>2, <1>3, StaysAsItIs, KeysInUse
<1>5. StackMoves(new)
  BY <1>2, <1>3, <1>4 DEF StackMoves, ComesUp
<1> QED BY <1>5 DEF new, n

LEMMA ResetMoves ==
  ASSUME IInv, NEW s, ComesUp(s)
  PROVE  /\ StackMoves(<<s>>)
         /\ \A t : ComesUp(t) /\ t.key # s.key => StackMoves(<<s, t>>)
<1>1. StackMoves(<<s>>)
  BY DEF StackMoves, ComesUp
<1>2. ASSUME NEW t, ComesUp(t), t.key # s.key PROVE StackMoves(<<s, t>>)
  <2>1. s \in Screens /\ t \in Screens
    BY <1>2 DEF ComesUp
  <2>2. <<s, t>> \in Seq(Screens) /\ <<s, t>> # <<>> /\ DOMAIN <<s, t>> = 1..2
    BY <2>1
  <2>3. \A i \in 1..2 : i = 1 \/ i = 2
    OBVIOUS
  <2> QED BY <1>2, <2>2, <2>3 DEF StackMoves
<1> QED BY <1>1, <1>2

-----------------------------------------------------------------------------
(* The scanner                                                                *)

LEMMA ScannerOK ==
  ASSUME NEW s \in Scanners
  PROVE  /\ s \in Screens /\ s.name = "Scan"
         /\ (s.suppressed # None /\ ~s.touched => s.last = s.suppressed) => ScreenOK(s)
BY DEF Scanners, Screens, ScreenOK, SaysAdded

LEMMA NewScreens ==
  ASSUME NEW k \in Nat, k \notin Used
  PROVE  /\ \A c \in Nullable(Codes) : ComesUp(Scanner(k, c))
         /\ \A p \in Codes, h \in Nullable(Held), b \in BOOLEAN :
              Known(p) /\ Current(h) => Result(k, p, h, b) \in Results /\ ComesUp(Result(k, p, h, b))
         /\ \A c \in Codes : ComesUp(Choice(k, c)) /\ ComesUp(NotFound(k, c)) /\ ComesUp(Creation(k, c))
<1>1. ASSUME NEW c \in Nullable(Codes) PROVE ComesUp(Scanner(k, c))
  <2>1. /\ Scanner(k, c) \in Scanners /\ Scanner(k, c).last = c /\ Scanner(k, c).suppressed = c
        /\ Scanner(k, c).key = k
    BY DEF Scanner, Scanners, Nullable
  <2> QED BY <2>1, ScannerOK DEF ComesUp
<1>2. ASSUME NEW p \in Codes, NEW h \in Nullable(Held), NEW b \in BOOLEAN, Known(p), Current(h)
      PROVE  Result(k, p, h, b) \in Results /\ ComesUp(Result(k, p, h, b))
  <2>1. /\ Result(k, p, h, b) \in Results /\ Result(k, p, h, b).key = k
        /\ Result(k, p, h, b).held = h /\ Result(k, p, h, b).name = "ScanResult"
        /\ Result(k, p, h, b).prod = p
    BY DEF Result, Results
  <2>2. Result(k, p, h, b).step \in {"verify", "update"} => h \in Held
    BY DEF Result, Nullable
  <2> QED BY <1>2, <2>1, <2>2 DEF ComesUp, ScreenOK, SaysAdded, Screens
<1>3. ASSUME NEW c \in Codes
      PROVE  ComesUp(Choice(k, c)) /\ ComesUp(NotFound(k, c)) /\ ComesUp(Creation(k, c))
  <2>1. ComesUp(Choice(k, c))
    BY DEF Choice, Choices, ComesUp, ScreenOK, SaysAdded, Screens, Nullable
  <2>2. ComesUp(NotFound(k, c))
    BY DEF NotFound, Unknowns, ComesUp, ScreenOK, SaysAdded, Screens
  <2>3. ComesUp(Creation(k, c))
    BY DEF Creation, Creations, ComesUp, ScreenOK, SaysAdded, Screens, Nullable
  <2> QED BY <2>1, <2>2, <2>3
<1> QED BY <1>1, <1>2, <1>3

LEMMA ScannerTurns ==
  ASSUME NEW s \in Scanners, NEW t \in Scanners, t.key = s.key, ScreenOK(t)
  PROVE  Becomes(s, t)
BY ScannerOK DEF Becomes

LEMMA CallsMoves ==
  ASSUME IInv
  PROVE  /\ CallsMove(calls) /\ \A c \in calls : CallsMove(calls \ {c})
         /\ \A c : \A i \in DOMAIN stack : Sends(c, stack[i]) => CallsMove(calls \cup {c})
<1>1. IsFiniteSet(calls)
  BY DEF IInv
<1>2. \A c : IsFiniteSet(calls \ {c}) /\ IsFiniteSet(calls \cup {c})
  BY <1>1, FS_RemoveElement, FS_AddElement
<1> QED BY <1>1, <1>2 DEF CallsMove

LEMMA GoStep ==
  ASSUME IInv, NEW st, Go(st), StackMoves(st), CallsMove(calls'), UNCHANGED server
  PROVE  IInv'
<1>1. StackMoves(stack') /\ rescanned' = FALSE
  BY DEF Go, IInv, TypeOK
<1>2. UNCHANGED <<recent, cache, active>>
  BY DEF Go
<1> QED BY <1>1, <1>2, PhoneStep DEF IInv, TypeOK, CopiesOK

LEMMA PressStep == ASSUME IInv, NEW st, Press(st), StackMoves(st) PROVE IInv'
BY GoStep, CallsMoves DEF Press

LEMMA TopScanner ==
  ASSUME IInv, On("Scan")
  PROVE  /\ Top \in Scanners /\ Top = stack[Len(stack)] /\ Len(stack) \in DOMAIN stack
         /\ (Top.suppressed # None /\ ~Top.touched => Top.last = Top.suppressed)
<1>1. Top \in Screens /\ Len(stack) \in DOMAIN stack /\ Top = stack[Len(stack)]
  BY StackType DEF IInv, Top
<1>2. ScreenOK(Top)
  BY <1>1 DEF IInv
<1> QED BY <1>1, <1>2, Kinds DEF On, ScreenOK

\* A change of the scanner's own state.
LEMMA ScannerTop ==
  ASSUME IInv, On("Scan"), NEW s \in Scanners, s.key = Top.key,
         s.suppressed # None /\ ~s.touched => s.last = s.suppressed
  PROVE  Turned(Replace(stack, s)) /\ StackMoves(Replace(stack, s))
<1>1. Becomes(stack[Len(stack)], s) /\ Len(stack) \in DOMAIN stack
  BY TopScanner, ScannerOK, ScannerTurns
<1>2. Turned(Replace(stack, s))
  BY <1>1, ScreenTurns DEF Replace
<1> QED BY <1>2, TurnedMoves

LEMMA RenderStep == ASSUME IInv, Render PROVE IInv'
<1>1. PICK i \in DOMAIN stack : stack[i].name = "Scan" /\ Press([stack EXCEPT ![i].seen = stack[i].busy])
  BY DEF Render
<1>2. PICK s : s = stack[i]
  OBVIOUS
<1>3. s \in Scanners /\ ScreenOK(s)
  BY <1>1, <1>2, StackType, Kinds DEF IInv
<1>4. PICK t : t = [s EXCEPT !.seen = s.busy]
  OBVIOUS
<1>5. /\ t \in Scanners /\ t.key = s.key /\ t.suppressed = s.suppressed
      /\ t.touched = s.touched /\ t.last = s.last
  BY <1>3, <1>4 DEF Scanners
<1>6. Becomes(stack[i], t)
  BY <1>2, <1>3, <1>5, ScannerOK, ScannerTurns DEF ScreenOK
<1>7. [stack EXCEPT ![i].seen = stack[i].busy] = [stack EXCEPT ![i] = t]
  BY <1>2, <1>4
<1> QED BY <1>1, <1>6, <1>7, ScreenTurns, TurnedMoves, PressStep

LEMMA ProcessStep ==
  ASSUME IInv, On("Scan"), NEW s \in Scanners, s.key = Top.key, NEW code \in Codes,
         ProcessBarcode(s, code), rescanned' = FALSE, UNCHANGED server
  PROVE  IInv'
<1> DEFINE t == [s EXCEPT !.last = code, !.flight = code, !.busy = TRUE, !.broken = FALSE,
                          !.sheet = IF @ = "manual" THEN @ ELSE "none",
                          !.touched = @ \/ code # s.suppressed]
           c == [Request("scan", s.key) EXCEPT !.code = code]
<1>1. /\ t \in Scanners /\ t.key = s.key /\ t.suppressed = s.suppressed /\ t.last = code
      /\ t.touched = (s.touched \/ code # s.suppressed)
  BY ZenonT(40), SMTT(30) DEF Scanners, Nullable
<1>2. /\ c \in Calls /\ c.op = "scan" /\ c.code = code /\ c.id = None /\ c.at = "sent" /\ c.key = s.key
  BY DEF Scanners, Nullable, Request, Calls, IInv, TypeOK
<1>3. stack' = Replace(stack, t) /\ calls' = calls \cup {c} /\ UNCHANGED <<recent, cache, active>>
  BY DEF ProcessBarcode, Send
<1> HIDE DEF t, c
<1>4. StackMoves(stack')
  BY <1>1, <1>3, ScannerTop
<1>5. CallOK(c)
  BY <1>2 DEF CallOK, Carries, Replied
<1>6. Sends(c, stack[Len(stack)]) /\ Len(stack) \in DOMAIN stack
  BY <1>2, <1>5, TopScanner, ScannerOK DEF Sends, Caller
<1>7. CallsMove(calls')
  BY <1>3, <1>6, CallsMoves
<1> QED BY <1>3, <1>4, <1>7, PhoneStep DEF IInv, TypeOK, CopiesOK

LEMMA BarcodeScannedStep ==
  ASSUME IInv, NEW code \in Codes, BarcodeScanned(code)
  PROVE  IInv'
<1>1. PICK s : s = Unlocked(Top, code)
  OBVIOUS
<1>2. On("Scan") /\ Top \in Scanners /\ UNCHANGED server
  BY TopScanner DEF BarcodeScanned, Shown
<1>3. /\ s \in Scanners /\ s.key = Top.key
      /\ s.suppressed # None /\ ~s.touched => s.last = s.suppressed
  BY <1>1, <1>2, TopScanner DEF Unlocked, Scanners, Nullable
<1>4. CASE ProcessBarcode(s, code) /\ rescanned' = (rescanned \/ (s.suppressed = code /\ ~s.touched))
  <2>1. s.last # code
    BY <1>4 DEF ProcessBarcode, MayProcess
  <2>2. ~(s.suppressed = code /\ ~s.touched)
    BY <1>3, <2>1, NamesAssumption
  <2>3. rescanned' = FALSE
    BY <1>4, <2>2 DEF IInv, TypeOK
  <2> QED BY <1>2, <1>3, <1>4, <2>3, ProcessStep
<1>5. CASE Go(Replace(stack, s)) /\ UNCHANGED calls
  BY <1>2, <1>3, <1>5, ScannerTop, GoStep, CallsMoves
<1> QED BY <1>1, <1>4, <1>5 DEF BarcodeScanned

LEMMA SheetStep ==
  ASSUME IInv, \/ \E sheet \in {"manual", "history"} : OpenSheet(sheet)
               \/ CloseSheet \/ ResetScanner
  PROVE  IInv'
<1>1. On("Scan") /\ Top \in Scanners
  BY TopScanner DEF OpenSheet, CloseSheet, ResetScanner, Shown
<1>2. ASSUME NEW sheet \in {"none", "manual", "history"}
      PROVE  StackMoves(Replace(stack, [Top EXCEPT !.sheet = sheet]))
  <2>1. PICK t : t = [Top EXCEPT !.sheet = sheet]
    OBVIOUS
  <2>2. /\ t \in Scanners /\ t.key = Top.key /\ t.suppressed = Top.suppressed
        /\ t.touched = Top.touched /\ t.last = Top.last
    BY <1>1, <2>1 DEF Scanners
  <2> QED BY <1>1, <2>1, <2>2, TopScanner, ScannerTop
<1>3. CASE \E sheet \in {"manual", "history"} : OpenSheet(sheet)
  BY <1>2, <1>3, GoStep, CallsMoves DEF OpenSheet
<1>4. CASE CloseSheet
  BY <1>2, <1>4, PressStep DEF CloseSheet
<1>5. CASE ResetScanner
  <2>1. PICK t : t = [Top EXCEPT !.last = None, !.flight = None, !.broken = FALSE, !.sheet = "none",
                                 !.touched = TRUE]
    OBVIOUS
  <2>2. t \in Scanners /\ t.key = Top.key /\ t.touched
    BY <1>1, <2>1 DEF Scanners, Nullable
  <2>3. Go(Replace(stack, t)) /\ UNCHANGED <<server, calls>>
    BY <1>5, <2>1 DEF ResetScanner
  <2> QED BY <1>1, <2>2, <2>3, ScannerTop, GoStep, CallsMoves
<1> QED BY <1>3, <1>4, <1>5

LEMMA RecentEntry ==
  ASSUME IInv, NEW l \in Nullable(Lists), NEW n \in DOMAIN recent[l]
  PROVE  /\ recent[l][n] \in Recent /\ recent[l][n].code \in Codes /\ recent[l][n].prod \in Codes
         /\ recent[l][n].cached \in BOOLEAN
         /\ recent[l][n].held \in Nullable(Held) /\ Current(recent[l][n].held)
         /\ Known(recent[l][n].prod)
<1>1. recent[l] \in Seq(Recent)
  BY DEF IInv, TypeOK
<1>2. recent[l][n] \in Recent
  BY <1>1, LenProperties
<1> QED BY <1>2 DEF Recent, IInv, CopiesOK, EntryOK

LEMMA SearchStep ==
  ASSUME IInv, \/ \E code \in Codes : ManualSearch(code)
               \/ \E n \in 1..RecentLimit : RecentSearch(n)
  PROVE  IInv'
<1>1. On("Scan") /\ Top \in Scanners /\ rescanned = FALSE /\ active \in Nullable(Lists)
  BY TopScanner DEF ManualSearch, RecentSearch, Shown, IInv, TypeOK
<1>2. CASE \E code \in Codes : ManualSearch(code)
  BY <1>1, <1>2, ProcessStep DEF ManualSearch
<1>3. ASSUME NEW n, RecentSearch(n) PROVE IInv'
  <2>1. PICK s : s = [Top EXCEPT !.sheet = "none"]
    OBVIOUS
  <2>2. /\ s \in Scanners /\ s.key = Top.key /\ s.suppressed = Top.suppressed
        /\ s.touched = Top.touched /\ s.last = Top.last
    BY <1>1, <2>1 DEF Scanners
  <2>3. recent[active][n].code \in Codes
    BY <1>1, <1>3, RecentEntry DEF RecentSearch
  <2>4. PICK code \in Codes : code = recent[active][n].code
    BY <2>3
  <2>5. UNCHANGED <<server, rescanned>>
    BY <1>3 DEF RecentSearch
  <2>6. CASE ProcessBarcode(s, code)
    BY <1>1, <2>2, <2>5, <2>6, ProcessStep
  <2>7. CASE Go(Replace(stack, s)) /\ UNCHANGED calls
    BY <1>1, <2>2, <2>5, <2>7, TopScanner, ScannerTop, GoStep, CallsMoves
  <2> QED BY <1>3, <2>1, <2>4, <2>6, <2>7 DEF RecentSearch
<1> QED BY <1>2, <1>3

LEMMA HistoryStep == ASSUME IInv, NEW n, HistoryEntryPress(n) PROVE IInv'
<1>1. On("Scan") /\ Top \in Scanners /\ active \in Nullable(Lists)
  BY TopScanner DEF HistoryEntryPress, Shown, IInv, TypeOK
<1>2. PICK t : t = [Top EXCEPT !.sheet = "none"]
  OBVIOUS
<1>3. /\ t \in Scanners /\ t.key = Top.key /\ t.suppressed = Top.suppressed
      /\ t.touched = Top.touched /\ t.last = Top.last
  BY <1>1, <1>2 DEF Scanners
<1>4. Turned(Replace(stack, t))
  BY <1>1, <1>3, TopScanner, ScannerTop
<1>5. PICK e : e = recent[active][n]
  OBVIOUS
<1>6. /\ e.prod \in Codes /\ e.cached \in BOOLEAN /\ e.held \in Nullable(Held) /\ Current(e.held)
      /\ Known(e.prod)
  BY <1>1, <1>5, RecentEntry DEF HistoryEntryPress
<1>7. /\ Result(FreshKey, e.prod, e.held, e.cached) \in Results
      /\ ComesUp(Result(FreshKey, e.prod, e.held, e.cached))
  BY <1>6, Keys, NewScreens DEF IInv
<1>8. Press(Navigate(Replace(stack, t), Result(FreshKey, e.prod, e.held, e.cached)))
  BY <1>2, <1>5 DEF HistoryEntryPress
<1> QED BY <1>4, <1>7, <1>8, NavigateMoves, PressStep

LEMMA GoBackStep == ASSUME IInv, GoBack PROVE IInv'
BY PopMoves, GoStep, CallsMoves DEF GoBack

LEMMA PushedOK ==
  ASSUME NEW e \in Recent, EntryOK(e), NEW entries \in Seq(Recent),
         \A n \in DOMAIN entries : EntryOK(entries[n])
  PROVE  /\ Pushed(e, entries) \in Seq(Recent)
         /\ \A n \in DOMAIN Pushed(e, entries) : EntryOK(Pushed(e, entries)[n])
<1> DEFINE all == <<e>> \o entries
           m == IF Len(entries) < RecentLimit THEN Len(entries) + 1 ELSE RecentLimit
<1>1. /\ <<e>> \in Seq(Recent) /\ Len(<<e>>) = 1 /\ <<e>>[1] = e
      /\ Len(entries) \in Nat /\ DOMAIN entries = 1..Len(entries)
  BY LenProperties
<1>2. /\ all \in Seq(Recent) /\ Len(all) = 1 + Len(entries)
      /\ \A i \in 1..(1 + Len(entries)) :
           all[i] = IF i <= 1 THEN <<e>>[i] ELSE entries[i - 1]
  BY <1>1, ConcatProperties
<1>3. \A i \in 1..(1 + Len(entries)) : EntryOK(all[i]) /\ all[i] \in Recent
  <2> SUFFICES ASSUME NEW i \in 1..(1 + Len(entries)) PROVE EntryOK(all[i]) /\ all[i] \in Recent
    OBVIOUS
  <2> HIDE DEF all
  <2>1. CASE i = 1
    BY <1>1, <1>2, <2>1
  <2>2. CASE i # 1
    <3>1. i - 1 \in 1..Len(entries) /\ all[i] = entries[i - 1]
      BY <1>1, <1>2, <2>2
    <3>2. entries[i - 1] \in Recent
      BY <1>1, <3>1, LenProperties
    <3> QED BY <1>1, <3>1, <3>2
  <2> QED BY <2>1, <2>2
<1>4. m \in Nat /\ m <= 1 + Len(entries)
  BY <1>1, BoundsAssumption
<1> HIDE DEF all, m
<1>5. /\ SubSeq(all, 1, m) \in Seq(Recent)
      /\ Len(SubSeq(all, 1, m)) = IF 1 <= m THEN m - 1 + 1 ELSE 0
      /\ \A i \in 1..(m - 1 + 1) : SubSeq(all, 1, m)[i] = all[1 + i - 1]
  <2>1. \A i \in 1..m : all[i] \in Recent
    BY <1>1, <1>3, <1>4
  <2> QED BY <1>4, <2>1, SubSeqProperties
<1>6. DOMAIN SubSeq(all, 1, m) = 1..m /\ \A i \in 1..m : SubSeq(all, 1, m)[i] = all[i]
  BY <1>4, <1>5, LenProperties
<1>7. Pushed(e, entries) = SubSeq(all, 1, m)
  BY DEF Pushed, all, m
<1> QED BY <1>1, <1>3, <1>4, <1>5, <1>6, <1>7

-----------------------------------------------------------------------------
(* The answers to the scanner                                                 *)

LEMMA UpdateTurns ==
  ASSUME IInv, NEW st, st = [i \in DOMAIN stack |-> st[i]],
         \A i \in DOMAIN stack : Becomes(stack[i], st[i]) \/ st[i] = stack[i]
  PROVE  Turned(st)
<1>1. \A i \in DOMAIN stack : Becomes(stack[i], st[i]) /\ st[i] \in Screens
  BY StaysAsItIs DEF Becomes
<1>2. DOMAIN stack = 1..Len(stack)
  BY StackType DEF IInv
<1> QED BY <1>1, <1>2 DEF Turned

LEMMA CallerTop ==
  ASSUME IInv, NEW c \in calls, NEW i \in DOMAIN stack, stack[i].key = c.key
  PROVE  /\ stack[i].name = Caller[c.op] /\ stack[i] \in Screens /\ ScreenOK(stack[i])
         /\ c.op = "scan" => stack[i] \in Scanners
         /\ c.op \in Pricing \cup {"add"} => stack[i] \in Results
         /\ c.op = "product" => stack[i] \in Creations
<1>1. stack[i].name = Caller[c.op] /\ stack[i] \in Screens /\ ScreenOK(stack[i])
  BY StackType DEF IInv, KeysOK
<1> QED BY <1>1, Kinds DEF Caller, Pricing

LEMMA FreedTurns ==
  ASSUME IInv, NEW c \in calls, c.op = "scan"
  PROVE  /\ Turned(Freed(c))
         /\ Turned(Update(c.key, LAMBDA s : [s EXCEPT !.busy = FALSE, !.flight = None, !.broken = TRUE]))
<1>1. ASSUME NEW i \in DOMAIN stack, stack[i].key = c.key
      PROVE  /\ Becomes(stack[i], [stack[i] EXCEPT !.busy = FALSE, !.flight = None])
             /\ Becomes(stack[i], [stack[i] EXCEPT !.busy = FALSE, !.flight = None, !.broken = TRUE])
  <2>1. PICK s : s = stack[i]
    OBVIOUS
  <2>2. s \in Scanners /\ ScreenOK(s)
    BY <1>1, <2>1, CallerTop
  <2>3. s.suppressed # None /\ ~s.touched => s.last = s.suppressed
    BY <2>2, ScannerOK DEF ScreenOK
  <2>4. PICK t : t = [s EXCEPT !.busy = FALSE, !.flight = None]
    OBVIOUS
  <2>5. PICK u : u = [s EXCEPT !.busy = FALSE, !.flight = None, !.broken = TRUE]
    OBVIOUS
  <2>6. /\ t \in Scanners /\ t.key = s.key /\ t.suppressed = s.suppressed
        /\ t.touched = s.touched /\ t.last = s.last
    BY <2>2, <2>4 DEF Scanners, Nullable
  <2>7. /\ u \in Scanners /\ u.key = s.key /\ u.suppressed = s.suppressed
        /\ u.touched = s.touched /\ u.last = s.last
    BY <2>2, <2>5 DEF Scanners, Nullable
  <2>8. Becomes(s, t) /\ Becomes(s, u)
    BY <2>2, <2>3, <2>6, <2>7, ScannerOK, ScannerTurns
  <2> QED BY <2>1, <2>4, <2>5, <2>8
<1>2. Turned(Freed(c))
  <2> DEFINE st == Freed(c)
  <2>1. st = [i \in DOMAIN stack |-> IF stack[i].key = c.key
                THEN [stack[i] EXCEPT !.busy = FALSE, !.flight = None] ELSE stack[i]]
    BY DEF Freed, Update
  <2> HIDE DEF st
  <2>2. st = [i \in DOMAIN stack |-> st[i]]
    BY <2>1
  <2>3. \A i \in DOMAIN stack : Becomes(stack[i], st[i]) \/ st[i] = stack[i]
    BY <1>1, <2>1
  <2>4. Turned(st)
    BY <2>2, <2>3, UpdateTurns
  <2> QED BY <2>4 DEF st
<1>3. Turned(Update(c.key, LAMBDA s : [s EXCEPT !.busy = FALSE, !.flight = None, !.broken = TRUE]))
  <2> DEFINE st == Update(c.key, LAMBDA s : [s EXCEPT !.busy = FALSE, !.flight = None, !.broken = TRUE])
  <2>1. st = [i \in DOMAIN stack |-> IF stack[i].key = c.key
                THEN [stack[i] EXCEPT !.busy = FALSE, !.flight = None, !.broken = TRUE] ELSE stack[i]]
    BY DEF Update
  <2> HIDE DEF st
  <2>2. st = [i \in DOMAIN stack |-> st[i]]
    BY ZenonT(40), SMTT(30), <2>1
  <2>3. \A i \in DOMAIN stack : Becomes(stack[i], st[i]) \/ st[i] = stack[i]
    BY <1>1, <2>1
  <2>4. Turned(st)
    BY <2>2, <2>3, UpdateTurns
  <2> QED BY <2>4 DEF st
<1> QED BY <1>2, <1>3

LEMMA OpenStep ==
  ASSUME IInv, NEW c \in calls, c.op = "scan", NEW p \in Codes, NEW h \in Nullable(Held), Known(p),
         Current(h), NEW cached \in BOOLEAN, OpenScanResult(Freed(c), c, p, h, cached), calls' = calls \ {c},
         UNCHANGED <<server, active, rescanned>>,
         cache' \in [barcode: [Codes -> Nullable(Codes)], held: [Codes -> Nullable(Held)]],
         \A q \in Codes : cache'.barcode[q] # None => Known(cache'.barcode[q]),
         \A q \in Codes : Current(cache'.held[q])
  PROVE  IInv'
<1>1. Turned(Freed(c)) /\ CallsMove(calls')
  BY FreedTurns, CallsMoves
<1>2. Result(FreshKey, p, h, cached) \in Results /\ ComesUp(Result(FreshKey, p, h, cached))
  BY Keys, NewScreens DEF IInv
<1>3. StackMoves(stack')
  BY <1>1, <1>2, NavigateMoves DEF OpenScanResult
<1>4. PICK e : e = [code |-> c.code, prod |-> p, held |-> h, cached |-> cached]
  OBVIOUS
<1>5. c.code \in Codes /\ c.list \in Nullable(Lists)
  BY DEF IInv, TypeOK, CallOK, Carries, Calls
<1>6. e \in Recent /\ EntryOK(e)
  BY <1>4, <1>5 DEF Recent, EntryOK
<1>7. recent' = [recent EXCEPT ![c.list] = Pushed(e, @)]
  BY <1>4 DEF OpenScanResult
<1>8. \A l \in Nullable(Lists) : /\ recent[l] \in Seq(Recent)
                                 /\ \A n \in DOMAIN recent[l] : EntryOK(recent[l][n])
  BY DEF IInv, TypeOK, CopiesOK
<1>9. PICK new : new = Pushed(e, recent[c.list])
  OBVIOUS
<1>10. new \in Seq(Recent) /\ \A n \in DOMAIN new : EntryOK(new[n])
  BY <1>5, <1>6, <1>8, <1>9, PushedOK
<1>11. recent' = [recent EXCEPT ![c.list] = new]
  BY <1>7, <1>9
<1>12. recent \in [Nullable(Lists) -> Seq(Recent)] /\ rescanned' = FALSE /\ active' \in Nullable(Lists)
  BY DEF IInv, TypeOK
<1>13. recent' \in [Nullable(Lists) -> Seq(Recent)]
  BY <1>10, <1>11, <1>12
<1>14. \A l \in Nullable(Lists) : \A n \in DOMAIN recent'[l] : EntryOK(recent'[l][n])
  BY <1>5, <1>8, <1>10, <1>11, <1>12
<1> QED BY <1>1, <1>3, <1>12, <1>13, <1>14, PhoneStep

LEMMA ScanAnsweredStep ==
  ASSUME IInv, NEW c \in calls, c.at = "answered", ScanAnswered(c), UNCHANGED server
  PROVE  IInv'
<1>1. /\ c.op = "scan" /\ calls' = calls \ {c} /\ CallsMove(calls') /\ c.code \in Codes
      /\ c.reply \in Replies /\ Current(c.reply.held)
      /\ c.reply.kind = "found" => Known(c.reply.prod)
  BY CallsMoves DEF ScanAnswered, IInv, CallOK, Carries, Replied
<1>2. Turned(Freed(c)) /\ StackMoves(Freed(c))
  BY <1>1, FreedTurns, TurnedMoves
<1>3. /\ cache \in [barcode: [Codes -> Nullable(Codes)], held: [Codes -> Nullable(Held)]]
      /\ \A p \in Codes : Current(cache.held[p])
      /\ \A p \in Codes : cache.barcode[p] # None => Known(cache.barcode[p])
  BY DEF IInv, TypeOK, CopiesOK
<1>4. CASE /\ c.reply.kind = "found"
           /\ CacheScanResult(c.code, c.reply.prod, c.reply.held)
           /\ OpenScanResult(Freed(c), c, c.reply.prod, c.reply.held, FALSE)
           /\ UNCHANGED <<active, rescanned>>
  <2>1. PICK p \in Codes : p = c.reply.prod
    BY <1>1, <1>4 DEF Known
  <2>2. PICK h \in Nullable(Held) : h = c.reply.held
    BY <1>1 DEF Replies
  <2>3. /\ cache' = [barcode |-> [cache.barcode EXCEPT ![c.code] = p],
                     held |-> IF h = None THEN cache.held ELSE [cache.held EXCEPT ![p] = h]]
    BY <1>4, <2>1, <2>2 DEF CacheScanResult
  <2>4. /\ cache' \in [barcode: [Codes -> Nullable(Codes)], held: [Codes -> Nullable(Held)]]
        /\ \A q \in Codes : cache'.held[q] \in {cache.held[q], h}
        /\ \A q \in Codes : cache'.barcode[q] \in {cache.barcode[q], p}
    BY <1>3, <2>3 DEF Nullable
  <2>5. /\ \A q \in Codes : Current(cache'.held[q])
        /\ \A q \in Codes : cache'.barcode[q] # None => Known(cache'.barcode[q])
    BY <1>1, <1>3, <1>4, <2>1, <2>2, <2>4
  <2> QED BY <1>1, <1>4, <2>1, <2>2, <2>4, <2>5, OpenStep
<1>5. CASE c.reply.kind = "lost" /\ cache.barcode[c.code] # None
           /\ OpenScanResult(Freed(c), c, cache.barcode[c.code], cache.held[cache.barcode[c.code]], TRUE)
           /\ UNCHANGED <<cache, active, rescanned>>
  <2>1. PICK p \in Codes : p = cache.barcode[c.code]
    BY <1>1, <1>3, <1>5 DEF Nullable
  <2>2. cache.held[p] \in Nullable(Held) /\ Current(cache.held[p])
    BY <1>3
  <2> QED BY <1>1, <1>3, <1>5, <2>1, <2>2, OpenStep
<1>6. CASE \/ c.reply.kind = "needs_disambiguation" /\ Go(Replace(Freed(c), Choice(FreshKey, c.code)))
           \/ c.reply.kind = "not_found" /\ Go(Replace(Freed(c), NotFound(FreshKey, c.code)))
  <2>1. ComesUp(Choice(FreshKey, c.code)) /\ ComesUp(NotFound(FreshKey, c.code))
    BY <1>1, Keys, NewScreens DEF IInv
  <2>2. /\ StackMoves(Replace(Freed(c), Choice(FreshKey, c.code)))
        /\ StackMoves(Replace(Freed(c), NotFound(FreshKey, c.code)))
    BY <1>2, <2>1, ReplaceMoves
  <2> QED BY <1>1, <1>6, <2>2, GoStep
<1>7. CASE \/ c.reply.kind = "refused" /\ Go(Freed(c))
           \/ Go(Update(c.key, LAMBDA s : [s EXCEPT !.busy = FALSE, !.flight = None, !.broken = TRUE]))
  BY <1>1, <1>2, <1>7, FreedTurns, TurnedMoves, GoStep
<1> QED BY <1>4, <1>5, <1>6, <1>7 DEF ScanAnswered

-----------------------------------------------------------------------------
(* Choosing and creating a product                                            *)

LEMMA TopScreen ==
  ASSUME IInv
  PROVE  /\ Top \in Screens /\ Top = stack[Len(stack)] /\ Len(stack) \in DOMAIN stack
         /\ ScreenOK(Top) /\ Top.key \in Nat /\ active \in Nullable(Lists)
         /\ On("ScanDisambiguation") => Top \in Choices
         /\ On("ProductNotFound") => Top \in Unknowns
         /\ On("CreateProduct") => Top \in Creations
         /\ On("ProductCreatedSuccess") => Top \in Successes
         /\ On("ScanResult") => Top \in Results
<1>1. Top \in Screens /\ Len(stack) \in DOMAIN stack /\ Top = stack[Len(stack)]
  BY StackType DEF IInv, Top
<1>2. ScreenOK(Top) /\ active \in Nullable(Lists)
  BY <1>1 DEF IInv, TypeOK
<1> QED BY <1>1, <1>2, Kinds DEF On

LEMMA TopTurns ==
  ASSUME IInv, NEW s, Becomes(Top, s)
  PROVE  Turned(Replace(stack, s)) /\ StackMoves(Replace(stack, s))
<1>1. Turned(Replace(stack, s))
  BY TopScreen, ScreenTurns DEF Replace
<1> QED BY <1>1, TurnedMoves

LEMMA TopReplaced ==
  ASSUME IInv, NEW s, ComesUp(s)
  PROVE  StackMoves(Replace(stack, s))
BY StaysAsItIs, ReplaceMoves

LEMMA TopSends ==
  ASSUME IInv, NEW c, Sends(c, Top)
  PROVE  CallsMove(calls \cup {c})
BY TopScreen, CallsMoves

LEMMA SelectStep == ASSUME IInv, NEW p \in Codes, SelectCandidate(p) PROVE IInv'
<1>1. On("ScanDisambiguation") /\ Top \in Choices
  BY TopScreen DEF SelectCandidate
<1>2. PICK t : t = [Top EXCEPT !.picked = p]
  OBVIOUS
<1>3. t \in Choices /\ t.key = Top.key
  BY <1>1, <1>2 DEF Choices, Nullable
<1>4. Becomes(Top, t)
  BY <1>1, <1>3 DEF Becomes, ScreenOK, SaysAdded, Choices, Screens
<1>5. PICK c : c = [Request("attach", Top.key) EXCEPT !.code = Top.code, !.held = p]
  OBVIOUS
<1>6. /\ c \in Calls /\ c.op = "attach" /\ c.code \in Codes /\ c.held = p /\ c.id = None
      /\ c.at = "sent" /\ c.key = Top.key
  BY <1>1, <1>5, TopScreen DEF Request, Calls, Choices, Nullable
<1>7. CallOK(c)
  BY <1>6, NamesAssumption DEF CallOK, Carries, Replied, SelectCandidate, Known
<1>8. Sends(c, Top)
  BY <1>1, <1>6, <1>7 DEF Sends, Caller, On
<1>9. Go(Replace(stack, t)) /\ calls' = calls \cup {c} /\ UNCHANGED server
  BY <1>2, <1>5 DEF SelectCandidate, Send
<1> QED BY <1>4, <1>8, <1>9, TopTurns, TopSends, GoStep

LEMMA AttachAnsweredStep ==
  ASSUME IInv, NEW c \in calls, AttachAnswered(c), UNCHANGED server
  PROVE  IInv'
<1>1. ComesUp(Scanner(FreshKey, None))
  BY Keys, NewScreens DEF IInv, Nullable
<1>2. StackMoves(stack) /\ StackMoves(Replace(stack, Scanner(FreshKey, None))) /\ CallsMove(calls \ {c})
  BY <1>1, StaysAsItIs, TurnedMoves, TopReplaced, CallsMoves
<1>3. CASE Go(stack)
  BY <1>2, <1>3, GoStep DEF AttachAnswered
<1>4. CASE Go(Replace(stack, Scanner(FreshKey, None)))
  BY <1>2, <1>4, GoStep DEF AttachAnswered
<1> QED BY <1>3, <1>4 DEF AttachAnswered

LEMMA ChoiceStep ==
  ASSUME IInv, NoneMatches \/ Skip \/ BackToNotFound \/ HandleNextScan \/ SuccessTimeout
  PROVE  IInv'
<1>1. \A c \in Nullable(Codes) : ComesUp(Scanner(FreshKey, c))
  BY Keys, NewScreens DEF IInv
<1>2. \A c \in Codes : ComesUp(NotFound(FreshKey, c)) /\ ComesUp(Creation(FreshKey, c))
  BY Keys, NewScreens DEF IInv
<1>3. CASE NoneMatches
  <2>1. Top.code \in Codes
    BY <1>3, TopScreen DEF NoneMatches, On, Choices, Unknowns
  <2> QED BY <1>2, <1>3, <2>1, TopReplaced, PressStep DEF NoneMatches
<1>4. CASE Skip \/ SuccessTimeout
  BY <1>1, <1>4, TopReplaced, PressStep DEF Skip, SuccessTimeout, Nullable
<1>5. CASE BackToNotFound
  <2>1. Top.code \in Codes
    BY <1>5, TopScreen DEF BackToNotFound, Creations
  <2> QED BY <1>2, <1>5, <2>1, TopReplaced, PressStep DEF BackToNotFound
<1>6. CASE HandleNextScan
  <2>1. Top.code \in Nullable(Codes)
    BY <1>6, TopScreen DEF HandleNextScan, Successes, Nullable
  <2> QED BY <1>1, <1>6, <2>1, ResetMoves, PressStep DEF HandleNextScan
<1> QED BY <1>3, <1>4, <1>5, <1>6

LEMMA CreatedComesUp ==
  ASSUME IInv, NEW c \in calls, c.op \in Adding, NEW k \in Nat, k \notin Used, NEW done \in BOOLEAN,
         done => rows[c.list][c.code] # None
  PROVE  ComesUp(Created(k, c.code, c.list, c.id, done)) /\ Created(k, c.code, c.list, c.id, done).key = k
<1>1. c.code \in Codes /\ c.list \in Lists /\ c.id \in Ids
  BY DEF IInv, CallOK, Carries, Adding
<1>2. PICK t : t = Created(k, c.code, c.list, c.id, done)
  OBVIOUS
<1>3. /\ t \in Successes /\ t.key = k /\ t.code = c.code /\ t.list = c.list /\ t.id = c.id
      /\ t.done = done /\ t.name = "ProductCreatedSuccess"
  BY <1>1, <1>2 DEF Created, Successes
<1>4. ScreenOK(t)
  BY <1>3 DEF ScreenOK, SaysAdded
<1>5. ComesUp(t)
  BY <1>3, <1>4 DEF ComesUp, Screens
<1> QED BY <1>2, <1>3, <1>5

LEMMA FirstAddAnsweredStep ==
  ASSUME IInv, NEW c \in calls, c.at = "answered", FirstAddAnswered(c), UNCHANGED server
  PROVE  IInv'
<1>1. c.op \in Adding /\ c.code \in Codes /\ (c.reply.kind = "ok" => rows[c.list][c.code] # None)
  BY DEF FirstAddAnswered, Adding, IInv, CallOK, Carries, Replied
<1>2. PICK done \in BOOLEAN : done = (c.reply.kind = "ok")
  OBVIOUS
<1>3. /\ ComesUp(Scanner(FreshKey, c.code)) /\ Scanner(FreshKey, c.code).key = FreshKey
      /\ ComesUp(Created(NextKey, c.code, c.list, c.id, done))
      /\ Created(NextKey, c.code, c.list, c.id, done).key # FreshKey
  BY <1>1, <1>2, Keys, NewScreens, CreatedComesUp DEF IInv, Nullable, Scanner
<1>4. StackMoves(<<Scanner(FreshKey, c.code), Created(NextKey, c.code, c.list, c.id, done)>>)
  BY <1>3, ResetMoves
<1>5. Go(<<Scanner(FreshKey, c.code), Created(NextKey, c.code, c.list, c.id, done)>>)
  BY <1>2 DEF FirstAddAnswered
<1>6. CallsMove(calls')
  BY CallsMoves DEF FirstAddAnswered
<1> QED BY <1>4, <1>5, <1>6, GoStep

LEMMA RetryStep == ASSUME IInv, RetryAdd PROVE IInv'
<1>1. On("ProductCreatedSuccess") /\ Top \in Successes
  BY TopScreen DEF RetryAdd
<1>2. PICK c : c = RetryRequest(Top)
  OBVIOUS
<1>3. /\ c \in Calls /\ c.op = "retry" /\ c.code = Top.code /\ c.list = Top.list /\ c.id = Top.id
      /\ c.at = "sent" /\ c.key = Top.key
  BY <1>1, <1>2, TopScreen DEF RetryRequest, Request, Calls, Successes, Nullable
<1>4. CallOK(c)
  BY <1>1, <1>3 DEF CallOK, Carries, Replied, Successes
<1>5. Sends(c, Top)
  BY <1>1, <1>3, <1>4 DEF Sends, Caller, On
<1>6. CallsMove(calls') /\ StackMoves(stack) /\ UNCHANGED <<server, phone>>
  BY <1>2, <1>5, TopSends, StaysAsItIs, TurnedMoves DEF RetryAdd, Send
<1>7. Go(stack)
  BY <1>6 DEF phone, Go
<1> QED BY <1>6, <1>7, GoStep

LEMMA RetryAnsweredStep ==
  ASSUME IInv, NEW c \in calls, c.at = "answered", RetryAnswered(c), UNCHANGED server
  PROVE  IInv'
<1>1. c.op \in Adding /\ (c.reply.kind = "ok" => rows[c.list][c.code] # None) /\ CallsMove(calls')
  BY CallsMoves DEF RetryAnswered, Adding, IInv, CallOK, Replied
<1>2. CASE c.reply.kind = "ok"
  <2>1. ComesUp(Created(FreshKey, c.code, c.list, c.id, TRUE))
    BY <1>1, <1>2, Keys, CreatedComesUp DEF IInv
  <2> QED BY <1>1, <1>2, <2>1, TopReplaced, GoStep DEF RetryAnswered
<1>3. CASE c.reply.kind # "ok"
  BY <1>1, <1>3, StaysAsItIs, TurnedMoves, GoStep DEF RetryAnswered
<1> QED BY <1>2, <1>3

-----------------------------------------------------------------------------
(* The result screen                                                          *)

LEMMA ResultTurns ==
  ASSUME NEW s \in Results, NEW t \in Results, t.key = s.key, Known(t.prod), Current(t.held),
         t.step \in {"verify", "update"} => t.held \in Held
  PROVE  Becomes(s, t)
BY DEF Becomes, ScreenOK, SaysAdded, Results, Screens

LEMMA StepStep ==
  ASSUME IInv, UpdatePress \/ CancelPress
  PROVE  IInv'
<1>1. PICK step \in {"verify", "update"} : On("ScanResult") /\ Top.step \in {"verify", "update"} /\ ToStep(step)
  BY DEF UpdatePress, CancelPress, At
<1>2. Top \in Results /\ Current(Top.held) /\ Top.held \in Held /\ Known(Top.prod)
  BY <1>1, TopScreen DEF ScreenOK, On
<1>3. PICK t : t = [Top EXCEPT !.step = step]
  OBVIOUS
<1>4. t \in Results /\ t.key = Top.key /\ t.held = Top.held /\ t.prod = Top.prod
  BY <1>2, <1>3 DEF Results
<1>5. StackMoves(Replace(stack, t))
  BY <1>2, <1>4, ResultTurns, TopTurns
<1> QED BY <1>1, <1>3, <1>5, PressStep DEF ToStep

LEMMA AskStep ==
  ASSUME IInv, NEW c, Sends(c, Top), Ask(c)
  PROVE  IInv'
<1>1. CallsMove(calls') /\ StackMoves(stack) /\ UNCHANGED server /\ Go(stack)
  BY TopSends, StaysAsItIs, TurnedMoves DEF Ask, Send, phone, Go
<1> QED BY <1>1, GoStep

LEMMA PressedStep ==
  ASSUME IInv, \/ ConfirmPress \/ AddItem
               \/ \E price \in Prices : SavePrice(price) \/ RegisterMissingPrice(price)
  PROVE  IInv'
<1>1. Top \in Results /\ On("ScanResult")
  BY TopScreen DEF ConfirmPress, AddItem, SavePrice, RegisterMissingPrice, At
<1>2. /\ Current(Top.held) /\ Known(Top.prod) /\ Top.prod \in Codes /\ Top.held \in Nullable(Held)
      /\ Top.step \in {"verify", "update"} => Top.held \in Held
      /\ Top.key \in Nat /\ active \in Nullable(Lists)
  BY <1>1, TopScreen DEF ScreenOK, Results, On
<1>3. ASSUME NEW c \in Calls, c.op \in Pricing \cup {"add"}, c.key = Top.key, c.at = "sent",
             Carries(c)
      PROVE  Sends(c, Top)
  BY <1>1, <1>3 DEF Sends, CallOK, Replied, Carries, Caller, On, Pricing
<1>4. CASE ConfirmPress
  <2>1. PICK c : c = [Request("confirm", Top.key) EXCEPT !.held = Top.held]
    OBVIOUS
  <2>2. c \in Calls /\ c.op = "confirm" /\ c.key = Top.key /\ c.at = "sent" /\ c.held = Top.held
        /\ c.id = None
    BY <1>2, <2>1 DEF Request, Calls, Nullable
  <2>3. Carries(c)
    BY <1>2, <1>4, <2>2 DEF Carries, ConfirmPress, At
  <2> QED BY <1>3, <1>4, <2>1, <2>2, <2>3, AskStep DEF ConfirmPress, Pricing
<1>5. CASE AddItem
  <2>1. PICK c : c = [Request("add", Top.key) EXCEPT !.code = Top.prod]
    OBVIOUS
  <2>2. c \in Calls /\ c.op = "add" /\ c.key = Top.key /\ c.at = "sent" /\ c.code = Top.prod
        /\ c.id = None /\ c.list = active
    BY <1>2, <2>1 DEF Request, Calls, Nullable
  <2>3. Carries(c)
    BY <1>2, <1>5, <2>2 DEF Carries, AddItem, Nullable
  <2> QED BY <1>3, <1>5, <2>1, <2>2, <2>3, AskStep DEF AddItem
<1>6. ASSUME NEW price \in Prices, SavePrice(price) PROVE IInv'
  <2>1. PICK c : c = [Request("save", Top.key) EXCEPT !.held = Top.held, !.shown = Top.held.price,
                                                      !.price = price]
    OBVIOUS
  <2>2. Top.held \in Held /\ Top.held.price \in Nat /\ price \in Nat
    BY <1>2, <1>6, BoundsAssumption DEF SavePrice, At, Held
  <2>3. c \in Calls /\ c.op = "save" /\ c.key = Top.key /\ c.at = "sent" /\ c.held = Top.held
        /\ c.id = None /\ c.shown = Top.held.price
    BY <1>2, <2>1, <2>2 DEF Request, Calls, Nullable
  <2>4. Carries(c)
    BY <1>2, <2>2, <2>3 DEF Carries
  <2> QED BY <1>3, <1>6, <2>1, <2>3, <2>4, AskStep DEF SavePrice, Pricing
<1>7. ASSUME NEW price \in Prices, RegisterMissingPrice(price) PROVE IInv'
  <2>1. PICK c : c = [Request("register", Top.key) EXCEPT !.code = Top.prod, !.price = price]
    OBVIOUS
  <2>2. c \in Calls /\ c.op = "register" /\ c.key = Top.key /\ c.at = "sent" /\ c.code = Top.prod
        /\ c.id = None
    BY <1>2, <2>1, BoundsAssumption DEF Request, Calls, Nullable
  <2>3. Carries(c)
    BY <1>2, <2>2 DEF Carries
  <2> QED BY <1>3, <1>7, <2>1, <2>2, <2>3, AskStep DEF RegisterMissingPrice, Pricing
<1> QED BY SMTT(30), ZenonT(40), <1>4, <1>5, <1>6, <1>7

LEMMA PriceAnsweredStep ==
  ASSUME IInv, NEW c \in calls, c.at = "answered", PriceAnswered(c), UNCHANGED server
  PROVE  IInv'
<1>1. /\ c.op \in Pricing /\ CallsMove(calls') /\ Current(c.reply.held)
      /\ c.reply.kind = "ok" => c.reply.held \in Held
      /\ c.reply.kind = "conflict" =>
           c.op = "save" /\ c.reply.held \in Held /\ c.reply.held.prod = c.held.prod
      /\ c.op \in {"save", "confirm"} => c.held \in Held
  BY CallsMoves DEF PriceAnswered, Pricing, IInv, CallOK, Carries, Replied
<1>2. ASSUME c.reply.kind = "conflict" PROVE Adopted(c.held, c.reply.held) = c.reply.held
  BY <1>1, <1>2 DEF Adopted, Held
<1>3. ASSUME NEW i \in DOMAIN stack, stack[i].key = c.key
      PROVE  /\ c.reply.kind = "ok" =>
                  Becomes(stack[i], [stack[i] EXCEPT !.held = c.reply.held, !.step = "quantity"])
             /\ c.reply.kind = "conflict" =>
                  Becomes(stack[i], [stack[i] EXCEPT !.held = Adopted(c.held, c.reply.held)])
  <2>1. PICK s : s = stack[i]
    OBVIOUS
  <2>2. s \in Results /\ Known(s.prod)
    <3>1. s \in Results /\ ScreenOK(s)
      BY <1>1, <1>3, <2>1, CallerTop
    <3> QED BY <3>1 DEF ScreenOK, Results
  <2>3. PICK h : h = c.reply.held
    OBVIOUS
  <2>4. ASSUME c.reply.kind = "ok" PROVE Becomes(s, [s EXCEPT !.held = h, !.step = "quantity"])
    <3>1. PICK t : t = [s EXCEPT !.held = h, !.step = "quantity"]
      OBVIOUS
    <3>2. h \in Held /\ Current(h)
      BY <1>1, <2>3, <2>4
    <3>3. t \in Results /\ t.key = s.key /\ t.held = h /\ t.prod = s.prod
      BY <2>2, <3>1, <3>2 DEF Results, Nullable
    <3> QED BY <2>2, <3>1, <3>2, <3>3, ResultTurns
  <2>5. ASSUME c.reply.kind = "conflict" PROVE Becomes(s, [s EXCEPT !.held = h])
    <3>1. PICK t : t = [s EXCEPT !.held = h]
      OBVIOUS
    <3>2. h \in Held /\ Current(h)
      BY <1>1, <2>3, <2>5
    <3>3. t \in Results /\ t.key = s.key /\ t.held = h /\ t.prod = s.prod
      BY <2>2, <3>1, <3>2 DEF Results, Nullable
    <3> QED BY <2>2, <3>1, <3>2, <3>3, ResultTurns
  <2> QED BY <1>2, <2>1, <2>3, <2>4, <2>5
<1>4. PICK st : st = Update(c.key, LAMBDA s :
        CASE c.reply.kind = "ok" -> [s EXCEPT !.held = c.reply.held, !.step = "quantity"]
          [] c.reply.kind = "conflict" -> [s EXCEPT !.held = Adopted(c.held, c.reply.held)]
          [] OTHER -> s)
  OBVIOUS
<1>5. st = [i \in DOMAIN stack |-> IF stack[i].key = c.key
        THEN CASE c.reply.kind = "ok" -> [stack[i] EXCEPT !.held = c.reply.held, !.step = "quantity"]
               [] c.reply.kind = "conflict" -> [stack[i] EXCEPT !.held = Adopted(c.held, c.reply.held)]
               [] OTHER -> stack[i]
        ELSE stack[i]]
  BY <1>4 DEF Update
<1>6. st = [i \in DOMAIN stack |-> st[i]]
  BY <1>5
<1>7. \A i \in DOMAIN stack : Becomes(stack[i], st[i]) \/ st[i] = stack[i]
  BY <1>3, <1>5
<1>8. StackMoves(st) /\ Go(st)
  BY <1>4, <1>6, <1>7, UpdateTurns, TurnedMoves DEF PriceAnswered
<1> QED BY <1>1, <1>8, GoStep

LEMMA AddAnsweredStep ==
  ASSUME IInv, NEW c \in calls, AddAnswered(c), UNCHANGED server
  PROVE  IInv'
<1>1. c.op = "add" /\ CallsMove(calls')
  BY CallsMoves DEF AddAnswered
<1>2. PICK st : st = Update(c.key, LAMBDA s : IF c.reply.kind = "ok" THEN [s EXCEPT !.step = "success"] ELSE s)
  OBVIOUS
<1>3. st = [i \in DOMAIN stack |-> IF stack[i].key = c.key
              THEN IF c.reply.kind = "ok" THEN [stack[i] EXCEPT !.step = "success"] ELSE stack[i]
              ELSE stack[i]]
  BY <1>2 DEF Update
<1>4. ASSUME NEW i \in DOMAIN stack, stack[i].key = c.key
      PROVE  Becomes(stack[i], [stack[i] EXCEPT !.step = "success"])
  <2>1. PICK s : s = stack[i]
    OBVIOUS
  <2>2. PICK t : t = [s EXCEPT !.step = "success"]
    OBVIOUS
  <2>3. s \in Results /\ Current(s.held) /\ Known(s.prod)
    <3>1. s \in Results /\ ScreenOK(s)
      BY <1>1, <1>4, <2>1, CallerTop
    <3> QED BY <3>1 DEF ScreenOK, Results
  <2>4. t \in Results /\ t.key = s.key /\ t.held = s.held /\ t.step = "success" /\ t.prod = s.prod
    BY <2>2, <2>3 DEF Results
  <2> QED BY <2>1, <2>2, <2>3, <2>4, ResultTurns
<1>5. st = [i \in DOMAIN stack |-> st[i]]
  BY <1>3
<1>6. \A i \in DOMAIN stack : Becomes(stack[i], st[i]) \/ st[i] = stack[i]
  BY <1>3, <1>4
<1>7. StackMoves(st) /\ Go(st)
  BY <1>2, <1>5, <1>6, UpdateTurns, TurnedMoves DEF AddAnswered
<1> QED BY <1>1, <1>7, GoStep

LEMMA ActiveStep == ASSUME IInv, NEW l \in Nullable(Lists), ActiveChanges(l) PROVE IInv'
<1>1. StackMoves(stack) /\ CallsMove(calls)
  BY StaysAsItIs, TurnedMoves, CallsMoves
<1>2. StackMoves(stack') /\ CallsMove(calls') /\ UNCHANGED <<server, recent, cache>>
      /\ rescanned' = FALSE /\ active' \in Nullable(Lists)
  BY <1>1 DEF ActiveChanges, IInv, TypeOK
<1> QED BY <1>2, PhoneStep DEF IInv, TypeOK, CopiesOK

-----------------------------------------------------------------------------
(* The server                                                                 *)

\* Listings only get newer, and a row of a list and the product of a barcode stay.
Grows ==
    /\ \A p \in Codes : listing'[p] = listing[p] \/ listing'[p].version > listing[p].version
    /\ \A l \in Lists, p \in Codes : rows[l][p] # None => rows'[l][p] = rows[l][p]
    /\ \A p \in Codes : resolves[p] # None => resolves'[p] = resolves[p]

\* A request and its answer.
Answers(c, a) ==
    /\ a \in Calls /\ a.op = c.op /\ a.key = c.key /\ a.code = c.code /\ a.held = c.held
    /\ a.shown = c.shown /\ a.list = c.list /\ a.id = c.id /\ a.at = "answered"

LEMMA StaysCurrent ==
  ASSUME TypeOK, TypeOK', Grows, NEW h, Current(h)
  PROVE  Current(h)'
<1>1. CASE h = None
  BY <1>1 DEF Current
<1>2. CASE h # None
  <2>1. h \in Held /\ h.prod \in Codes /\ h.version \in Nat
    BY <1>2 DEF Current, Held
  <2>2. listing[h.prod].version \in Nat /\ listing'[h.prod].version \in Nat
    BY <2>1 DEF TypeOK
  <2> QED BY <1>2, <2>1, <2>2 DEF Current, Grows
<1> QED BY <1>1, <1>2

LEMMA StaysOK ==
  ASSUME IInv, TypeOK', Grows, UNCHANGED phone
  PROVE  /\ \A i \in DOMAIN stack' : ScreenOK(stack[i])'
         /\ \A c \in calls : CallOK(c)'
         /\ CopiesOK'
<1>1. UNCHANGED <<stack, recent, cache>> /\ TypeOK
  BY DEF phone, IInv
<1>2. ASSUME NEW i \in DOMAIN stack PROVE ScreenOK(stack[i])'
  <2>1. PICK s : s = stack[i]
    OBVIOUS
  <2>2. ScreenOK(s) /\ s \in Screens
    BY <2>1, StackType DEF IInv
  <2>3. SaysAdded(s) => s.list \in Lists /\ s.code \in Codes
    BY <2>2, Kinds DEF SaysAdded, Successes
  <2>4. ScreenOK(s)'
    BY <1>1, <2>2, <2>3, StaysCurrent DEF ScreenOK, Grows, Known
  <2> QED BY <1>1, <2>1, <2>4
<1>3. ASSUME NEW c \in calls PROVE CallOK(c)'
  <2>1. CallOK(c)
    BY DEF IInv
  <2>2. c.op \in Adding => c.list \in Lists /\ c.code \in Codes
    BY <2>1 DEF CallOK, Carries, Adding
  <2>3. Carries(c)'
    BY <1>1, <2>1, StaysCurrent DEF CallOK, Carries, Grows, Known
  <2>4. Replied(c)'
    BY <1>1, <2>1, <2>2, StaysCurrent DEF CallOK, Replied, Grows, Known
  <2> QED BY <2>3, <2>4 DEF CallOK
<1>4. CopiesOK'
  BY <1>1, StaysCurrent DEF IInv, CopiesOK, EntryOK, Grows, Known
<1> QED BY <1>1, <1>2, <1>3, <1>4

\* The server's tables after a step.
TablesOK ==
    /\ resolves' \in [Codes -> Nullable(Codes)]
    /\ listing' \in [Codes -> [price: Nat, version: Nat]]
    /\ rows' \in [Lists -> [Codes -> Ids \cup {Anon, None}]]
    /\ applied' \in [Ids -> Nat]

LEMMA AnswerAdds ==
  ASSUME IInv, UNCHANGED phone, NEW c \in calls, NEW a, Answers(c, a),
         calls' = (calls \ {c}) \cup {a}
  PROVE  \A id, l, p : Adds(id, l, p)' <=> Adds(id, l, p)
<1>1. stack' = stack
  BY DEF phone
<1>2. ASSUME NEW id, NEW l, NEW p
      PROVE  (\E d \in calls' : d.op \in Adding /\ d.id = id /\ d.list = l /\ d.code = p)
             <=> (\E d \in calls : d.op \in Adding /\ d.id = id /\ d.list = l /\ d.code = p)
  BY DEF Answers
<1> QED BY <1>1, <1>2 DEF Adds, AddsIn

LEMMA AnswerStep ==
  ASSUME IInv, UNCHANGED phone, TablesOK, Grows, NEW c \in calls, NEW a, Answers(c, a), Replied(a)',
         calls' = (calls \ {c}) \cup {a},
         \A id \in Ids : Unsent(id) => applied'[id] = 0,
         AddsOK', CatalogOK'
  PROVE  IInv'
<1>0. UNCHANGED <<stack, recent, cache, active, rescanned>>
  BY DEF phone
<1>1. a \in Calls /\ calls' \subseteq Calls
  BY DEF Answers, IInv, TypeOK
<1>2. TypeOK' /\ IsFiniteSet(calls)'
  <2>1. IsFiniteSet(calls \ {c})
    BY FS_RemoveElement DEF IInv
  <2>2. IsFiniteSet(calls)'
    BY <2>1, FS_AddElement
  <2> QED BY <1>0, <1>1, <2>2 DEF IInv, TypeOK, TablesOK
<1>3. /\ \A i \in DOMAIN stack' : ScreenOK(stack[i])'
      /\ \A d \in calls : CallOK(d)'
      /\ CopiesOK'
  BY <1>2, StaysOK
<1>4. CallOK(a)'
  <2>1. Carries(c)'
    BY <1>3 DEF CallOK
  <2>2. Carries(a)'
    BY <2>1 DEF Carries, Answers
  <2> QED BY <2>2 DEF CallOK
<1>5. \A d \in calls' : CallOK(d)'
  BY <1>3, <1>4
<1>6. KeysOK'
  BY <1>0 DEF IInv, KeysOK, Answers
<1>7. \A id \in Ids : Unsent(id) => Unsent(id)'
  BY AnswerAdds DEF Unsent
<1>8. \A d \in calls' : \E e \in calls : e.op = d.op /\ e.id = d.id /\ e.key = d.key
  BY DEF Answers
<1>9. ProductAlone'
  <2> SUFFICES ASSUME NEW p \in calls', p.op = "product"
               PROVE  /\ Unsent(p.id)'
                      /\ \A d \in calls' : d.id = p.id => d = p
                      /\ \A i \in DOMAIN stack' : stack'[i].name = "CreateProduct" =>
                           /\ stack'[i].id = p.id => stack'[i].key = p.key
                           /\ stack'[i].key = p.key => stack'[i].id = p.id /\ stack'[i].started
    BY DEF ProductAlone
  <2>1. PICK q \in calls : q.op = "product" /\ q.id = p.id /\ q.key = p.key
    BY <1>8
  <2>2. q.id \in Ids /\ Unsent(q.id) /\ \A d \in calls : d.id = q.id => d = q
    BY <2>1 DEF IInv, CallOK, Carries, ProductAlone
  <2>3. ASSUME NEW d \in calls', d.id = p.id PROVE d = p
    <3>1. CASE q = c
      BY <2>1, <2>2, <2>3, <3>1 DEF Answers
    <3>2. CASE q # c
      BY <2>1, <2>2, <2>3, <3>2 DEF Answers
    <3> QED BY <3>1, <3>2
  <2> QED BY <1>0, <1>7, <2>1, <2>2, <2>3 DEF IInv, ProductAlone
<1>10. IdleAlone'
  <2> SUFFICES ASSUME NEW i \in DOMAIN stack, stack[i].name = "CreateProduct",
                      ~stack[i].started, stack[i].id # None
               PROVE  /\ Unsent(stack[i].id)'
                      /\ \A d \in calls' : d.id # stack[i].id
    BY <1>0 DEF IInv, IdleAlone
  <2>1. stack[i].id \in Ids
    <3>1. stack[i] \in Creations
      BY StackType, Kinds DEF IInv
    <3> QED BY <3>1 DEF Creations, Nullable
  <2>2. PICK id \in Ids : id = stack[i].id
    BY <2>1
  <2>3. Unsent(id) /\ \A d \in calls : d.id # id
    BY <2>2 DEF IInv, IdleAlone
  <2>4. Unsent(id)'
    BY <1>7, <2>3
  <2>5. stack'[i].id = id
    BY <1>0, <2>2
  <2> QED BY <1>8, <2>2, <2>3, <2>4, <2>5
<1> QED BY <1>0, <1>2, <1>3, <1>5, <1>6, <1>9, <1>10 DEF IInv

LEMMA AnswerOf ==
  ASSUME IInv, NEW c \in calls, NEW reply \in Replies
  PROVE  LET a == [c EXCEPT !.at = "answered", !.reply = reply]
         IN  Answers(c, a) /\ a.reply = reply
<1>1. c \in Calls
  BY DEF IInv, TypeOK
<1> QED BY <1>1 DEF Answers, Calls, Nullable

\* An answer to a request that adds nothing to a list.
LEMMA ServedStep ==
  ASSUME IInv, UNCHANGED <<phone, rows, applied>>,
         resolves' \in [Codes -> Nullable(Codes)], listing' \in [Codes -> [price: Nat, version: Nat]],
         \A p \in Codes : listing'[p] = listing[p] \/ listing'[p].version > listing[p].version,
         \A p \in Codes : resolves[p] # None => resolves'[p] = resolves[p],
         CatalogOK',
         NEW c \in calls, NEW kind, NEW p, NEW h, Answer(c, kind, p, h),
         [kind |-> kind, prod |-> p, held |-> h] \in Replies, Current(h)',
         kind = "found" => Known(p)',
         kind = "ok" => c.op \notin Adding /\ (c.op \in Pricing => h \in Held),
         kind = "conflict" => c.op = "save" /\ h \in Held /\ h.prod = c.held.prod
  PROVE  IInv'
<1>1. PICK reply \in Replies : reply = [kind |-> kind, prod |-> p, held |-> h]
  OBVIOUS
<1>2. reply.kind = kind /\ reply.prod = p /\ reply.held = h
  BY <1>1
<1>3. PICK a : a = [c EXCEPT !.at = "answered", !.reply = reply]
  OBVIOUS
<1>4. Answers(c, a) /\ a.reply = reply
  BY <1>3, AnswerOf
<1>5. calls' = (calls \ {c}) \cup {a}
  BY <1>1, <1>3 DEF Answer
<1>6. Replied(a)'
  BY <1>2, <1>4 DEF Replied, Answers
<1>7. TablesOK /\ Grows
  BY DEF TablesOK, Grows, IInv, TypeOK
<1>8. AddsOK'
  <2>1. \A id, l, q : Adds(id, l, q)' <=> Adds(id, l, q)
    BY <1>4, <1>5, AnswerAdds
  <2> QED BY <2>1 DEF IInv, AddsOK
<1>9. \A id \in Ids : Unsent(id) => applied'[id] = 0
  BY DEF Unsent
<1> QED BY <1>4, <1>5, <1>6, <1>7, <1>8, <1>9, AnswerStep

LEMMA ListedOK ==
  ASSUME IInv, NEW p \in Codes
  PROVE  /\ Listed(p) \in Nullable(Held) /\ Current(Listed(p))
         /\ listing[p].version # 0 => Listed(p) \in Held /\ Listed(p).prod = p
<1>1. listing[p] \in [price: Nat, version: Nat]
  BY DEF IInv, TypeOK
<1>2. CASE listing[p].version = 0
  BY <1>2 DEF Listed, Current, Nullable
<1>3. CASE listing[p].version # 0
  <2>1. PICK h : h = [prod |-> p, price |-> listing[p].price, version |-> listing[p].version]
    OBVIOUS
  <2>2. h \in Held /\ h.prod = p /\ h.price = listing[p].price /\ h.version = listing[p].version
    BY <1>1, <1>3, <2>1 DEF Held
  <2>3. Listed(p) = h
    BY <1>3, <2>1 DEF Listed
  <2> QED BY <1>1, <2>2, <2>3 DEF Current, Nullable
<1> QED BY <1>2, <1>3

LEMMA HeldIsListed ==
  ASSUME IInv, NEW c \in calls, c.op \in {"confirm", "save"}
  PROVE  /\ c.held \in Held /\ c.held.prod \in Codes /\ Current(c.held)
         /\ c.held.version \in Nat /\ listing[c.held.prod].version # 0
<1>1. c.held \in Held /\ Current(c.held)
  BY DEF IInv, CallOK, Carries
<1>2. c.held.prod \in Codes /\ c.held.version \in Nat \ {0}
  BY <1>1 DEF Held
<1>3. listing[c.held.prod].version \in Nat
  BY <1>2 DEF IInv, TypeOK
<1> QED BY <1>1, <1>2, <1>3, NamesAssumption DEF Current

LEMMA RefusedStep ==
  ASSUME IInv, UNCHANGED <<phone, server>>, NEW c \in calls,
         Refuse(c) \/ Answer(c, "lost", None, None)
  PROVE  IInv'
<1>1. \A kind \in {"refused", "lost"} : [kind |-> kind, prod |-> None, held |-> None] \in Replies
  BY DEF Replies, Nullable
<1>2. Current(None)' /\ UNCHANGED <<resolves, listing, rows, applied>>
  BY DEF Current, server
<1>3. /\ resolves' \in [Codes -> Nullable(Codes)] /\ listing' \in [Codes -> [price: Nat, version: Nat]]
      /\ \A p \in Codes : listing'[p] = listing[p]
      /\ \A p \in Codes : resolves'[p] = resolves[p]
      /\ CatalogOK'
  BY <1>2 DEF IInv, TypeOK, CatalogOK, Known
<1> QED BY <1>1, <1>2, <1>3, ServedStep DEF Refuse

\* A step that changes what barcodes resolve to and the listings, and answers one request.
LEMMA StaysCatalog ==
  ASSUME IInv, UNCHANGED <<resolves, listing>>
  PROVE  /\ resolves' \in [Codes -> Nullable(Codes)] /\ listing' \in [Codes -> [price: Nat, version: Nat]]
         /\ \A p \in Codes : listing'[p] = listing[p]
         /\ \A p \in Codes : resolves'[p] = resolves[p]
         /\ CatalogOK'
BY DEF IInv, TypeOK, CatalogOK, Known

LEMMA ScanServedStep ==
  ASSUME IInv, UNCHANGED phone, NEW c \in calls, ServeScan(c)
  PROVE  IInv'
<1>1. c.code \in Codes /\ UNCHANGED <<resolves, listing, rows, applied>> /\ c.op = "scan"
  BY DEF ServeScan, server, IInv, CallOK, Carries
<1>2. Current(None)'
  BY DEF Current
<1>3. CASE Answer(c, "not_found", None, None) \/ Answer(c, "needs_disambiguation", None, None)
  <2>1. \A kind \in {"not_found", "needs_disambiguation"} :
           [kind |-> kind, prod |-> None, held |-> None] \in Replies
    BY DEF Replies, Nullable
  <2> QED BY <1>1, <1>2, <1>3, <2>1, StaysCatalog, ServedStep
<1>4. CASE resolves[c.code] # None /\ Answer(c, "found", resolves[c.code], Listed(resolves[c.code]))
  <2>1. Known(resolves[c.code])
    BY <1>1, <1>4 DEF IInv, CatalogOK, Known
  <2>2. PICK p \in Codes : p = resolves[c.code]
    BY <2>1 DEF Known
  <2>3. Known(p)'
    BY <1>1, <2>1, <2>2 DEF Known
  <2>4. PICK h \in Nullable(Held) : h = Listed(p) /\ Current(h)
    BY <2>2, ListedOK
  <2>5. Current(h)'
    BY <1>1, <2>4 DEF Current
  <2>6. Answer(c, "found", p, h)
    BY <1>4, <2>2, <2>4
  <2>7. [kind |-> "found", prod |-> p, held |-> h] \in Replies
    BY DEF Replies, Nullable
  <2> QED BY <1>1, <2>3, <2>5, <2>6, <2>7, StaysCatalog, ServedStep
<1> QED BY <1>3, <1>4 DEF ServeScan

LEMMA AttachServedStep ==
  ASSUME IInv, UNCHANGED phone, NEW c \in calls, ServeAttach(c)
  PROVE  IInv'
<1>1. c.code \in Codes /\ Known(c.held) /\ UNCHANGED <<listing, rows, applied>> /\ c.op = "attach"
  BY DEF ServeAttach, IInv, CallOK, Carries
<1>2. CASE /\ resolves[c.code] \in {None, c.held}
           /\ resolves' = [resolves EXCEPT ![c.code] = c.held] /\ Answer(c, "ok", None, None)
  <2>1. resolves \in [Codes -> Nullable(Codes)] /\ listing \in [Codes -> [price: Nat, version: Nat]]
    BY DEF IInv, TypeOK
  <2>2. c.held \in Codes /\ c.held # None
    BY <1>1, NamesAssumption DEF Known
  <2>3. /\ resolves' \in [Codes -> Nullable(Codes)]
        /\ \A p \in Codes : resolves[p] # None => resolves'[p] = resolves[p]
    BY <1>1, <1>2, <2>1, <2>2 DEF Nullable
  <2>4. \A p : Known(p) => Known(p)'
    BY <2>3 DEF Known
  <2>5. CatalogOK'
    <3> SUFFICES ASSUME NEW p \in Codes
                 PROVE  (listing[p].version # 0 => Known(p)') /\ (Known(p)' => Known(resolves[p])')
      BY <1>1 DEF CatalogOK
    <3>1. listing[p].version # 0 => Known(p)'
      BY <2>4 DEF IInv, CatalogOK
    <3>2. CASE p = c.code
      <4>1. resolves'[p] = c.held
        BY <1>2, <2>1, <3>2
      <4>2. Known(c.held)'
        BY <1>1, <2>3 DEF Known
      <4> QED BY <3>1, <4>1, <4>2 DEF Known
    <3>3. CASE p # c.code
      <4>1. resolves'[p] = resolves[p]
        BY <1>2, <2>1, <3>3
      <4>2. Known(p)' => Known(resolves[p])
        BY <4>1 DEF IInv, CatalogOK, Known
      <4> QED BY <2>4, <3>1, <4>1, <4>2 DEF Known
    <3> QED BY <3>1, <3>2, <3>3
  <2>6. [kind |-> "ok", prod |-> None, held |-> None] \in Replies /\ Current(None)'
    BY DEF Replies, Nullable, Current
  <2> QED BY <1>1, <1>2, <2>1, <2>3, <2>5, <2>6, ServedStep DEF Adding, Pricing
<1>3. CASE Refuse(c) /\ UNCHANGED resolves
  BY <1>1, <1>3, RefusedStep DEF server
<1> QED BY <1>2, <1>3 DEF ServeAttach

\* A listing is created for a product of the catalogue, or gets a newer version.
LEMMA ListingGrows ==
  ASSUME IInv, NEW p \in Codes, NEW price \in Nat, NEW version \in Nat \ {0},
         version > listing[p].version,
         listing' = [listing EXCEPT ![p] = [price |-> price, version |-> version]]
  PROVE  /\ listing' \in [Codes -> [price: Nat, version: Nat]]
         /\ \A q \in Codes : listing'[q] = listing[q] \/ listing'[q].version > listing[q].version
         /\ \A q \in Codes : listing'[q].version # 0 => q = p \/ listing[q].version # 0
         /\ \A h : h = [prod |-> p, price |-> price, version |-> version] => h \in Held /\ Current(h)'
<1>1. listing \in [Codes -> [price: Nat, version: Nat]]
  BY DEF IInv, TypeOK
<1>2. PICK e : e = [price |-> price, version |-> version]
  OBVIOUS
<1>3. e \in [price: Nat, version: Nat] /\ e.price = price /\ e.version = version
  BY <1>2
<1>4. listing' = [listing EXCEPT ![p] = e]
  BY <1>2
<1>5. listing'[p] = e /\ \A q \in Codes : q # p => listing'[q] = listing[q]
  BY <1>1, <1>4
<1>6. ASSUME NEW h, h = [prod |-> p, price |-> price, version |-> version]
      PROVE  h \in Held /\ Current(h)'
  <2>1. h \in Held /\ h.prod = p /\ h.price = price /\ h.version = version
    BY <1>6 DEF Held
  <2> QED BY <1>3, <1>5, <2>1 DEF Current
<1> QED BY <1>1, <1>3, <1>4, <1>5, <1>6

LEMMA ProductServedStep ==
  ASSUME IInv, UNCHANGED phone, NEW c \in calls, ServeProduct(c)
  PROVE  IInv'
<1>1. c.code \in Codes /\ c.price \in Nat /\ UNCHANGED <<rows, applied>> /\ c.op = "product"
  <2>1. CallOK(c) /\ c \in Calls
    BY DEF IInv, TypeOK
  <2> QED BY <2>1 DEF ServeProduct, CallOK, Carries, Calls
<1>2. CASE /\ resolves[c.code] = None
           /\ resolves' = [resolves EXCEPT ![c.code] = c.code]
           /\ listing' = [listing EXCEPT ![c.code] = [price |-> c.price, version |-> 1]]
           /\ Answer(c, "ok", c.code, None)
  <2>1. PICK p \in Codes : p = c.code
    BY <1>1
  <2>2. resolves \in [Codes -> Nullable(Codes)] /\ p # None
    BY NamesAssumption DEF IInv, TypeOK
  <2>3. listing[p].version = 0
    BY <1>2, <2>1 DEF IInv, CatalogOK, Known
  <2>4. /\ listing' \in [Codes -> [price: Nat, version: Nat]]
        /\ \A q \in Codes : listing'[q] = listing[q] \/ listing'[q].version > listing[q].version
        /\ \A q \in Codes : listing'[q].version # 0 => q = p \/ listing[q].version # 0
    <3>1. listing' = [listing EXCEPT ![p] = [price |-> c.price, version |-> 1]]
      BY <1>2, <2>1
    <3>2. 1 \in Nat \ {0} /\ 1 > listing[p].version
      BY <2>3
    <3> QED BY <1>1, <3>1, <3>2, ListingGrows
  <2>5. /\ resolves' \in [Codes -> Nullable(Codes)]
        /\ \A q \in Codes : resolves[q] # None => resolves'[q] = resolves[q]
        /\ resolves'[p] = p
        /\ \A q \in Codes : q # p => resolves'[q] = resolves[q]
    BY <1>2, <2>1, <2>2 DEF Nullable
  <2>6. \A q : Known(q) => Known(q)'
    BY <2>5 DEF Known
  <2>7. Known(p)'
    BY <2>2, <2>5 DEF Known
  <2>8. CatalogOK'
    <3> SUFFICES ASSUME NEW q \in Codes
                 PROVE  (listing'[q].version # 0 => Known(q)') /\ (Known(q)' => Known(resolves[q])')
      BY DEF CatalogOK
    <3>1. listing'[q].version # 0 => Known(q)'
      BY <2>4, <2>6, <2>7 DEF IInv, CatalogOK
    <3>2. CASE q = p
      BY <2>5, <2>7, <3>1, <3>2 DEF Known
    <3>3. CASE q # p
      <4>1. Known(q)' => Known(resolves[q])
        BY <2>5, <3>3 DEF IInv, CatalogOK, Known
      <4> QED BY <2>5, <2>6, <3>1, <3>3, <4>1 DEF Known
    <3> QED BY <3>1, <3>2, <3>3
  <2>9. [kind |-> "ok", prod |-> p, held |-> None] \in Replies /\ Current(None)'
    BY DEF Replies, Nullable, Current
  <2>10. Answer(c, "ok", p, None)
    BY <1>2, <2>1
  <2> QED BY <1>1, <2>4, <2>5, <2>8, <2>9, <2>10, ServedStep DEF Adding, Pricing
<1>3. CASE Refuse(c) /\ UNCHANGED <<resolves, listing>>
  BY <1>1, <1>3, RefusedStep DEF server
<1> QED BY <1>2, <1>3 DEF ServeProduct

LEMMA ConfirmServedStep ==
  ASSUME IInv, UNCHANGED phone, NEW c \in calls, ServeConfirm(c)
  PROVE  IInv'
<1>1. /\ c.op = "confirm" /\ UNCHANGED <<resolves, listing, rows, applied>>
      /\ Answer(c, "ok", c.held.prod, Listed(c.held.prod))
  BY DEF ServeConfirm, server
<1>2. c.held.prod \in Codes /\ listing[c.held.prod].version # 0
  BY <1>1, HeldIsListed
<1>3. PICK p \in Codes : p = c.held.prod
  BY <1>2
<1>4. PICK h \in Held : h = Listed(p) /\ Current(h)
  BY <1>2, <1>3, ListedOK
<1>5. Current(h)'
  BY <1>1, <1>4 DEF Current
<1>6. Answer(c, "ok", p, h)
  BY <1>1, <1>3, <1>4
<1>7. [kind |-> "ok", prod |-> p, held |-> h] \in Replies
  BY DEF Replies, Nullable
<1> QED BY <1>1, <1>5, <1>6, <1>7, StaysCatalog, ServedStep DEF Adding

LEMMA RegisterServedStep ==
  ASSUME IInv, UNCHANGED phone, NEW c \in calls, ServeRegister(c)
  PROVE  IInv'
<1>1. /\ c.op = "register" /\ c.price \in Nat /\ c.code \in Codes /\ Known(c.code)
      /\ UNCHANGED <<resolves, rows, applied>>
  <2>1. CallOK(c) /\ c \in Calls
    BY DEF IInv, TypeOK
  <2> QED BY <2>1 DEF ServeRegister, CallOK, Carries, Calls
<1>2. PICK p \in Codes : p = c.code
  BY <1>1
<1>3. PICK h : h = [prod |-> p, price |-> listing'[p].price, version |-> listing'[p].version]
  OBVIOUS
<1>4. Answer(c, "ok", p, h)
  BY <1>2, <1>3 DEF ServeRegister
<1>5. listing[p] \in [price: Nat, version: Nat]
  BY DEF IInv, TypeOK
<1>6. /\ listing' \in [Codes -> [price: Nat, version: Nat]]
      /\ \A q \in Codes : listing'[q] = listing[q] \/ listing'[q].version > listing[q].version
      /\ \A q \in Codes : listing'[q].version # 0 => q = p \/ listing[q].version # 0
      /\ h \in Held /\ Current(h)'
  <2>1. CASE listing[p].version > 0
    <3>1. listing' = listing
      BY <1>2, <2>1 DEF ServeRegister
    <3>2. Listed(p) = h /\ h \in Held /\ Current(h)
      BY <1>3, <1>5, <2>1, <3>1, ListedOK DEF Listed
    <3>3. Current(h)'
      BY <3>1, <3>2 DEF Current
    <3> QED BY <3>1, <3>2, <3>3 DEF IInv, TypeOK
  <2>2. CASE ~(listing[p].version > 0)
    <3>1. listing' = [listing EXCEPT ![p] = [price |-> c.price, version |-> 1]]
      BY <1>2, <2>2 DEF ServeRegister
    <3>2. 1 \in Nat \ {0} /\ 1 > listing[p].version
      BY <1>5, <2>2
    <3>3. listing'[p] = [price |-> c.price, version |-> 1]
      BY <3>1 DEF IInv, TypeOK
    <3>4. h = [prod |-> p, price |-> c.price, version |-> 1]
      BY <1>3, <3>3
    <3> QED BY <1>1, <3>1, <3>2, <3>4, ListingGrows
  <2> QED BY <2>1, <2>2
<1>7. CatalogOK'
  BY <1>1, <1>2, <1>6 DEF IInv, CatalogOK, Known
<1>8. [kind |-> "ok", prod |-> p, held |-> h] \in Replies
  BY <1>6 DEF Replies, Nullable
<1>9. resolves' \in [Codes -> Nullable(Codes)] /\ \A q \in Codes : resolves'[q] = resolves[q]
  BY <1>1 DEF IInv, TypeOK
<1> QED BY <1>1, <1>4, <1>6, <1>7, <1>8, <1>9, ServedStep DEF Adding

LEMMA SaveServedStep ==
  ASSUME IInv, UNCHANGED phone, NEW c \in calls, ServeSave(c)
  PROVE  IInv'
<1>1. /\ c.op = "save" /\ c.price \in Nat /\ UNCHANGED <<resolves, rows, applied>>
  <2>1. c \in Calls
    BY DEF IInv, TypeOK
  <2> QED BY <2>1 DEF ServeSave, Calls
<1>2. /\ c.held.prod \in Codes /\ c.held.version \in Nat
      /\ listing[c.held.prod].version # 0
  BY <1>1, HeldIsListed
<1>3. PICK p \in Codes : p = c.held.prod
  BY <1>2
<1>4. resolves' \in [Codes -> Nullable(Codes)] /\ \A q \in Codes : resolves'[q] = resolves[q]
  BY <1>1 DEF IInv, TypeOK
<1>5. CASE /\ listing[p].version = c.held.version
           /\ listing' = [listing EXCEPT ![p] = [price |-> c.price, version |-> @.version + 1]]
           /\ Answer(c, "ok", p, [prod |-> p, price |-> c.price, version |-> c.held.version + 1])
  <2>1. PICK v \in Nat \ {0} : v = listing[p].version + 1 /\ v > listing[p].version
    BY <1>2, <1>5
  <2>2. PICK h : h = [prod |-> p, price |-> c.price, version |-> v]
    OBVIOUS
  <2>3. listing' = [listing EXCEPT ![p] = [price |-> c.price, version |-> v]]
    BY <1>5, <2>1
  <2>4. /\ listing' \in [Codes -> [price: Nat, version: Nat]]
        /\ \A q \in Codes : listing'[q] = listing[q] \/ listing'[q].version > listing[q].version
        /\ \A q \in Codes : listing'[q].version # 0 => q = p \/ listing[q].version # 0
        /\ h \in Held /\ Current(h)'
    BY <1>1, <2>1, <2>2, <2>3, ListingGrows
  <2>5. CatalogOK'
    BY <1>1, <1>2, <1>3, <2>4 DEF IInv, CatalogOK, Known
  <2>6. Answer(c, "ok", p, h)
    BY <1>5, <2>1, <2>2
  <2>7. [kind |-> "ok", prod |-> p, held |-> h] \in Replies
    BY <2>4 DEF Replies, Nullable
  <2> QED BY <1>1, <1>4, <2>4, <2>5, <2>6, <2>7, ServedStep DEF Adding
<1>6. CASE UNCHANGED listing /\ Answer(c, "conflict", p, Listed(p))
  <2>1. PICK h \in Held : h = Listed(p) /\ Current(h) /\ h.prod = p
    BY <1>2, <1>3, ListedOK
  <2>2. Current(h)' /\ Answer(c, "conflict", p, h)
    BY <1>6, <2>1 DEF Current
  <2>3. [kind |-> "conflict", prod |-> p, held |-> h] \in Replies
    BY DEF Replies, Nullable
  <2> QED BY <1>1, <1>3, <1>6, <2>1, <2>2, <2>3, StaysCatalog, ServedStep
<1> QED BY <1>3, <1>5, <1>6 DEF ServeSave

LEMMA AddServedStep ==
  ASSUME IInv, UNCHANGED phone, NEW c \in calls, ServeAdd(c)
  PROVE  IInv'
<1>1. /\ c.op \in {"add", "first", "retry"} /\ c.list \in Lists /\ c.code \in Codes
      /\ IF c.op = "add" THEN c.id = None ELSE c.id \in Ids
      /\ UNCHANGED <<resolves, listing>>
  BY DEF ServeAdd, IInv, CallOK, Carries
<1>2. PICK reply \in Replies : reply = [kind |-> "ok", prod |-> c.code, held |-> None]
  BY <1>1 DEF Replies, Nullable
<1>3. PICK a : a = [c EXCEPT !.at = "answered", !.reply = reply]
  OBVIOUS
<1>4. Answers(c, a) /\ a.reply = reply
  BY <1>3, AnswerOf
<1>5. calls' = (calls \ {c}) \cup {a}
  BY <1>2, <1>3 DEF Answer, ServeAdd
<1>6. PICK l \in Lists, p \in Codes : l = c.list /\ p = c.code
  BY <1>1
<1>7. /\ rows \in [Lists -> [Codes -> Ids \cup {Anon, None}]] /\ applied \in [Ids -> Nat]
      /\ c.id # None => c.id \in Ids /\ Adds(c.id, l, p)
  BY <1>1, <1>6 DEF IInv, TypeOK, Adds, AddsIn, Adding
<1>8. /\ rows' \in [Lists -> [Codes -> Ids \cup {Anon, None}]] /\ applied' \in [Ids -> Nat]
      /\ \A m \in Lists, q \in Codes : rows[m][q] # None => rows'[m][q] = rows[m][q]
      /\ \A m \in Lists, q \in Codes : m # l \/ q # p => rows'[m][q] = rows[m][q]
      /\ rows'[l][p] # None
      /\ \A id \in Ids : id # c.id => applied'[id] = applied[id]
      /\ rows[l][p] = None => rows'[l][p] = (IF c.id = None THEN Anon ELSE c.id)
      /\ c.id # None => applied'[c.id] = IF rows[l][p] = c.id THEN applied[c.id] ELSE applied[c.id] + 1
  <2>1. Anon # None
    BY NamesAssumption
  <2>2. CASE c.id # None /\ rows[l][p] = c.id
    BY <1>6, <1>7, <2>2 DEF ServeAdd
  <2>3. CASE ~(c.id # None /\ rows[l][p] = c.id)
    <3>1. /\ rows' = IF rows[l][p] # None THEN rows
                     ELSE [rows EXCEPT ![l][p] = IF c.id = None THEN Anon ELSE c.id]
          /\ applied' = IF c.id = None THEN applied ELSE [applied EXCEPT ![c.id] = @ + 1]
      BY <1>6, <2>3 DEF ServeAdd
    <3>2. /\ applied' \in [Ids -> Nat]
          /\ \A id \in Ids : id # c.id => applied'[id] = applied[id]
          /\ c.id # None => applied'[c.id] = applied[c.id] + 1
      BY <1>7, <3>1
    <3>3. /\ rows' \in [Lists -> [Codes -> Ids \cup {Anon, None}]]
          /\ \A m \in Lists, q \in Codes : m # l \/ q # p => rows'[m][q] = rows[m][q]
          /\ rows'[l][p] = IF rows[l][p] # None THEN rows[l][p]
                           ELSE IF c.id = None THEN Anon ELSE c.id
      <4>1. CASE rows[l][p] # None
        BY <1>7, <3>1, <4>1
      <4>2. CASE rows[l][p] = None
        <5>1. PICK v \in Ids \cup {Anon, None} : v = IF c.id = None THEN Anon ELSE c.id
          BY <1>7
        <5>2. rows' = [rows EXCEPT ![l][p] = v]
          BY <3>1, <4>2, <5>1
        <5> QED BY <1>7, <4>2, <5>1, <5>2
      <4> QED BY <4>1, <4>2
    <3> QED BY <2>1, <2>3, <3>2, <3>3
  <2> QED BY <2>2, <2>3
<1>9. TablesOK /\ Grows
  BY <1>1, <1>8 DEF TablesOK, Grows, IInv, TypeOK
<1>10. Replied(a)'
  <2>1. rows'[c.list][c.code] # None
    BY <1>6, <1>8
  <2>2. c.op \notin Pricing /\ reply.kind = "ok" /\ reply.held = None
    BY <1>1, <1>2 DEF Pricing
  <2> QED BY <1>4, <2>1, <2>2 DEF Replied, Answers, Current
<1>11. \A id \in Ids : Unsent(id) => applied'[id] = 0
  <2>1. \A id \in Ids : Unsent(id) => id # c.id
    BY <1>7, NamesAssumption DEF Unsent
  <2> QED BY <1>8, <2>1 DEF Unsent
<1>12. CatalogOK'
  BY <1>1 DEF IInv, CatalogOK, Known
<1>13. AddsOK'
  <2>1. \A id, m, q : Adds(id, m, q)' <=> Adds(id, m, q)
    BY <1>4, <1>5, AnswerAdds
  <2> SUFFICES ASSUME NEW id \in Ids, NEW m \in Lists, NEW q \in Codes
               PROVE  /\ Adds(id, m, q) =>
                           /\ \A n \in Lists, r \in Codes : Adds(id, n, r) => n = m /\ r = q
                           /\ applied'[id] # 0 => rows'[m][q] # None
                      /\ rows'[m][q] = id =>
                           /\ applied'[id] = 1
                           /\ \A n \in Lists, r \in Codes : Adds(id, n, r) => n = m /\ r = q
    BY <2>1 DEF AddsOK
  <2>2. /\ Adds(id, m, q) =>
             /\ \A n \in Lists, r \in Codes : Adds(id, n, r) => n = m /\ r = q
             /\ applied[id] # 0 => rows[m][q] # None
        /\ rows[m][q] = id =>
             /\ applied[id] = 1
             /\ \A n \in Lists, r \in Codes : Adds(id, n, r) => n = m /\ r = q
    BY DEF IInv, AddsOK
  <2>3. id # None /\ id # Anon
    BY NamesAssumption
  <2>4. CASE id # c.id
    <3>1. applied'[id] = applied[id]
      BY <1>8, <2>4
    <3>2. rows'[m][q] = id => rows[m][q] = id
      BY <1>8, <2>3, <2>4
    <3>3. rows[m][q] # None => rows'[m][q] # None
      BY <1>8
    <3> QED BY <2>2, <3>1, <3>2, <3>3
  <2>5. CASE id = c.id
    <3>1. Adds(id, l, p) /\ applied[id] \in Nat
      BY <1>7, <2>3, <2>5
    <3>2. \A n \in Lists, r \in Codes : Adds(id, n, r) => n = l /\ r = p
      BY <3>1 DEF IInv, AddsOK
    <3>3. applied[id] # 0 => rows[l][p] # None
      BY <3>1 DEF IInv, AddsOK
    <3>4. Adds(id, m, q) => rows'[m][q] # None
      BY <1>8, <3>2
    <3>5. ASSUME rows'[m][q] = id PROVE m = l /\ q = p /\ applied'[id] = 1
      <4>1. m = l /\ q = p
        BY <1>8, <2>2, <3>1, <3>5
      <4>2. CASE rows[l][p] = id
        BY <1>8, <2>2, <2>3, <2>5, <4>1, <4>2
      <4>3. CASE rows[l][p] # id
        BY <1>8, <2>3, <2>5, <3>1, <3>3, <3>5, <4>1, <4>3
      <4> QED BY <4>2, <4>3
    <3> QED BY <2>2, <3>2, <3>4, <3>5
  <2> QED BY <2>4, <2>5
<1> QED BY <1>4, <1>5, <1>9, <1>10, <1>11, <1>12, <1>13, AnswerStep

LEMMA ServeStep == ASSUME IInv, Serve PROVE IInv'
<1>1. PICK c \in calls : \/ ServeScan(c) \/ ServeAttach(c) \/ ServeProduct(c) \/ ServeAdd(c)
                         \/ ServeConfirm(c) \/ ServeRegister(c) \/ ServeSave(c)
  BY DEF Serve
<1>2. UNCHANGED phone
  BY DEF Serve
<1> QED BY <1>1, <1>2, ScanServedStep, AttachServedStep, ProductServedStep, AddServedStep,
           ConfirmServedStep, RegisterServedStep, SaveServedStep

LEMMA FaultStep == ASSUME IInv, Fault PROVE IInv'
BY RefusedStep DEF Fault

-----------------------------------------------------------------------------
(* Starting, ending and giving up an attempt to create a product              *)

\* A step that only changes the attempts on the stack and the requests under way.
LEMMA AttemptStep ==
  ASSUME IInv, UNCHANGED <<resolves, listing, rows, applied, recent, cache, active, rescanned>>,
         stack' \in [1..Len(stack) -> Screens],
         \A i \in DOMAIN stack :
            stack'[i] = stack[i] \/ (/\ stack[i] \in Creations /\ stack'[i] \in Creations
                                     /\ stack'[i].key = stack[i].key),
         IsFiniteSet(calls'), calls' \subseteq Calls, \A d \in calls' : CallOK(d),
         \A d \in calls', i \in DOMAIN stack : stack[i].key = d.key => stack[i].name = Caller[d.op],
         ProductAlone', IdleAlone', AddsOK'
  PROVE  IInv'
<1>1. Len(stack) \in Nat \ {0} /\ DOMAIN stack = 1..Len(stack)
  BY StackType DEF IInv
<1>2. stack' \in Seq(Screens) /\ DOMAIN stack' = DOMAIN stack /\ Len(stack') = Len(stack)
  <2>1. ASSUME NEW st \in [1..Len(stack) -> Screens]
        PROVE  st \in Seq(Screens) /\ DOMAIN st = DOMAIN stack /\ Len(st) = Len(stack)
    BY <1>1, SequenceOf
  <2> QED BY <2>1
<1>3. TypeOK'
  <2>1. stack' # <<>>
    BY <1>1, <1>2
  <2> QED BY <1>2, <2>1 DEF IInv, TypeOK
<1>4. \A i \in DOMAIN stack : /\ stack'[i].key = stack[i].key /\ stack'[i].name = stack[i].name
                              /\ ScreenOK(stack'[i])
  <2>1. \A s \in Creations : ScreenOK(s) /\ s.name = "CreateProduct"
    BY DEF Creations, ScreenOK, SaysAdded
  <2> QED BY <2>1 DEF IInv
<1>5. \A s : ScreenOK(s) => ScreenOK(s)'
  BY DEF ScreenOK, Current, Known
<1>6. \A i \in DOMAIN stack' : ScreenOK(stack[i])'
  <2>1. \A i \in DOMAIN stack' : ScreenOK(stack'[i])
    BY <1>2, <1>4
  <2> QED BY <2>1 DEF ScreenOK, Current, Known
<1>7. \A d \in calls' : CallOK(d)'
  BY DEF CallOK, Carries, Replied, Current, Known
<1>8. CopiesOK' /\ CatalogOK'
  BY DEF IInv, CopiesOK, CatalogOK, EntryOK, Current, Known
<1>9. KeysOK'
  BY <1>2, <1>4 DEF IInv, KeysOK
<1> QED BY <1>3, <1>6, <1>7, <1>8, <1>9 DEF IInv

\* An id that is free, or that of an idle attempt, is known to that attempt only.
LEMMA FreeId ==
  ASSUME IInv, On("CreateProduct"), ~Top.started,
         NEW id, id = IF Top.id # None THEN Top.id ELSE CHOOSE i \in NewIds : TRUE,
         Top.id # None \/ NewIds # {}
  PROVE  /\ id \in Ids /\ Unsent(id) /\ \A d \in calls : d.id # id
         /\ \A i \in DOMAIN stack : stack[i].name = "CreateProduct" /\ stack[i].id = id => i = Len(stack)
<1>1. /\ Top = stack[Len(stack)] /\ Len(stack) \in DOMAIN stack /\ Top.name = "CreateProduct"
      /\ Top.id \in Nullable(Ids)
  BY TopScreen DEF On, Creations
<1>2. CASE Top.id # None
  BY <1>1, <1>2 DEF IInv, IdleAlone, Nullable
<1>3. CASE Top.id = None
  <2>1. id \in NewIds
    BY <1>3
  <2>2. id \in Ids /\ applied[id] = 0 /\ \A d \in calls : d.id # id
    BY <2>1 DEF NewIds
  <2>3. \A i \in DOMAIN stack :
           stack[i].name \in {"CreateProduct", "ProductCreatedSuccess"} => stack[i].id # id
    BY <2>1 DEF NewIds, HoldsId
  <2>4. \A l, p : ~Adds(id, l, p)
    BY <2>2, <2>3 DEF Adds, AddsIn
  <2> QED BY <2>2, <2>3, <2>4 DEF Unsent
<1> QED BY <1>2, <1>3

LEMMA SubmitStep == ASSUME IInv, NEW price \in Nat, HandleSubmit(price) PROVE IInv'
<1>1. /\ On("CreateProduct") /\ ~Top.started /\ active \in Lists /\ (Top.id # None \/ NewIds # {})
      /\ Top \in Creations /\ Top = stack[Len(stack)] /\ Len(stack) \in DOMAIN stack
      /\ Top.name = "CreateProduct"
  BY TopScreen DEF HandleSubmit, Nullable, On
<1>2. PICK id : id = IF Top.id # None THEN Top.id ELSE CHOOSE i \in NewIds : TRUE
  OBVIOUS
<1>3. /\ id \in Ids /\ Unsent(id) /\ \A d \in calls : d.id # id
      /\ \A i \in DOMAIN stack : stack[i].name = "CreateProduct" /\ stack[i].id = id => i = Len(stack)
  BY <1>1, <1>2, FreeId
<1>4. PICK t : t = [Top EXCEPT !.started = TRUE, !.id = id]
  OBVIOUS
<1>5. PICK c : c = [Request("product", Top.key) EXCEPT !.code = Top.code, !.price = price, !.id = id]
  OBVIOUS
<1>6. /\ stack' = [stack EXCEPT ![Len(stack)] = t] /\ calls' = calls \cup {c}
      /\ UNCHANGED <<resolves, listing, rows, applied, recent, cache, active, rescanned>>
  BY <1>2, <1>4, <1>5 DEF HandleSubmit, Go, Send, Replace, server
<1>7. t \in Creations /\ t.key = Top.key /\ t.started /\ t.id = id /\ t.name = "CreateProduct"
  BY <1>1, <1>3, <1>4 DEF Creations, Nullable
<1>8. /\ c \in Calls /\ c.op = "product" /\ c.code \in Codes /\ c.list \in Lists /\ c.id = id
      /\ c.at = "sent" /\ c.key = Top.key
  BY <1>1, <1>3, <1>5 DEF Request, Calls, Creations, Nullable
<1>9. CallOK(c)
  BY <1>3, <1>8 DEF CallOK, Carries, Replied
<1>10. PICK n : n = Len(stack)
  OBVIOUS
<1>11. /\ stack \in [1..n -> Screens] /\ DOMAIN stack = 1..n /\ n \in DOMAIN stack
       /\ stack[n] = Top /\ t \in Screens
  BY <1>1, <1>7, <1>10, StackType DEF IInv, Screens
<1>12. /\ stack' \in [1..n -> Screens] /\ DOMAIN stack' = DOMAIN stack /\ stack'[n] = t
       /\ \A i \in DOMAIN stack : i # n => stack'[i] = stack[i]
  BY <1>6, <1>10, <1>11
<1>13. \A i \in DOMAIN stack : stack[i].key = Top.key => i = n
  BY <1>11 DEF IInv, KeysOK
<1>14. IsFiniteSet(calls') /\ calls' \subseteq Calls /\ \A d \in calls' : CallOK(d)
  BY <1>6, <1>8, <1>9, FS_AddElement DEF IInv, TypeOK
<1>15. \A d \in calls', i \in DOMAIN stack : stack[i].key = d.key => stack[i].name = Caller[d.op]
  BY <1>1, <1>6, <1>8, <1>11, <1>13 DEF IInv, KeysOK, Caller
<1>16. \A x, l, p : Adds(x, l, p)' <=> Adds(x, l, p)
  <2>1. \A x, l, p : (\E d \in calls' : d.op \in Adding /\ d.id = x /\ d.list = l /\ d.code = p)
                     <=> (\E d \in calls : d.op \in Adding /\ d.id = x /\ d.list = l /\ d.code = p)
    BY <1>6, <1>8 DEF Adding
  <2>2. \A i \in DOMAIN stack : /\ stack'[i].name = stack[i].name
                                /\ stack[i].name = "ProductCreatedSuccess" => stack'[i] = stack[i]
    BY <1>1, <1>7, <1>11, <1>12
  <2>3. \A x, l, p : (\E i \in DOMAIN stack' : /\ stack'[i].name = "ProductCreatedSuccess" /\ stack'[i].id = x
                                               /\ stack'[i].list = l /\ stack'[i].code = p)
                     <=> (\E i \in DOMAIN stack : /\ stack[i].name = "ProductCreatedSuccess" /\ stack[i].id = x
                                                  /\ stack[i].list = l /\ stack[i].code = p)
    BY <1>12, <2>2
  <2> QED BY <2>1, <2>3 DEF Adds, AddsIn
<1>17. \A x : Unsent(x) => Unsent(x)'
  BY <1>6, <1>16 DEF Unsent
<1>18. ProductAlone'
  <2> SUFFICES ASSUME NEW d \in calls', d.op = "product"
               PROVE  /\ Unsent(d.id)'
                      /\ \A e \in calls' : e.id = d.id => e = d
                      /\ \A i \in DOMAIN stack' : stack'[i].name = "CreateProduct" =>
                           /\ stack'[i].id = d.id => stack'[i].key = d.key
                           /\ stack'[i].key = d.key => stack'[i].id = d.id /\ stack'[i].started
    BY DEF ProductAlone
  <2>1. CASE d = c
    <3>1. ASSUME NEW i \in DOMAIN stack', stack'[i].name = "CreateProduct"
          PROVE  /\ stack'[i].id = d.id => stack'[i].key = d.key
                 /\ stack'[i].key = d.key => stack'[i].id = d.id /\ stack'[i].started
      <4>1. CASE i = n
        BY <1>7, <1>8, <1>12, <2>1, <4>1
      <4>2. CASE i # n
        BY <1>3, <1>8, <1>10, <1>12, <1>13, <2>1, <3>1, <4>2
      <4> QED BY <4>1, <4>2
    <3> QED BY <1>3, <1>6, <1>8, <1>17, <2>1, <3>1
  <2>2. CASE d # c
    <3>1. /\ d \in calls /\ d.id # id /\ Unsent(d.id)
          /\ \A e \in calls : e.id = d.id => e = d
          /\ \A i \in DOMAIN stack : stack[i].name = "CreateProduct" =>
               /\ stack[i].id = d.id => stack[i].key = d.key
               /\ stack[i].key = d.key => stack[i].id = d.id /\ stack[i].started
      BY <1>3, <1>6, <2>2 DEF IInv, ProductAlone
    <3>2. ASSUME NEW i \in DOMAIN stack', stack'[i].name = "CreateProduct"
          PROVE  /\ stack'[i].id = d.id => stack'[i].key = d.key
                 /\ stack'[i].key = d.key => stack'[i].id = d.id /\ stack'[i].started
      <4>1. CASE i = n
        BY <1>1, <1>7, <1>11, <1>12, <3>1, <4>1
      <4>2. CASE i # n
        BY <1>12, <3>1, <3>2, <4>2
      <4> QED BY <4>1, <4>2
    <3> QED BY <1>6, <1>8, <1>17, <3>1, <3>2
  <2> QED BY <2>1, <2>2
<1>19. IdleAlone'
  <2> SUFFICES ASSUME NEW i \in DOMAIN stack', stack'[i].name = "CreateProduct",
                      ~stack'[i].started, stack'[i].id # None
               PROVE  /\ Unsent(stack[i].id)'
                      /\ \A d \in calls' : d.id # stack'[i].id
                      /\ \A j \in DOMAIN stack' :
                           stack'[j].name = "CreateProduct" /\ stack'[j].id = stack'[i].id => j = i
    BY DEF IdleAlone
  <2>1. i \in DOMAIN stack /\ i # n /\ stack'[i] = stack[i]
    BY <1>7, <1>12
  <2>2. PICK x : x = stack[i].id
    OBVIOUS
  <2>3. /\ Unsent(x) /\ \A d \in calls : d.id # x
        /\ \A j \in DOMAIN stack : stack[j].name = "CreateProduct" /\ stack[j].id = x => j = i
    BY <2>1, <2>2 DEF IInv, IdleAlone
  <2>4. x # id
    BY <1>3, <1>10, <2>1, <2>2
  <2>5. Unsent(x)' /\ stack'[i].id = x
    BY <1>17, <2>1, <2>2, <2>3
  <2>6. \A j \in DOMAIN stack' : stack'[j].name = "CreateProduct" /\ stack'[j].id = x => j = i
    BY <1>7, <1>12, <2>3, <2>4
  <2> QED BY <1>6, <1>8, <2>3, <2>4, <2>5, <2>6
<1>20. AddsOK'
  BY <1>6, <1>16 DEF IInv, AddsOK
<1> QED BY <1>1, <1>6, <1>7, <1>10, <1>11, <1>12, <1>14, <1>15, <1>18, <1>19, <1>20, AttemptStep

\* The product is there: its first add goes out under the attempt's id.
LEMMA ProductCreatedStep ==
  ASSUME IInv, UNCHANGED server, NEW c \in calls, c.op = "product", Go(stack),
         calls' = (calls \ {c}) \cup {[c EXCEPT !.op = "first", !.at = "sent", !.reply = None]}
  PROVE  IInv'
<1>1. UNCHANGED <<resolves, listing, rows, applied, recent, cache, active, rescanned, stack>>
  BY DEF Go, server
<1>2. PICK f : f = [c EXCEPT !.op = "first", !.at = "sent", !.reply = None]
  OBVIOUS
<1>3. /\ c \in Calls /\ Carries(c) /\ c.id \in Ids /\ Unsent(c.id)
      /\ \A d \in calls : d.id = c.id => d = c
  BY DEF IInv, TypeOK, CallOK, Carries, ProductAlone
<1>4. /\ f \in Calls /\ f.op = "first" /\ f.at = "sent" /\ f.key = c.key /\ f.code = c.code
      /\ f.list = c.list /\ f.id = c.id
  BY <1>2, <1>3 DEF Calls, Nullable
<1>5. CallOK(f)
  BY <1>3, <1>4 DEF CallOK, Carries, Replied
<1>6. calls' = (calls \ {c}) \cup {f}
  BY <1>2
<1>7. IsFiniteSet(calls') /\ calls' \subseteq Calls /\ \A d \in calls' : CallOK(d)
  <2>1. IsFiniteSet(calls \ {c})
    BY FS_RemoveElement DEF IInv
  <2>2. IsFiniteSet(calls')
    BY <1>6, <2>1, FS_AddElement
  <2>3. calls' \subseteq Calls
    BY <1>4, <1>6 DEF IInv, TypeOK
  <2>4. \A d \in calls' : CallOK(d)
    BY <1>5, <1>6 DEF IInv
  <2> QED BY <2>2, <2>3, <2>4
<1>8. \A d \in calls', i \in DOMAIN stack : stack[i].key = d.key => stack[i].name = Caller[d.op]
  BY <1>4, <1>6 DEF IInv, KeysOK, Caller
<1>9. \A id, l, p : id # c.id => (Adds(id, l, p)' <=> Adds(id, l, p))
  <2>1. ASSUME NEW id, NEW l, NEW p, id # c.id
        PROVE  (\E d \in calls' : d.op \in Adding /\ d.id = id /\ d.list = l /\ d.code = p)
               <=> (\E d \in calls : d.op \in Adding /\ d.id = id /\ d.list = l /\ d.code = p)
    BY <1>4, <1>6, <2>1
  <2> QED BY <1>1, <2>1 DEF Adds, AddsIn
<1>10. \A l \in Lists, p \in Codes : Adds(c.id, l, p)' => l = c.list /\ p = c.code
  <2>1. ASSUME NEW l \in Lists, NEW p \in Codes, Adds(c.id, l, p)' PROVE l = c.list /\ p = c.code
    <3>1. CASE \E d \in calls' : d.op \in Adding /\ d.id = c.id /\ d.list = l /\ d.code = p
      BY <1>3, <1>4, <1>6, <3>1
    <3>2. CASE \E i \in DOMAIN stack : /\ stack[i].name = "ProductCreatedSuccess" /\ stack[i].id = c.id
                                       /\ stack[i].list = l /\ stack[i].code = p
      BY <1>3, <3>2 DEF Unsent, Adds, AddsIn
    <3> QED BY <1>1, <2>1, <3>1, <3>2 DEF Adds, AddsIn
  <2> QED BY <2>1
<1>11. \A id : id # c.id /\ Unsent(id) => Unsent(id)'
  BY <1>1, <1>9 DEF Unsent
<1>12. ProductAlone'
  <2> SUFFICES ASSUME NEW d \in calls', d.op = "product"
               PROVE  /\ Unsent(d.id)'
                      /\ \A e \in calls' : e.id = d.id => e = d
                      /\ \A i \in DOMAIN stack : stack[i].name = "CreateProduct" =>
                           /\ stack[i].id = d.id => stack[i].key = d.key
                           /\ stack[i].key = d.key => stack[i].id = d.id /\ stack[i].started
    BY <1>1 DEF ProductAlone
  <2>1. d \in calls /\ d # c /\ d.id # c.id
    BY <1>3, <1>4, <1>6
  <2>2. /\ Unsent(d.id) /\ \A e \in calls : e.id = d.id => e = d
        /\ \A i \in DOMAIN stack : stack[i].name = "CreateProduct" =>
             /\ stack[i].id = d.id => stack[i].key = d.key
             /\ stack[i].key = d.key => stack[i].id = d.id /\ stack[i].started
    BY <2>1 DEF IInv, ProductAlone
  <2> QED BY <1>4, <1>6, <1>11, <2>1, <2>2
<1>13. IdleAlone'
  <2> SUFFICES ASSUME NEW i \in DOMAIN stack, stack[i].name = "CreateProduct",
                      ~stack[i].started, stack[i].id # None
               PROVE  /\ Unsent(stack[i].id)'
                      /\ \A d \in calls' : d.id # stack[i].id
                      /\ \A j \in DOMAIN stack :
                           stack[j].name = "CreateProduct" /\ stack[j].id = stack[i].id => j = i
    BY <1>1 DEF IdleAlone
  <2>1. PICK x : x = stack[i].id
    OBVIOUS
  <2>2. /\ Unsent(x) /\ \A d \in calls : d.id # x
        /\ \A j \in DOMAIN stack : stack[j].name = "CreateProduct" /\ stack[j].id = x => j = i
    BY <2>1 DEF IInv, IdleAlone
  <2>3. Unsent(x)' /\ stack'[i].id = x
    BY <1>1, <1>11, <2>1, <2>2
  <2> QED BY <1>1, <1>4, <1>6, <2>1, <2>2, <2>3
<1>14. AddsOK'
  <2> SUFFICES ASSUME NEW id \in Ids, NEW l \in Lists, NEW p \in Codes
               PROVE  /\ Adds(id, l, p)' =>
                           /\ \A m \in Lists, q \in Codes : Adds(id, m, q)' => m = l /\ q = p
                           /\ applied[id] # 0 => rows[l][p] # None
                      /\ rows[l][p] = id =>
                           /\ applied[id] = 1
                           /\ \A m \in Lists, q \in Codes : Adds(id, m, q)' => m = l /\ q = p
    BY <1>1 DEF AddsOK
  <2>1. /\ Adds(id, l, p) =>
             /\ \A m \in Lists, q \in Codes : Adds(id, m, q) => m = l /\ q = p
             /\ applied[id] # 0 => rows[l][p] # None
        /\ rows[l][p] = id =>
             /\ applied[id] = 1
             /\ \A m \in Lists, q \in Codes : Adds(id, m, q) => m = l /\ q = p
    BY DEF IInv, AddsOK
  <2>2. CASE id # c.id
    BY <1>9, <2>1, <2>2
  <2>3. CASE id = c.id
    <3>1. applied[id] = 0
      BY <1>3, <2>3 DEF Unsent
    <3> QED BY <1>10, <2>1, <2>3, <3>1
  <2> QED BY <2>2, <2>3
<1> QED BY <1>1, <1>7, <1>8, <1>12, <1>13, <1>14, StackType, AttemptStep DEF IInv

\* The product is not there: the screen, if it is still there, takes the attempt again.
LEMMA ProductRefusedStep ==
  ASSUME IInv, UNCHANGED server, NEW c \in calls, c.op = "product",
         Go(Update(c.key, LAMBDA s : [s EXCEPT !.started = FALSE])), calls' = calls \ {c}
  PROVE  IInv'
<1>1. /\ UNCHANGED <<resolves, listing, rows, applied, recent, cache, active, rescanned>>
      /\ stack' = [i \in DOMAIN stack |->
                     IF stack[i].key = c.key THEN [stack[i] EXCEPT !.started = FALSE] ELSE stack[i]]
  BY DEF Go, server, Update
<1>2. /\ Len(stack) \in Nat \ {0} /\ DOMAIN stack = 1..Len(stack)
      /\ \A i \in DOMAIN stack : stack[i] \in Screens
  BY StackType DEF IInv
<1>3. ASSUME NEW i \in DOMAIN stack
      PROVE  /\ stack[i].key # c.key => stack'[i] = stack[i]
             /\ stack[i].key = c.key =>
                  /\ stack[i] \in Creations /\ stack'[i] \in Creations
                  /\ stack'[i].id = stack[i].id /\ stack'[i].key = stack[i].key
                  /\ stack[i].name = "CreateProduct" /\ stack'[i].name = "CreateProduct"
  <2>1. CASE stack[i].key # c.key
    BY <1>1, <2>1
  <2>2. CASE stack[i].key = c.key
    <3>1. stack[i] \in Creations
      BY <2>2, CallerTop
    <3>2. PICK s \in Creations : s = stack[i]
      BY <3>1
    <3>3. PICK t : t = [s EXCEPT !.started = FALSE]
      OBVIOUS
    <3>4. /\ t \in Creations /\ t.id = s.id /\ t.key = s.key
          /\ s.name = "CreateProduct" /\ t.name = "CreateProduct"
      BY <3>3 DEF Creations
    <3>5. stack'[i] = t
      BY <1>1, <2>2, <3>2, <3>3
    <3> QED BY <2>2, <3>2, <3>4, <3>5
  <2> QED BY <2>1, <2>2
<1>4. /\ DOMAIN stack' = DOMAIN stack
      /\ \A i \in DOMAIN stack : /\ stack'[i] \in Screens /\ stack'[i].key = stack[i].key
                                 /\ stack'[i].name = stack[i].name
                                 /\ stack'[i].name = "CreateProduct" => stack'[i].id = stack[i].id
                                 /\ stack[i].name = "ProductCreatedSuccess" => stack'[i] = stack[i]
  BY <1>1, <1>2, <1>3 DEF Screens
<1>5. stack' \in [1..Len(stack) -> Screens]
  BY <1>1, <1>2, <1>4
<1>6. /\ c.id \in Ids /\ Unsent(c.id) /\ \A d \in calls : d.id = c.id => d = c
      /\ \A i \in DOMAIN stack : stack[i].name = "CreateProduct" =>
           /\ stack[i].id = c.id => stack[i].key = c.key
           /\ stack[i].key = c.key => stack[i].id = c.id /\ stack[i].started
  BY DEF IInv, CallOK, Carries, ProductAlone
<1>7. IsFiniteSet(calls') /\ calls' \subseteq Calls /\ \A d \in calls' : CallOK(d)
  BY FS_RemoveElement DEF IInv, TypeOK
<1>8. \A id, l, p : Adds(id, l, p)' <=> Adds(id, l, p)
  <2>1. \A id, l, p : (\E d \in calls' : d.op \in Adding /\ d.id = id /\ d.list = l /\ d.code = p)
                      <=> (\E d \in calls : d.op \in Adding /\ d.id = id /\ d.list = l /\ d.code = p)
    BY DEF Adding
  <2>2. \A id, l, p : (\E i \in DOMAIN stack' : /\ stack'[i].name = "ProductCreatedSuccess"
                                                /\ stack'[i].id = id /\ stack'[i].list = l /\ stack'[i].code = p)
                      <=> (\E i \in DOMAIN stack : /\ stack[i].name = "ProductCreatedSuccess"
                                                   /\ stack[i].id = id /\ stack[i].list = l /\ stack[i].code = p)
    BY <1>4
  <2> QED BY <2>1, <2>2 DEF Adds, AddsIn
<1>9. \A id : Unsent(id) => Unsent(id)'
  BY <1>1, <1>8 DEF Unsent
<1>10. ProductAlone'
  <2> SUFFICES ASSUME NEW d \in calls', d.op = "product"
               PROVE  /\ Unsent(d.id)'
                      /\ \A e \in calls' : e.id = d.id => e = d
                      /\ \A i \in DOMAIN stack' : stack'[i].name = "CreateProduct" =>
                           /\ stack'[i].id = d.id => stack'[i].key = d.key
                           /\ stack'[i].key = d.key => stack'[i].id = d.id /\ stack'[i].started
    BY DEF ProductAlone
  <2>1. /\ d \in calls /\ d.id # c.id /\ Unsent(d.id) /\ \A e \in calls : e.id = d.id => e = d
        /\ \A i \in DOMAIN stack : stack[i].name = "CreateProduct" =>
             /\ stack[i].id = d.id => stack[i].key = d.key
             /\ stack[i].key = d.key => stack[i].id = d.id /\ stack[i].started
    BY <1>6 DEF IInv, ProductAlone
  <2>2. ASSUME NEW i \in DOMAIN stack', stack'[i].name = "CreateProduct"
        PROVE  /\ stack'[i].id = d.id => stack'[i].key = d.key
               /\ stack'[i].key = d.key => stack'[i].id = d.id /\ stack'[i].started
    <3>1. i \in DOMAIN stack /\ stack[i].name = "CreateProduct"
      BY <1>4, <2>2
    <3>2. CASE stack[i].key = c.key
      BY <1>3, <1>6, <2>1, <3>1, <3>2
    <3>3. CASE stack[i].key # c.key
      BY <1>3, <2>1, <3>1, <3>3
    <3> QED BY <3>2, <3>3
  <2> QED BY <1>9, <2>1, <2>2
<1>11. IdleAlone'
  <2> SUFFICES ASSUME NEW i \in DOMAIN stack', stack'[i].name = "CreateProduct",
                      ~stack'[i].started, stack'[i].id # None
               PROVE  /\ Unsent(stack[i].id)'
                      /\ \A d \in calls' : d.id # stack'[i].id
                      /\ \A j \in DOMAIN stack' :
                           stack'[j].name = "CreateProduct" /\ stack'[j].id = stack'[i].id => j = i
    BY DEF IdleAlone
  <2>1. i \in DOMAIN stack /\ stack[i].name = "CreateProduct" /\ stack'[i].id = stack[i].id
    BY <1>4
  <2>2. PICK x : x = stack[i].id
    OBVIOUS
  <2>3. /\ Unsent(x) /\ \A d \in calls' : d.id # x
        /\ \A j \in DOMAIN stack : stack[j].name = "CreateProduct" /\ stack[j].id = x => j = i
    <3>1. CASE stack[i].key = c.key
      <4>1. x = c.id
        BY <1>6, <2>1, <2>2, <3>1
      <4>2. \A j \in DOMAIN stack : stack[j].name = "CreateProduct" /\ stack[j].id = x => j = i
        BY <1>6, <2>1, <3>1, <4>1 DEF IInv, KeysOK
      <4> QED BY <1>6, <4>1, <4>2
    <3>2. CASE stack[i].key # c.key
      <4>1. stack[i].name = "CreateProduct" /\ ~stack[i].started /\ stack[i].id # None
        BY <1>3, <2>1, <3>2
      <4> QED BY <2>1, <2>2, <4>1 DEF IInv, IdleAlone
    <3> QED BY <3>1, <3>2
  <2>4. \A j \in DOMAIN stack' : stack'[j].name = "CreateProduct" /\ stack'[j].id = x => j = i
    BY <1>4, <2>3
  <2>5. Unsent(x)'
    BY <1>9, <2>3
  <2> QED BY <2>1, <2>2, <2>3, <2>4, <2>5
<1>12. AddsOK'
  BY <1>1, <1>8 DEF IInv, AddsOK
<1>13. \A d \in calls', i \in DOMAIN stack : stack[i].key = d.key => stack[i].name = Caller[d.op]
  BY DEF IInv, KeysOK
<1>14. \A i \in DOMAIN stack :
          stack'[i] = stack[i] \/ (/\ stack[i] \in Creations /\ stack'[i] \in Creations
                                   /\ stack'[i].key = stack[i].key)
  BY <1>3
<1> HIDE DEF IInv
<1> QED BY <1>1, <1>5, <1>7, <1>10, <1>11, <1>12, <1>13, <1>14, AttemptStep

LEMMA ProductAnsweredStep ==
  ASSUME IInv, NEW c \in calls, ProductAnswered(c), UNCHANGED server
  PROVE  IInv'
BY ProductCreatedStep, ProductRefusedStep DEF ProductAnswered

-----------------------------------------------------------------------------
(* The other shoppers                                                         *)

LEMMA OthersStep ==
  ASSUME IInv, UNCHANGED <<resolves, applied, phone, calls>>, TablesOK, Grows, CatalogOK', AddsOK'
  PROVE  IInv'
<1>1. UNCHANGED <<applied, stack, recent, cache, active, rescanned, calls>>
  BY DEF phone
<1>2. TypeOK' /\ IsFiniteSet(calls)'
  BY <1>1 DEF IInv, TypeOK, TablesOK
<1>3. /\ \A i \in DOMAIN stack' : ScreenOK(stack[i])'
      /\ \A c \in calls' : CallOK(c)'
      /\ CopiesOK'
  BY <1>1, <1>2, StaysOK
<1>4. KeysOK'
  BY <1>1 DEF IInv, KeysOK
<1>5. \A id : Unsent(id) => Unsent(id)'
  BY <1>1 DEF Unsent, Adds, AddsIn
<1>6. ProductAlone'
  <2> SUFFICES ASSUME NEW c \in calls, c.op = "product"
               PROVE  /\ Unsent(c.id)'
                      /\ \A d \in calls : d.id = c.id => d = c
                      /\ \A i \in DOMAIN stack : stack[i].name = "CreateProduct" =>
                           /\ stack[i].id = c.id => stack[i].key = c.key
                           /\ stack[i].key = c.key => stack[i].id = c.id /\ stack[i].started
    BY <1>1 DEF ProductAlone
  <2> QED BY <1>5 DEF IInv, ProductAlone
<1>7. IdleAlone'
  <2> SUFFICES ASSUME NEW i \in DOMAIN stack, stack[i].name = "CreateProduct",
                      ~stack[i].started, stack[i].id # None
               PROVE  /\ Unsent(stack[i].id)'
                      /\ \A c \in calls : c.id # stack[i].id
                      /\ \A j \in DOMAIN stack :
                           stack[j].name = "CreateProduct" /\ stack[j].id = stack[i].id => j = i
    BY <1>1 DEF IdleAlone
  <2>1. PICK x : x = stack[i].id
    OBVIOUS
  <2>2. /\ Unsent(x) /\ \A c \in calls : c.id # x
        /\ \A j \in DOMAIN stack : stack[j].name = "CreateProduct" /\ stack[j].id = x => j = i
    BY <2>1 DEF IInv, IdleAlone
  <2>3. Unsent(x)' /\ stack'[i].id = x
    BY <1>1, <1>5, <2>1, <2>2
  <2> QED BY <1>1, <2>1, <2>2, <2>3
<1> QED BY <1>1, <1>2, <1>3, <1>4, <1>6, <1>7 DEF IInv

LEMMA RepriceStep ==
  ASSUME IInv, NEW p \in Codes, NEW price \in Nat, Reprice(p, price)
  PROVE  IInv'
<1>1. /\ UNCHANGED <<resolves, rows, applied, phone, calls>> /\ listing[p].version > 0
      /\ listing[p] \in [price: Nat, version: Nat]
  BY DEF Reprice, IInv, TypeOK
<1>2. PICK v \in Nat \ {0} : v = listing[p].version + 1 /\ v > listing[p].version
  BY <1>1
<1>3. listing' = [listing EXCEPT ![p] = [price |-> price, version |-> v]]
  BY <1>2 DEF Reprice
<1>4. /\ listing' \in [Codes -> [price: Nat, version: Nat]]
      /\ \A q \in Codes : listing'[q] = listing[q] \/ listing'[q].version > listing[q].version
      /\ \A q \in Codes : listing'[q].version # 0 => q = p \/ listing[q].version # 0
  BY <1>2, <1>3, ListingGrows
<1>5. TablesOK /\ Grows
  BY <1>1, <1>4 DEF TablesOK, Grows, IInv, TypeOK
<1>6. CatalogOK'
  BY <1>1, <1>4 DEF IInv, CatalogOK, Known
<1>7. AddsOK'
  BY <1>1 DEF IInv, AddsOK, Adds, phone
<1> QED BY <1>1, <1>5, <1>6, <1>7, OthersStep

LEMMA SomeoneAddsStep ==
  ASSUME IInv, NEW l \in Lists, NEW p \in Codes, SomeoneAdds(l, p)
  PROVE  IInv'
<1>1. UNCHANGED <<resolves, listing, applied, phone, calls>> /\ rows[l][p] = None
  BY DEF SomeoneAdds
<1>2. /\ rows' \in [Lists -> [Codes -> Ids \cup {Anon, None}]] /\ rows'[l][p] = Anon
      /\ \A m \in Lists, q \in Codes : m # l \/ q # p => rows'[m][q] = rows[m][q]
  BY DEF SomeoneAdds, IInv, TypeOK
<1>3. TablesOK /\ Grows
  BY <1>1, <1>2 DEF TablesOK, Grows, IInv, TypeOK
<1>4. CatalogOK'
  BY <1>1 DEF IInv, CatalogOK, Known
<1>5. AddsOK'
  <2>1. \A id, m, q : Adds(id, m, q)' <=> Adds(id, m, q)
    BY <1>1 DEF Adds, phone
  <2>2. /\ \A m \in Lists, q \in Codes : rows[m][q] # None => rows'[m][q] # None
        /\ \A id \in Ids, m \in Lists, q \in Codes : rows'[m][q] = id => rows[m][q] = id
    BY <1>1, <1>2, NamesAssumption
  <2> QED BY <1>1, <2>1, <2>2 DEF IInv, AddsOK
<1> QED BY <1>1, <1>3, <1>4, <1>5, OthersStep

-----------------------------------------------------------------------------
(* The theorems                                                               *)

LEMMA Starting == Init => IInv
<1> SUFFICES ASSUME Init PROVE IInv
  OBVIOUS
<1>1. PICK s \in Starts : resolves = s.resolves /\ listing = s.listing /\ active = s.active
  BY DEF Init
<1>2. /\ stack = <<Scanner(1, None)>> /\ calls = {} /\ rescanned = FALSE
      /\ rows = [l \in Lists |-> [c \in Codes |-> None]] /\ applied = [id \in Ids |-> 0]
      /\ recent = [l \in Nullable(Lists) |-> <<>>]
      /\ cache = [barcode |-> [c \in Codes |-> None], held |-> [c \in Codes |-> None]]
  BY DEF Init
<1>3. PICK sc : sc = Scanner(1, None)
  OBVIOUS
<1>4. /\ sc \in Scanners /\ sc \in Screens /\ sc.name = "Scan" /\ ScreenOK(sc)
  <2>1. sc \in Scanners /\ sc.suppressed = None
    BY <1>3 DEF Scanner, Scanners, Nullable
  <2> QED BY <2>1, ScannerOK
<1>5. stack = <<sc>> /\ stack \in Seq(Screens) /\ stack # <<>> /\ DOMAIN stack = {1} /\ stack[1] = sc
  <2>1. stack = <<sc>>
    BY <1>2, <1>3
  <2>2. stack \in Seq(Screens) /\ Len(stack) = 1 /\ stack[1] = sc
    BY <1>4, <2>1
  <2>3. DOMAIN stack = 1..1
    BY <2>2, LenProperties
  <2>4. stack # <<>>
    BY <2>1
  <2> QED BY <2>1, <2>2, <2>3, <2>4
<1>6. TypeOK
  <2>1. /\ resolves \in [Codes -> Nullable(Codes)] /\ listing \in [Codes -> [price: Nat, version: Nat]]
        /\ active \in Nullable(Lists)
    BY <1>1, StartsAssumption
  <2>2. rows \in [Lists -> [Codes -> Ids \cup {Anon, None}]] /\ applied \in [Ids -> Nat]
    BY <1>2
  <2>3. recent \in [Nullable(Lists) -> Seq(Recent)]
    <3>1. <<>> \in Seq(Recent)
      BY EmptySeq
    <3> QED BY <1>2, <3>1
  <2>4. cache \in [barcode: [Codes -> Nullable(Codes)], held: [Codes -> Nullable(Held)]]
    BY <1>2 DEF Nullable
  <2> QED BY <1>2, <1>5, <2>1, <2>2, <2>3, <2>4 DEF TypeOK
<1>7. IsFiniteSet(calls)
  BY <1>2, FS_EmptySet
<1>8. CatalogOK
  <2>1. \A c \in Codes : /\ s.resolves[c] # None => s.resolves[s.resolves[c]] # None
                         /\ s.listing[c].version > 0 => s.resolves[c] # None
                         /\ s.resolves[c] \in Nullable(Codes) /\ s.listing[c].version \in Nat
    BY StartsAssumption
  <2> QED BY <1>1, <2>1 DEF CatalogOK, Known, Nullable
<1>9. CopiesOK
  <2>1. \A l \in Nullable(Lists) : DOMAIN recent[l] = {}
    BY <1>2
  <2>2. \A c \in Codes : cache.barcode[c] = None /\ cache.held[c] = None
    BY <1>2
  <2> QED BY <2>1, <2>2 DEF CopiesOK, Current
<1>10. KeysOK /\ ProductAlone /\ IdleAlone
  BY <1>2, <1>4, <1>5 DEF KeysOK, ProductAlone, IdleAlone
<1>11. AddsOK
  <2>1. \A id, l, p : ~Adds(id, l, p)
    BY <1>2, <1>4, <1>5 DEF Adds, AddsIn
  <2>2. \A id \in Ids, l \in Lists, p \in Codes : rows[l][p] # id
    BY <1>2, NamesAssumption
  <2> QED BY <2>1, <2>2 DEF AddsOK
<1> QED BY <1>2, <1>4, <1>5, <1>6, <1>7, <1>8, <1>9, <1>10, <1>11 DEF IInv

LEMMA Stutters == ASSUME IInv, UNCHANGED vars PROVE IInv'
<1>1. UNCHANGED <<resolves, applied, phone, calls, rows, listing>>
  BY DEF vars, server
<1>2. TablesOK /\ Grows
  BY <1>1 DEF TablesOK, Grows, IInv, TypeOK
<1>3. CatalogOK'
  BY <1>1 DEF IInv, CatalogOK, Known
<1>4. AddsOK'
  BY <1>1 DEF IInv, AddsOK, Adds, phone
<1> QED BY <1>1, <1>2, <1>3, <1>4, OthersStep

LEMMA Inductive == IInv /\ [Next]_vars => IInv'
<1> SUFFICES ASSUME IInv, [Next]_vars PROVE IInv'
  OBVIOUS
<1>1. CASE Serve
  BY <1>1, ServeStep
<1>2. CASE Fault
  BY <1>2, FaultStep
<1>3. CASE Answered
  <2>1. PICK c \in calls :
          /\ c.at = "answered"
          /\ \/ ScanAnswered(c) \/ AttachAnswered(c) \/ ProductAnswered(c) \/ FirstAddAnswered(c)
             \/ RetryAnswered(c) \/ PriceAnswered(c) \/ AddAnswered(c)
    BY <1>3 DEF Answered
  <2>2. UNCHANGED server
    BY <1>3 DEF Answered
  <2> QED BY <2>1, <2>2, ScanAnsweredStep, AttachAnsweredStep, ProductAnsweredStep, FirstAddAnsweredStep,
             RetryAnsweredStep, PriceAnsweredStep, AddAnsweredStep
<1>4. CASE Render \/ GoBack
  BY <1>4, RenderStep, GoBackStep
<1>5. CASE ScanPresses
  BY <1>5, BarcodeScannedStep, SearchStep, HistoryStep, SheetStep DEF ScanPresses
<1>6. CASE CreationPresses
  <2>1. \A price \in Prices : price \in Nat
    BY BoundsAssumption
  <2> QED BY <1>6, <2>1, SelectStep, SubmitStep, ChoiceStep, RetryStep DEF CreationPresses
<1>7. CASE ResultPresses
  BY <1>7, PressedStep, StepStep, ChoiceStep
     DEF ResultPresses, VerifyStep, MissingPriceStep, UpdateStep, QuantityStep
<1>8. CASE Others
  <2>1. \A price \in Prices : price \in Nat
    BY BoundsAssumption
  <2> QED BY <1>8, <2>1, RepriceStep, SomeoneAddsStep, ActiveStep DEF Others
<1>9. CASE UNCHANGED vars
  BY <1>9, Stutters
<1> QED BY <1>1, <1>2, <1>3, <1>4, <1>5, <1>6, <1>7, <1>8, <1>9 DEF Next

LEMMA Invariance == Spec => []IInv
BY Starting, Inductive, PTL DEF Spec

\* Every variable keeps its shape, whatever the screens, requests and answers do.
THEOREM TypeCorrect == Spec => []TypeOK
<1>1. IInv => TypeOK
  BY DEF IInv
<1> QED BY <1>1, Invariance, PTL

\* However often the add of a created product is retried, and wherever the shopper goes
\* meanwhile, the request that created the row of a list has changed that list once: the id
\* of CreateProductScreen's attempt goes out for one product and one list.
THEOREM AddedOnce == Spec => []CreatedOnce
<1>1. IInv => CreatedOnce
  BY DEF IInv, AddsOK, CreatedOnce
<1> QED BY <1>1, Invariance, PTL

\* ProductCreatedSuccess says "Agregado a tu compra" only of a product that is on the list.
THEOREM SaysTheTruth == Spec => []SaidAdded
<1>1. IInv => SaidAdded
  BY DEF IInv, ScreenOK, SaidAdded
<1> QED BY <1>1, Invariance, PTL

\* The scanner that comes back after a creation does not look up the created code again until
\* the shopper resets it or another code is read.
THEOREM LooksUpOnce == Spec => []NoRescanOfCreated
<1>1. IInv => NoRescanOfCreated
  BY DEF IInv, NoRescanOfCreated
<1> QED BY <1>1, Invariance, PTL

\* A save that the server accepts replaces the price the shopper saw when pressing the button:
\* the version it carries belongs to that price, also after a conflict was shown.
THEOREM SavesOverShown == Spec => SavedOverShown
<1> DEFINE A == \A c \in calls : c.op = "save" /\ c \notin calls' /\ listing' # listing
                     => listing[c.held.prod].price = c.shown
<1>1. IInv /\ [Next]_vars => A
  <2> SUFFICES ASSUME IInv, [Next]_vars, NEW c \in calls, c.op = "save", c \notin calls',
                      listing' # listing
               PROVE  listing[c.held.prod].price = c.shown
    OBVIOUS
  <2>1. Serve \/ Others
    BY DEF Next, vars, server, Fault, Answered, Render, Press, GoBack, ScanPresses, BarcodeScanned,
           ManualSearch, OpenSheet, RecentSearch, HistoryEntryPress, CloseSheet, ResetScanner,
           CreationPresses, SelectCandidate, HandleSubmit, NoneMatches, Skip, BackToNotFound, RetryAdd,
           HandleNextScan, ResultPresses, VerifyStep, MissingPriceStep, UpdateStep, QuantityStep,
           ConfirmPress, UpdatePress, ToStep, RegisterMissingPrice, CancelPress, SavePrice, AddItem,
           Ask, SuccessTimeout
  <2>2. Serve
    BY <2>1 DEF Others, Reprice, SomeoneAdds, ActiveChanges, server
  <2>3. PICK d \in calls : \/ ServeScan(d) \/ ServeAttach(d) \/ ServeProduct(d) \/ ServeAdd(d)
                           \/ ServeConfirm(d) \/ ServeRegister(d) \/ ServeSave(d)
    BY <2>2 DEF Serve
  <2>4. calls \ {d} \subseteq calls'
    BY <2>3 DEF ServeScan, ServeAttach, ServeProduct, ServeAdd, ServeConfirm, ServeRegister, ServeSave,
                Refuse, Answer
  <2>5. d = c
    BY <2>4
  <2>6. ServeSave(c)
    BY <2>3, <2>5 DEF ServeScan, ServeAttach, ServeProduct, ServeAdd, ServeConfirm, ServeRegister
  <2>7. listing[c.held.prod].version = c.held.version
    BY <2>6 DEF ServeSave
  <2>8. c.shown = c.held.price /\ Current(c.held) /\ c.held # None
    <3>1. CallOK(c) /\ c.held \in Held
      BY HeldIsListed DEF IInv
    <3> QED BY <3>1, NamesAssumption DEF CallOK, Carries
  <2> QED BY <2>7, <2>8 DEF Current
<1>2. IInv /\ [Next]_vars => [A]_vars
  BY <1>1
<1> HIDE DEF A
<1>3. Spec => [][A]_vars
  BY <1>2, Invariance, PTL DEF Spec
<1> QED BY <1>3 DEF SavedOverShown, A
=============================================================================
