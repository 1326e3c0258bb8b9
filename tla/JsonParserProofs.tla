--------------------------- MODULE JsonParserProofs ---------------------------
(***************************************************************************)
(* The parser, for every text, nesting limit and bound, and whatever       *)
(* allocation fails.  Its memory: everything allocated has exactly one     *)
(* owner at every step, and a parse that fails leaves nothing behind.  Its *)
(* answer: what it accepts is JSON and its tree says it, and what it       *)
(* refuses is not, apart from what lies too deep or finds no memory.       *)
(***************************************************************************)
EXTENDS JsonReading, FiniteSetTheorems, SequenceTheorems, WellFoundedInduction, TLAPS

(* The inductive invariant *)

Kinds == {"Invalid", "Number", "String", "Array", "Object"} \cup Words
ItemRec == [type : Kinds, child : Pointers, next : Pointers, prev : Pointers,
            string : Pointers, valuestring : Pointers]
StrRec == [type : {"Chars"}, text : Strings]
FrameRec == [item : Addresses, head : Pointers, current : Pointers, closer : Closers]

TextInv ==
  /\ text \in Seq(Tokens) /\ Len(text) \in 1..(MaxTokens + 1)
  /\ Len(text) = MaxTokens + 1 => Look = "end"

\* What an item points to was allocated after it.
HeapInv ==
  /\ DOMAIN heap \subseteq Addresses
  /\ \A x \in DOMAIN heap : heap[x] \in ItemRec \cup StrRec
  /\ \A x \in Items : \A f \in Links : heap[x][f] # NULL => x < heap[x][f]

StackTypes == stack \in Seq(FrameRec) /\ Len(stack) <= NestLimit

\* Every token read so far made at most two allocations.
Working == pc \in {"root", "value", "element", "name", "colon", "after", "close"}
Room == CASE pc = "root" -> 0
          [] pc = "value" -> 2 * Len(text) - 1
          [] pc \in {"name", "after", "close"} -> 2 * Len(text) - 2
          [] OTHER -> 2 * Len(text) - 3
RoomInv == \E n \in Nat : DOMAIN heap = 1..n /\ n <= Room

\* The calls in progress: each is at work on an item of the list of the one outside,
\* and has not attached its own list yet.
FrameInv(c) ==
  /\ c.item \in Items /\ heap[c.item].child = NULL
  /\ c.head = NULL <=> c.current = NULL
  /\ c.current # NULL => /\ c.head \in Items /\ c.item < c.head
                         /\ c.current \in Items /\ c.item < c.current
                         /\ heap[c.current].next = NULL

StackInv ==
  /\ \A i \in 1..Len(stack) : FrameInv(stack[i])
  /\ \A i, j \in 1..Len(stack) :
       i < j => /\ stack[i].item < stack[j].item
                /\ stack[i].current # NULL /\ stack[i].current <= stack[j].item
                /\ j = i + 1 => stack[j].item = stack[i].current

ItemInv ==
  /\ pc = "root" => stack = <<>> /\ item = NULL
  /\ pc \in {"element", "close", "name", "colon"} => stack # <<>>
  /\ pc \in {"value", "name", "colon", "after"} =>
       item \in Items /\ (stack # <<>> => item = Top.current)
  /\ pc \in {"value", "name", "colon"} =>
       heap[item].child = NULL /\ heap[item].valuestring = NULL
  /\ pc = "name" => heap[item].string = NULL
  /\ pc = "close" => Look = Top.closer

WorkInv == Working => RoomInv /\ StackInv /\ ItemInv

EndInv ==
  /\ pc \in {"root", "value", "element", "name", "colon", "after", "close", "fail",
             "done", "failed", "released"}
  /\ item \in Pointers
  /\ pc = "fail" /\ stack = <<>> /\ item = NULL => DOMAIN heap = {}
  /\ pc = "done" => stack = <<>> /\ item # NULL
  /\ pc \in {"failed", "released"} => DOMAIN heap = {} /\ stack = <<>> /\ item = NULL

\* Everything that can own an address: a link of an item, the head of a list that is
\* being built, the caller of the parser.
Roles == Links \cup {"head", "root"}
Ref(a, f) ==
  CASE f \in Links -> IF a \in Items THEN heap[a][f] ELSE NULL
    [] f = "head"  -> IF a \in 1..Len(stack) THEN stack[a].head ELSE NULL
    [] OTHER       -> IF a = NULL THEN RootItem ELSE NULL
Refs == [a \in Nat |-> [f \in Roles |-> Ref(a, f)]]

\* What is owned is allocated, what is allocated is owned, and once.
Owned(r, D) ==
  /\ NULL \notin D
  /\ \A a \in Nat, f \in Roles : r[a][f] \in D \cup {NULL}
  /\ \A x \in D : \E a \in Nat, f \in Roles : r[a][f] = x
  /\ \A a, b \in Nat, f, g \in Roles :
       r[a][f] = r[b][g] /\ r[a][f] # NULL => a = b /\ f = g
OwnInv == Owned(Refs, DOMAIN heap)

\* The last item of a list; a closed list is not added to.
IsTail(head, x) == x \in Items /\ x \in Siblings(head) /\ heap[x].next = NULL
LinksInv ==
  \A x \in Items :
    /\ heap[x].next # NULL => heap[x].next \in Items /\ heap[heap[x].next].prev = x
    /\ heap[x].child # NULL => /\ heap[x].child \in Items
                               /\ IsTail(heap[x].child, heap[heap[x].child].prev)
ListInv(c) ==
  c.current # NULL =>
    /\ c.current \in Siblings(c.head)
    /\ \A x \in Items : heap[x].child # NULL => heap[heap[x].child].prev # c.current
ListsInv ==
  /\ Working \/ pc = "done" => LinksInv
  /\ Working => \A i \in 1..Len(stack) : ListInv(stack[i])

IInv ==
  /\ TextInv /\ HeapInv /\ StackTypes
  /\ WorkInv /\ EndInv /\ OwnInv
-----------------------------------------------------------------------------
(* The inductive invariant of what the items were made of *)
\* The items whose value is not complete: those that the calls in progress are at, and
\* the one that is being parsed.
Frames == {stack[i] : i \in 1..Len(stack)}
FrameItems == {c.item : c \in Frames}
AtItem(x) == pc \in {"value", "name", "colon"} /\ x = item

\* An item that has no name yet, but may get one.
Unnamed(x) == pc = "name" /\ x = item

Ended(x) == place[x].to # 0
OpenInv == \A x \in Items : ~Ended(x) <=> x \in FrameItems \/ AtItem(x)

PlaceRec == [in : Pointers, from : Nat \ {0}, to : Nat]
PlaceTypes ==
  \A x \in Items : /\ x \in DOMAIN place /\ place[x] \in PlaceRec
                   /\ place[x].from <= Len(text) /\ place[x].to < Len(text)

StringsInv ==
  \A x \in Items : \A f \in {"string", "valuestring"} :
    heap[x][f] # NULL => heap[x][f] \in DOMAIN heap \ Items

\* The elements of a list have names if the bracket in front of it says so.
ParentsInv ==
  \A x \in Items :
    LET p == place[x].in
    IN IF p = NULL
         THEN x = RootItem /\ place[x].from = 1 /\ heap[x].string = NULL
         ELSE /\ p \in Items /\ p < x
              /\ Ended(p) \/ p \in FrameItems
              /\ ValueAt(p) < place[x].from /\ text[ValueAt(p)] \in Openers
              /\ ~Unnamed(x) => (heap[x].string # NULL <=> text[ValueAt(p)] = BeginObject)

NamePlace(x) ==
  heap[x].string # NULL =>
    /\ heap[heap[x].string].text = text[place[x].from]
    /\ place[x].from < Len(text)
    /\ ~(pc = "colon" /\ x = item) =>
         place[x].from + 1 < Len(text) /\ text[place[x].from + 1] = ":"
NamesInv == \A x \in Items : NamePlace(x)

NextPlace(x) ==
  heap[x].next # NULL =>
    /\ heap[x].next \in Items /\ Ended(x)
    /\ text[place[x].to + 1] = Comma
    /\ place[heap[x].next].from = place[x].to + 2
    /\ place[heap[x].next].in = place[x].in
NextInv == \A x \in Items : NextPlace(x)

\* The list of a complete item: its first element follows the bracket, and whatever is
\* the last in it stands in front of the other one.
ListPlace(x) ==
  /\ \/ heap[x].type = "Array" /\ text[ValueAt(x)] = BeginArray
     \/ heap[x].type = "Object" /\ text[ValueAt(x)] = BeginObject
  /\ text[place[x].to] = Closer(text[ValueAt(x)]) /\ ValueAt(x) < place[x].to
  /\ heap[x].child = NULL => place[x].to = ValueAt(x) + 1
  /\ heap[x].child # NULL => /\ heap[x].child \in Items
                             /\ place[heap[x].child].in = x
                             /\ place[heap[x].child].from = ValueAt(x) + 1
                             /\ text[ValueAt(x) + 1] # Closer(text[ValueAt(x)])
  /\ \A y \in Items :
       place[y].in = x /\ heap[y].next = NULL => place[y].to = place[x].to - 1

ScalarPlace(x) == SaysScalar(x) /\ heap[x].child = NULL
ValuesInv == \A x \in Items : Ended(x) => ScalarPlace(x) \/ ListPlace(x)

\* The same of a list that is being built, as far as it goes.
FramePlace(c) ==
  /\ ValueAt(c.item) < Len(text) /\ text[ValueAt(c.item)] \in Openers
  /\ c.closer = Closer(text[ValueAt(c.item)])
  /\ c.head # NULL => /\ place[c.head].in = c.item /\ place[c.current].in = c.item
                      /\ place[c.head].from = ValueAt(c.item) + 1
                      /\ text[ValueAt(c.item) + 1] # c.closer
  /\ \A y \in Items : place[y].in = c.item /\ heap[y].next = NULL => y = c.current
FramesInv == \A c \in Frames : FramePlace(c)

AtInv ==
  /\ pc = "root"  => Len(text) = 1
  /\ pc = "value" => ValueAt(item) = Len(text)
  /\ pc = "name"  => place[item].from = Len(text) /\ Top.closer = EndObject
  /\ pc = "colon" => place[item].from + 1 = Len(text) /\ heap[item].string # NULL
  /\ pc \in {"after", "done"} => item \in Items /\ place[item].to + 1 = Len(text)
  /\ pc = "element" =>
       IF Top.current = NULL THEN ValueAt(Top.item) + 1 = Len(text) /\ Look # Top.closer
       ELSE place[Top.current].to + 2 = Len(text) /\ text[Len(text) - 1] = Comma
  /\ pc = "close" =>
       IF Top.current = NULL THEN ValueAt(Top.item) + 1 = Len(text)
       ELSE place[Top.current].to + 1 = Len(text)

PlaceInv ==
  Working \/ pc = "done" =>
    /\ OpenInv /\ PlaceTypes /\ StringsInv /\ ParentsInv /\ NamesInv /\ NextInv
    /\ ValuesInv /\ FramesInv /\ AtInv
-----------------------------------------------------------------------------
(* Ownership *)

LEMMA RefsAt ==
  ASSUME NEW a \in Nat, NEW f \in Roles
  PROVE  Refs[a][f] = Ref(a, f) /\ Refs'[a][f] = Ref(a, f)'
BY DEF Refs

\* A fresh address is put where nothing was.
Added(r, s, x, a0, f0) ==
  /\ x # NULL /\ a0 \in Nat /\ f0 \in Roles /\ r[a0][f0] = NULL
  /\ \A a \in Nat, f \in Roles : s[a][f] = IF a = a0 /\ f = f0 THEN x ELSE r[a][f]

LEMMA AddOwner ==
  ASSUME NEW r, NEW s, NEW D, NEW x, NEW a0, NEW f0,
         Owned(r, D), x \notin D, Added(r, s, x, a0, f0)
  PROVE  Owned(s, D \cup {x})
<1> USE DEF Added
<1>1. \A a \in Nat, f \in Roles : s[a][f] \in (D \cup {x}) \cup {NULL}
  BY DEF Owned
<1>2. ASSUME NEW y \in D \cup {x} PROVE \E a \in Nat, f \in Roles : s[a][f] = y
  <2>1. CASE y = x
    BY <2>1
  <2>2. CASE y # x
    <3>1. PICK a \in Nat, f \in Roles : r[a][f] = y
      BY <2>2 DEF Owned
    <3>2. ~(a = a0 /\ f = f0)
      BY <2>2, <3>1 DEF Owned
    <3>3. QED
      BY <3>1, <3>2
  <2>3. QED
    BY <2>1, <2>2
<1>3. ASSUME NEW a \in Nat, NEW b \in Nat, NEW f \in Roles, NEW g \in Roles,
             s[a][f] = s[b][g], s[a][f] # NULL
      PROVE  a = b /\ f = g
  BY <1>3 DEF Owned
<1>4. QED
  BY <1>1, <1>2, <1>3 DEF Owned

LEMMA SameOwners ==
  ASSUME NEW r, NEW s, NEW D, Owned(r, D),
         \A a \in Nat, f \in Roles : s[a][f] = r[a][f]
  PROVE  Owned(s, D)
BY DEF Owned

\* An address changes hands.
Moved(r, s, a0, f0, b0, g0) ==
  /\ a0 \in Nat /\ b0 \in Nat /\ f0 \in Roles /\ g0 \in Roles
  /\ r[b0][g0] = NULL /\ ~(a0 = b0 /\ f0 = g0)
  /\ \A a \in Nat, f \in Roles : s[a][f] = IF a = a0 /\ f = f0 THEN NULL
                                           ELSE IF a = b0 /\ f = g0 THEN r[a0][f0]
                                           ELSE r[a][f]

LEMMA MoveOwner ==
  ASSUME NEW r, NEW s, NEW D, NEW a0, NEW f0, NEW b0, NEW g0,
         Owned(r, D), Moved(r, s, a0, f0, b0, g0)
  PROVE  Owned(s, D)
<1> USE DEF Moved
<1>1. \A a \in Nat, f \in Roles : s[a][f] \in D \cup {NULL}
  BY DEF Owned
<1>2. ASSUME NEW y \in D PROVE \E a \in Nat, f \in Roles : s[a][f] = y
  <2>1. PICK a \in Nat, f \in Roles : r[a][f] = y
    BY DEF Owned
  <2>2. ~(a = b0 /\ f = g0)
    BY <2>1 DEF Owned
  <2>3. CASE a = a0 /\ f = f0
    BY <2>1, <2>3
  <2>4. CASE ~(a = a0 /\ f = f0)
    BY <2>1, <2>2, <2>4
  <2>5. QED
    BY <2>3, <2>4
<1>3. ASSUME NEW a \in Nat, NEW b \in Nat, NEW f \in Roles, NEW g \in Roles,
             s[a][f] = s[b][g], s[a][f] # NULL
      PROVE  a = b /\ f = g
  BY <1>3 DEF Owned
<1>4. QED
  BY <1>1, <1>2, <1>3 DEF Owned

\* A set of addresses goes, with everything that they own, and nobody else owned them
\* but the one owner that lets go of them.
Dropped(r, s, E, a0, f0) ==
  /\ a0 \in Nat /\ f0 \in Roles
  /\ r[a0][f0] # NULL => r[a0][f0] \in E
  /\ \A y \in E : y = r[a0][f0] \/ \E a \in E \cap Nat, f \in Links : r[a][f] = y
  /\ \A a \in E \cap Nat, f \in Links : r[a][f] \in E \cup {NULL}
  /\ \A a \in Nat, f \in Roles :
       s[a][f] = IF (a = a0 /\ f = f0) \/ (a \in E /\ f \in Links) THEN NULL ELSE r[a][f]

LEMMA DropOwners ==
  ASSUME NEW r, NEW s, NEW D, NEW E, NEW a0, NEW f0,
         Owned(r, D), Dropped(r, s, E, a0, f0)
  PROVE  Owned(s, D \ E)
<1> USE DEF Dropped
<1>1. ASSUME NEW a \in Nat, NEW f \in Roles PROVE s[a][f] \in (D \ E) \cup {NULL}
  <2>1. CASE (a = a0 /\ f = f0) \/ (a \in E /\ f \in Links)
    BY <2>1
  <2>2. CASE ~((a = a0 /\ f = f0) \/ (a \in E /\ f \in Links))
    <3>1. s[a][f] = r[a][f] /\ r[a][f] \in D \cup {NULL}
      BY <2>2 DEF Owned
    <3>2. ASSUME r[a][f] \in E, r[a][f] # NULL PROVE FALSE
      <4>1. CASE r[a][f] = r[a0][f0]
        BY <2>2, <3>2, <4>1 DEF Owned
      <4>2. CASE \E b \in E \cap Nat, g \in Links : r[b][g] = r[a][f]
        <5>1. PICK b \in E \cap Nat, g \in Links : r[b][g] = r[a][f]
          BY <4>2
        <5>2. g \in Roles
          BY DEF Roles
        <5>3. a = b /\ f = g
          BY <3>2, <5>1, <5>2 DEF Owned
        <5>4. QED
          BY <2>2, <5>1, <5>3
      <4>3. QED
        BY <3>2, <4>1, <4>2
    <3>3. QED
      BY <3>1, <3>2
  <2>3. QED
    BY <2>1, <2>2
<1>2. ASSUME NEW y \in D \ E PROVE \E a \in Nat, f \in Roles : s[a][f] = y
  <2>1. PICK a \in Nat, f \in Roles : r[a][f] = y
    BY DEF Owned
  <2>2. y # NULL
    BY DEF Owned
  <2>3. ~(a = a0 /\ f = f0) /\ ~(a \in E /\ f \in Links)
    BY <2>1, <2>2
  <2>4. QED
    BY <2>1, <2>3
<1>3. ASSUME NEW a \in Nat, NEW b \in Nat, NEW f \in Roles, NEW g \in Roles,
             s[a][f] = s[b][g], s[a][f] # NULL
      PROVE  a = b /\ f = g
  BY <1>3 DEF Owned
<1>4. QED
  BY <1>1, <1>2, <1>3 DEF Owned
-----------------------------------------------------------------------------
(* What the parts of a step do *)

LEMMA RefCases ==
  /\ \A a \in Nat, f \in Links : Refs[a][f] = IF a \in Items THEN heap[a][f] ELSE NULL
  /\ \A a \in Nat : Refs[a]["head"] = IF a \in 1..Len(stack) THEN stack[a].head ELSE NULL
  /\ \A a \in Nat : Refs[a]["root"] = IF a = NULL THEN RootItem ELSE NULL
BY DEF Refs, Ref, Roles, Links

LEMMA RefCasesNext ==
  /\ \A a \in Nat, f \in Links : Refs'[a][f] = IF a \in Items' THEN heap'[a][f] ELSE NULL
  /\ \A a \in Nat : Refs'[a]["head"] = IF a \in 1..Len(stack') THEN stack'[a].head ELSE NULL
  /\ \A a \in Nat : Refs'[a]["root"] = IF a = NULL THEN RootItem' ELSE NULL
BY DEF Refs, Ref, Roles, Links

LEMMA ItemFields ==
  ASSUME HeapInv, NEW x \in Items
  PROVE  heap[x] \in ItemRec /\ x \in DOMAIN heap /\ x \in Addresses
BY DEF HeapInv, Items, IsItem, ItemRec, StrRec

LEMMA NotEnd == "end" \notin Strings \cup Words \cup {Number}
BY StringsAssumption DEF Words, Number

LEMMA MarksAreNotEnd == "end" \notin Openers \cup Closers
BY Zenon DEF Openers, Closers, BeginArray, BeginObject, EndArray, EndObject

LEMMA AdvanceKeeps ==
  ASSUME TextInv, Advance, Look # "end"
  PROVE  TextInv' /\ Len(text') = Len(text) + 1 /\ Len(text) <= MaxTokens
<1>1. Len(text) \in 1..MaxTokens
  BY BoundsAssumption DEF TextInv
<1>2. PICK t \in Tokens : (Len(text) >= MaxTokens => t = "end") /\ text' = Append(text, t)
  BY DEF Advance
<1>3. text' \in Seq(Tokens) /\ Len(text') = Len(text) + 1 /\ text'[Len(text')] = t
  BY <1>2 DEF TextInv
<1>4. QED
  BY <1>1, <1>2, <1>3, BoundsAssumption DEF TextInv, Look

LEMMA FreshIs ==
  ASSUME NEW n \in Nat, DOMAIN heap = 1..n, n < 2 * MaxTokens
  PROVE  Fresh = n + 1 /\ Fresh \in Addresses /\ Fresh \notin DOMAIN heap /\ Fresh # NULL
<1>1. n + 1 \in Addresses /\ n + 1 \notin DOMAIN heap
        /\ (n + 1 = 1 \/ (n + 1) - 1 \in DOMAIN heap)
  BY BoundsAssumption DEF Addresses
<1>2. ASSUME NEW x \in Addresses, x \notin DOMAIN heap, x = 1 \/ x - 1 \in DOMAIN heap
      PROVE  x = n + 1
  BY <1>2, BoundsAssumption DEF Addresses
<1>3. Fresh = n + 1
  BY <1>1, <1>2 DEF Fresh
<1>4. QED
  BY <1>1, <1>3 DEF NULL

LEMMA PopIs ==
  ASSUME StackTypes, stack # <<>>
  PROVE  /\ Len(stack) \in Nat \ {0} /\ Top \in FrameRec /\ Top = stack[Len(stack)]
         /\ Pop \in Seq(FrameRec) /\ Len(Pop) = Len(stack) - 1
         /\ \A i \in 1..Len(stack) - 1 : Pop[i] = stack[i]
<1>1. stack \in Seq(FrameRec) /\ Len(stack) \in Nat \ {0}
  BY EmptySeq, LenProperties DEF StackTypes
<1>2. Top \in FrameRec /\ Top = stack[Len(stack)]
  BY <1>1 DEF Top
<1>3. \A i \in 1..Len(stack) - 1 : stack[i] \in FrameRec
  BY <1>1
<1>4. /\ Pop \in Seq(FrameRec) /\ Len(Pop) = Len(stack) - 1
      /\ \A i \in 1..Len(stack) - 1 : Pop[i] = stack[i]
  <2>1. PICK n \in Nat : n = Len(stack) - 1
    BY <1>1
  <2>2. Pop = SubSeq(stack, 1, n)
    BY <2>1 DEF Pop
  <2>3. \A i \in 1..n : stack[i] \in FrameRec
    BY <1>3, <2>1
  <2>4. /\ Pop \in Seq(FrameRec)
        /\ Len(Pop) = IF 1 <= n THEN n - 1 + 1 ELSE 0
        /\ \A i \in 1..(n - 1 + 1) : Pop[i] = stack[1 + i - 1]
    BY <2>2, <2>3, SubSeqProperties
  <2>5. QED
    BY <2>1, <2>4
<1>5. QED
  BY <1>1, <1>2, <1>3, <1>4

LEMMA SetTopIs ==
  ASSUME StackTypes, stack # <<>>, NEW c \in FrameRec
  PROVE  /\ SetTop(c) \in Seq(FrameRec) /\ Len(SetTop(c)) = Len(stack)
         /\ \A i \in 1..Len(stack) : SetTop(c)[i] = IF i = Len(stack) THEN c ELSE stack[i]
BY PopIs DEF SetTop

LEMMA SameRefs ==
  ASSUME OwnInv, UNCHANGED <<heap, stack>>, RootItem' = RootItem
  PROVE  OwnInv'
<1>1. Items' = Items
  BY DEF Items, IsItem
<1>2. \A a \in Nat, f \in Roles : Refs'[a][f] = Refs[a][f]
  BY <1>1, RefCases, RefCasesNext DEF Roles
<1>3. Owned(Refs', DOMAIN heap)
  BY <1>2, SameOwners DEF OwnInv
<1>4. QED
  BY <1>3 DEF OwnInv

\* The frames look at the links child and next of some items.
LEMMA FramesKept ==
  ASSUME StackInv, UNCHANGED stack,
         \A x \in Items : /\ x \in Items' /\ heap'[x].child = heap[x].child
                          /\ heap'[x].next = heap[x].next
  PROVE  StackInv'
<1>1. ASSUME NEW i \in 1..Len(stack) PROVE FrameInv(stack[i])'
  <2>1. FrameInv(stack[i])
    BY DEF StackInv
  <2>2. QED
    BY <2>1 DEF FrameInv
<1>2. QED
  BY <1>1 DEF StackInv
-----------------------------------------------------------------------------
(* The steps of parse_value *)

LEMMA FailKeeps ==
  ASSUME IInv, Working, Fail
  PROVE  IInv'
<1>1. TextInv' /\ HeapInv' /\ StackTypes'
  BY DEF IInv, Fail, TextInv, Look, HeapInv, Items, IsItem, StackTypes
<1>2. WorkInv'
  BY DEF Fail, WorkInv, Working
<1>3. ASSUME stack = <<>>, item = NULL PROVE DOMAIN heap = {}
  <2>1. RoomInv /\ ItemInv /\ HeapInv
    BY DEF IInv, WorkInv
  <2>2. pc = "root"
    <3>1. NULL \notin Items
      BY <2>1, ItemFields DEF Addresses, NULL
    <3>2. QED
      BY <1>3, <2>1, <3>1 DEF ItemInv, Working
  <2>3. Room = 0
    BY <2>2 DEF Room
  <2>4. PICK n \in Nat : DOMAIN heap = 1..n /\ n <= 0
    BY <2>1, <2>3 DEF RoomInv
  <2>5. QED
    BY <2>4
<1>4. EndInv'
  BY <1>3 DEF IInv, EndInv, Fail
<1>5. OwnInv'
  BY SameRefs DEF IInv, Fail, RootItem
<1>6. QED
  BY <1>1, <1>2, <1>4, <1>5 DEF IInv

\* The room for allocations where one is made.
LEMMA RoomAt ==
  /\ pc = "root" => Room = 0
  /\ pc = "value" => Room = 2 * Len(text) - 1
  /\ pc \in {"name", "after", "close"} => Room = 2 * Len(text) - 2
  /\ pc \in {"element", "colon"} => Room = 2 * Len(text) - 3
BY DEF Room

LEMMA RoomAtNext ==
  /\ pc' = "root" => Room' = 0
  /\ pc' = "value" => Room' = 2 * Len(text') - 1
  /\ pc' \in {"name", "after", "close"} => Room' = 2 * Len(text') - 2
  /\ pc' \in {"element", "colon"} => Room' = 2 * Len(text') - 3
BY DEF Room

LEMMA AtWork ==
  ASSUME IInv, Working
  PROVE  TextInv /\ HeapInv /\ StackTypes /\ RoomInv /\ StackInv /\ ItemInv /\ OwnInv
BY DEF IInv, WorkInv

\* An item is given its type, its links stay.
LEMMA Retyped ==
  ASSUME IInv, pc = "value", Look # "end", NEW k \in Kinds,
         heap' = [heap EXCEPT ![item].type = k], Advance, Return
  PROVE  IInv'
<1>1. TextInv /\ HeapInv /\ StackTypes /\ RoomInv /\ StackInv /\ ItemInv /\ OwnInv
  BY AtWork DEF Working
<1>2. item \in Items /\ (stack # <<>> => item = Top.current)
  BY <1>1 DEF ItemInv
<1>3. heap[item] \in ItemRec /\ item \in DOMAIN heap
  BY <1>1, <1>2, ItemFields
<1>4. /\ DOMAIN heap' = DOMAIN heap
      /\ \A x \in DOMAIN heap : x # item => heap'[x] = heap[x]
      /\ heap'[item] = [heap[item] EXCEPT !.type = k]
  BY <1>3
<1>5. heap'[item] \in ItemRec /\ \A f \in Links : heap'[item][f] = heap[item][f]
  BY <1>3, <1>4 DEF ItemRec, Links
<1>6. Items' = Items
  <2>1. heap'[item].type # "Chars"
    BY <1>5 DEF ItemRec, Kinds, Words
  <2>2. QED
    BY <1>2, <1>4, <2>1 DEF Items, IsItem
<1>7. \A x \in Items, f \in Links : heap'[x][f] = heap[x][f]
  BY <1>4, <1>5 DEF Items
<1>8. TextInv' /\ Len(text') = Len(text) + 1
  BY <1>1, AdvanceKeeps
<1>9. HeapInv'
  <2>1. \A x \in DOMAIN heap' : heap'[x] \in ItemRec \cup StrRec
    BY <1>1, <1>4, <1>5 DEF HeapInv
  <2>2. \A x \in Items' : \A f \in Links : heap'[x][f] # NULL => x < heap'[x][f]
    BY <1>1, <1>6, <1>7 DEF HeapInv
  <2>3. QED
    BY <1>1, <1>4, <2>1, <2>2 DEF HeapInv
<1>10. StackTypes'
  BY <1>1 DEF StackTypes, Return
<1>11. RoomInv'
  <2>1. PICK n \in Nat : DOMAIN heap = 1..n /\ n <= 2 * Len(text) - 1
    BY <1>1, RoomAt DEF RoomInv
  <2>2. Room' = 2 * Len(text') - 2
    BY RoomAtNext DEF Return
  <2>3. n <= Room'
    BY <1>8, <2>1, <2>2, <1>1 DEF TextInv
  <2>4. QED
    BY <1>4, <2>1, <2>3 DEF RoomInv
<1>12. StackInv'
  BY <1>1, <1>6, <1>7, FramesKept DEF Return, Links
<1>13. ItemInv'
  BY <1>2, <1>6 DEF ItemInv, Return, Top
<1>14. EndInv'
  BY DEF IInv, EndInv, Return
<1>15. OwnInv'
  <2>1. RootItem' = RootItem /\ stack' = stack
    BY DEF RootItem, Return
  <2>2. \A a \in Nat, f \in Roles : Refs'[a][f] = Refs[a][f]
    BY <1>6, <1>7, <2>1, RefCases, RefCasesNext DEF Roles
  <2>3. QED
    BY <1>1, <1>4, <2>2, SameOwners DEF OwnInv
<1>16. QED
  BY <1>8, <1>9, <1>10, <1>11, <1>12, <1>13, <1>14, <1>15 DEF IInv, WorkInv

\* An item is given a string of its own.
LEMMA StringAdded ==
  ASSUME HeapInv, StackInv, OwnInv, item \in Items,
         NEW x, x \in Addresses, x \notin DOMAIN heap, x # NULL,
         \A y \in DOMAIN heap : y < x,
         NEW f0 \in {"string", "valuestring"}, heap[item][f0] = NULL,
         UNCHANGED stack, RootItem' = RootItem,
         DOMAIN heap' = DOMAIN heap \cup {x},
         heap'[x] \in StrRec, heap'[item] \in ItemRec,
         \A f \in Links : heap'[item][f] = IF f = f0 THEN x ELSE heap[item][f],
         \A y \in DOMAIN heap : y # item => heap'[y] = heap[y]
  PROVE  HeapInv' /\ StackInv' /\ OwnInv' /\ Items' = Items
<1>1. Items' = Items
  <2>1. heap'[item].type # "Chars" /\ heap'[x].type = "Chars" /\ item # x
    BY ItemFields DEF ItemRec, StrRec, Kinds, Words
  <2>2. QED
    BY <2>1 DEF Items, IsItem
<1>2. \A y \in Items, f \in Links : heap'[y][f] = IF y = item /\ f = f0 THEN x ELSE heap[y][f]
  BY DEF Items
<1>3. HeapInv'
  <2>1. \A y \in DOMAIN heap' : heap'[y] \in ItemRec \cup StrRec
    BY DEF HeapInv
  <2>2. \A y \in Items' : \A f \in Links : heap'[y][f] # NULL => y < heap'[y][f]
    BY <1>1, <1>2 DEF HeapInv, Items
  <2>3. QED
    BY <2>1, <2>2 DEF HeapInv
<1>4. StackInv'
  BY <1>1, <1>2, FramesKept DEF Links
<1>5. OwnInv'
  <2>1. f0 \in Roles /\ f0 \in Links /\ f0 \notin {"head", "root"} /\ item \in Nat
    BY ItemFields, BoundsAssumption DEF Roles, Links, Addresses
  <2>2. Refs[item][f0] = NULL
    BY <2>1, RefCases
  <2>3. \A a \in Nat, f \in Roles : Refs'[a][f] = IF a = item /\ f = f0 THEN x ELSE Refs[a][f]
    <3>1. \A a \in Nat, f \in Links : Refs'[a][f] = IF a = item /\ f = f0 THEN x ELSE Refs[a][f]
      BY <1>1, <1>2, RefCases, RefCasesNext
    <3>2. \A a \in Nat, f \in {"head", "root"} : Refs'[a][f] = Refs[a][f]
      BY RefCases, RefCasesNext
    <3>3. QED
      BY <2>1, <3>1, <3>2 DEF Roles
  <2>4. Added(Refs, Refs', x, item, f0)
    BY <2>1, <2>2, <2>3 DEF Added
  <2>5. Owned(Refs', DOMAIN heap \cup {x})
    BY <2>4, AddOwner DEF OwnInv
  <2>6. QED
    BY <2>5 DEF OwnInv
<1>6. QED
  BY <1>1, <1>3, <1>4, <1>5
LEMMA RootStep ==
  ASSUME IInv, NewRoot
  PROVE  IInv'
<1>1. CASE OutOfMemory
  BY <1>1, FailKeeps DEF NewRoot, OutOfMemory, Working
<1>2. CASE /\ heap' = With(heap, Fresh, NewItem)
           /\ item' = Fresh /\ pc' = "value"
           /\ UNCHANGED <<text, stack, oom, deep>>
  <2>1. TextInv /\ HeapInv /\ StackTypes /\ RoomInv /\ StackInv /\ ItemInv /\ OwnInv
    BY AtWork DEF Working, NewRoot
  <2>2. DOMAIN heap = {} /\ stack = <<>> /\ item = NULL
    BY <2>1, RoomAt DEF NewRoot, RoomInv, ItemInv
  <2>3. Fresh = 1 /\ Fresh \in Addresses /\ Fresh # NULL
    BY <2>2, FreshIs, BoundsAssumption
  <2>4. DOMAIN heap' = {1} /\ heap'[1] = NewItem /\ item' = 1
    BY <1>2, <2>2, <2>3 DEF With
  <2>5. NewItem \in ItemRec /\ \A f \in Links : NewItem[f] = NULL
    BY DEF NewItem, ItemRec, Kinds, Pointers, Links
  <2>6. Items' = {1} /\ Items = {}
    BY <2>2, <2>4 DEF Items, IsItem, NewItem
  <2>7. TextInv' /\ StackTypes' /\ Len(text) >= 1
    BY <1>2, <2>1 DEF TextInv, Look, StackTypes
  <2>8. HeapInv'
    BY <2>3, <2>4, <2>5, <2>6 DEF HeapInv
  <2>9. RoomInv'
    <3>1. Room' = 2 * Len(text) - 1
      BY <1>2, RoomAtNext
    <3>2. 1 \in Nat /\ DOMAIN heap' = 1..1 /\ 1 <= Room'
      BY <2>4, <2>7, <3>1, <2>1 DEF TextInv
    <3>3. QED
      BY <3>2 DEF RoomInv
  <2>10. StackInv'
    BY <1>2, <2>2, EmptySeq DEF StackInv
  <2>11. ItemInv'
    BY <1>2, <2>2, <2>4, <2>6 DEF ItemInv, NewItem
  <2>12. EndInv'
    BY <1>2, <2>3 DEF EndInv, Pointers
  <2>13. OwnInv'
    <3>1. RootItem' = 1 /\ RootItem = NULL /\ stack' = stack /\ NULL \in Nat
      BY <1>2, <2>2, <2>4 DEF RootItem, NULL
    <3>2. \A a \in Nat, f \in Roles :
            Refs'[a][f] = IF a = NULL /\ f = "root" THEN 1 ELSE Refs[a][f]
      <4>1. \A a \in Nat, f \in Links : Refs'[a][f] = Refs[a][f] /\ f # "root"
        BY <2>4, <2>5, <2>6, RefCases, RefCasesNext DEF Links
      <4>2. \A a \in Nat : Refs'[a]["head"] = Refs[a]["head"]
        BY <3>1, RefCases, RefCasesNext
      <4>3. \A a \in Nat : Refs'[a]["root"] = IF a = NULL THEN 1 ELSE Refs[a]["root"]
        BY <3>1, RefCases, RefCasesNext
      <4>4. QED
        BY <4>1, <4>2, <4>3 DEF Roles
    <3>3. Refs[NULL]["root"] = NULL /\ "root" \in Roles
      BY <3>1, RefCases DEF Roles
    <3>4. Owned(Refs', DOMAIN heap \cup {1})
      <4>1. Owned(Refs, DOMAIN heap) /\ 1 \notin DOMAIN heap
        BY <2>1, <2>2 DEF OwnInv
      <4>2. Added(Refs, Refs', 1, NULL, "root")
        BY <2>3, <3>1, <3>2, <3>3 DEF Added
      <4>3. QED
        BY <4>1, <4>2, AddOwner
    <3>5. QED
      BY <2>2, <2>4, <3>4 DEF OwnInv
  <2>14. QED
    BY <2>1, <2>7, <2>8, <2>9, <2>10, <2>11, <2>12, <2>13 DEF IInv, WorkInv
<1>3. QED
  BY <1>1, <1>2 DEF NewRoot

LEMMA WordStep ==
  ASSUME IInv, ParseWord \/ ParseNumber
  PROVE  IInv'
<1>1. CASE ParseWord
  BY <1>1, Retyped, NotEnd DEF ParseWord, Kinds
<1>2. CASE ParseNumber
  <2>1. CASE OutOfMemory
    BY <1>2, <2>1, FailKeeps DEF ParseNumber, OutOfMemory, Working
  <2>2. CASE heap' = [heap EXCEPT ![item].type = "Number"] /\ Advance /\ Return
    BY <1>2, <2>2, Retyped, NotEnd DEF ParseNumber, Kinds
  <2>3. QED
    BY <1>2, <2>1, <2>2 DEF ParseNumber
<1>3. QED
  BY <1>1, <1>2

\* What Fresh is while a value or a name is parsed.
LEMMA FreshForString ==
  ASSUME IInv, pc \in {"value", "name"}, Look \in Strings
  PROVE  \E n \in Nat : /\ DOMAIN heap = 1..n /\ n <= Room /\ Fresh = n + 1
                        /\ Fresh \in Addresses /\ Fresh \notin DOMAIN heap /\ Fresh # NULL
                        /\ \A y \in DOMAIN heap : y < Fresh
<1>1. TextInv /\ RoomInv
  BY AtWork DEF Working
<1>2. Len(text) \in 1..MaxTokens
  BY <1>1, NotEnd, BoundsAssumption DEF TextInv
<1>3. PICK n \in Nat : DOMAIN heap = 1..n /\ n <= Room
  BY <1>1 DEF RoomInv
<1>4. n < 2 * MaxTokens
  BY <1>2, <1>3, RoomAt, BoundsAssumption
<1>5. Fresh = n + 1 /\ Fresh \in Addresses /\ Fresh \notin DOMAIN heap /\ Fresh # NULL
  BY <1>3, <1>4, FreshIs
<1>6. \A y \in DOMAIN heap : y < Fresh
  BY <1>3, <1>5
<1>7. QED
  BY <1>3, <1>5, <1>6

LEMMA StringStep ==
  ASSUME IInv, ParseString
  PROVE  IInv'
<1>1. CASE OutOfMemory
  BY <1>1, FailKeeps DEF ParseString, OutOfMemory, Working
<1>2. CASE /\ heap' = With([heap EXCEPT ![item].type = "String",
                                        ![item].valuestring = Fresh], Fresh, Str(Look))
           /\ Advance /\ Return
  <2>1. TextInv /\ HeapInv /\ StackTypes /\ RoomInv /\ StackInv /\ ItemInv /\ OwnInv
    BY AtWork DEF Working, ParseString
  <2>2. /\ item \in Items /\ (stack # <<>> => item = Top.current)
        /\ heap[item].valuestring = NULL
    BY <2>1 DEF ItemInv, ParseString
  <2>3. heap[item] \in ItemRec /\ item \in DOMAIN heap
    BY <2>1, <2>2, ItemFields
  <2>4. PICK n \in Nat : /\ DOMAIN heap = 1..n /\ n <= Room /\ Fresh = n + 1
                         /\ Fresh \in Addresses /\ Fresh \notin DOMAIN heap /\ Fresh # NULL
                         /\ \A y \in DOMAIN heap : y < Fresh
    BY FreshForString DEF ParseString
  <2> DEFINE x == Fresh
  <2>5. x \in Addresses /\ x \notin DOMAIN heap /\ x # NULL /\ x = n + 1
          /\ \A y \in DOMAIN heap : y < x
    BY <2>4
  <2>6. /\ DOMAIN heap' = DOMAIN heap \cup {x}
        /\ \A y \in DOMAIN heap : y # item => heap'[y] = heap[y]
        /\ heap'[item] = [heap[item] EXCEPT !.type = "String", !.valuestring = x]
        /\ heap'[x] = Str(Look)
    BY <1>2, <2>3, <2>5 DEF With
  <2> HIDE DEF x
  <2>7. heap'[x] \in StrRec
    BY <2>6 DEF Str, StrRec, ParseString
  <2>8. /\ heap'[item] \in ItemRec
        /\ \A f \in Links : heap'[item][f] = IF f = "valuestring" THEN x ELSE heap[item][f]
    BY <2>3, <2>5, <2>6 DEF ItemRec, Links, Kinds, Pointers
  <2>9. UNCHANGED stack /\ RootItem' = RootItem
    BY <1>2 DEF Return, RootItem
  <2>10. HeapInv' /\ StackInv' /\ OwnInv' /\ Items' = Items
    BY <2>1, <2>2, <2>5, <2>6, <2>7, <2>8, <2>9, StringAdded
  <2>11. TextInv' /\ Len(text') = Len(text) + 1
    BY <1>2, <2>1, AdvanceKeeps, NotEnd DEF ParseString
  <2>12. RoomInv'
    <3>1. Room = 2 * Len(text) - 1 /\ Room' = 2 * Len(text') - 2
      BY <1>2, RoomAt, RoomAtNext DEF ParseString, Return
    <3>2. n + 1 \in Nat /\ DOMAIN heap' = 1..(n + 1)
      BY <2>4, <2>5, <2>6
    <3>3. n + 1 <= Room'
      BY <2>1, <2>4, <2>11, <3>1 DEF TextInv
    <3>4. QED
      BY <3>2, <3>3 DEF RoomInv
  <2>13. ItemInv'
    BY <1>2, <2>2, <2>10 DEF ItemInv, Return, Top
  <2>14. EndInv'
    BY <1>2 DEF IInv, EndInv, Return
  <2>15. StackTypes'
    BY <2>1, <2>9 DEF StackTypes
  <2>16. QED
    BY <2>10, <2>11, <2>12, <2>13, <2>14, <2>15 DEF IInv, WorkInv
<1>3. QED
  BY <1>1, <1>2 DEF ParseString

LEMMA RefusedStep ==
  ASSUME IInv, ParseNothing \/ TooDeep \/ NoName
  PROVE  IInv'
BY FailKeeps DEF ParseNothing, TooDeep, NoName, Reject, OutOfMemory, Working

LEMMA OpenStep ==
  ASSUME IInv, NEW opener \in Openers, Open(opener)
  PROVE  IInv'
<1> DEFINE c == [item |-> item, head |-> NULL, current |-> NULL, closer |-> Closer(opener)]
<1>1. TextInv /\ HeapInv /\ StackTypes /\ RoomInv /\ StackInv /\ ItemInv /\ OwnInv
  BY AtWork DEF Working, Open
<1>2. /\ item \in Items /\ (stack # <<>> => item = Top.current)
      /\ heap[item].child = NULL
  BY <1>1 DEF ItemInv, Open
<1>3. c \in FrameRec /\ c.item = item /\ c.head = NULL /\ c.current = NULL
        /\ c.closer = Closer(opener)
  BY <1>1, <1>2, ItemFields DEF FrameRec, Pointers, Closer, Closers
<1>4. stack' = Append(stack, c) /\ heap' = heap /\ Advance
  BY DEF Open
<1> HIDE DEF c
<1>5. TextInv' /\ Len(text') = Len(text) + 1
  BY <1>1, <1>4, AdvanceKeeps, MarksAreNotEnd DEF Open
<1>6. Len(stack) \in Nat /\ Len(stack) < NestLimit /\ stack \in Seq(FrameRec)
  <2>1. ~(Len(stack) >= NestLimit)
    BY DEF Open, AtLimit
  <2>2. stack \in Seq(FrameRec) /\ Len(stack) \in Nat
    BY <1>1, LenProperties DEF StackTypes
  <2>3. QED
    BY <2>1, <2>2, BoundsAssumption
<1>7. /\ stack' \in Seq(FrameRec) /\ Len(stack') = Len(stack) + 1
      /\ \A i \in 1..Len(stack) : stack'[i] = stack[i]
      /\ stack'[Len(stack) + 1] = c
  BY <1>3, <1>4, <1>6, AppendProperties
<1>8. StackTypes'
  BY <1>6, <1>7, BoundsAssumption DEF StackTypes
<1>9. Items' = Items
  BY <1>4 DEF Items, IsItem
<1>10. HeapInv'
  BY <1>1, <1>4, <1>9 DEF HeapInv
<1>11. RoomInv'
  <2>1. PICK n \in Nat : DOMAIN heap = 1..n /\ n <= 2 * Len(text) - 1
    BY <1>1, RoomAt DEF RoomInv, Open
  <2>2. Room' = 2 * Len(text') - 2 \/ Room' = 2 * Len(text') - 3
    BY RoomAtNext DEF Open
  <2>3. n <= Room'
    BY <1>1, <1>5, <2>1, <2>2 DEF TextInv
  <2>4. QED
    BY <1>4, <2>1, <2>3 DEF RoomInv
<1>12. StackInv'
  <2>1. ASSUME NEW i \in 1..Len(stack') PROVE FrameInv(stack[i])'
    <3>1. CASE i \in 1..Len(stack)
      <4>1. FrameInv(stack[i]) /\ stack'[i] = stack[i]
        BY <1>1, <1>7, <3>1 DEF StackInv
      <4>2. QED
        BY <1>4, <1>9, <4>1 DEF FrameInv
    <3>2. CASE i = Len(stack) + 1
      <4>1. stack'[i] = c
        BY <1>7, <3>2
      <4>2. QED
        BY <1>2, <1>3, <1>4, <1>9, <4>1 DEF FrameInv
    <3>3. QED
      BY <1>6, <1>7, <3>1, <3>2
  <2>2. ASSUME NEW i \in 1..Len(stack'), NEW j \in 1..Len(stack'), i < j
        PROVE  /\ stack'[i].item < stack'[j].item
               /\ stack'[i].current # NULL /\ stack'[i].current <= stack'[j].item
               /\ j = i + 1 => stack'[j].item = stack'[i].current
    <3>1. i \in 1..Len(stack) /\ stack'[i] = stack[i]
      BY <1>6, <1>7, <2>2
    <3>2. CASE j \in 1..Len(stack)
      BY <1>1, <1>7, <2>2, <3>1, <3>2 DEF StackInv
    <3>3. CASE j = Len(stack) + 1
      <4>1. Top = stack[Len(stack)] /\ stack # <<>> /\ Top.current = item
        BY <1>2, <1>6, <3>1 DEF Top
      <4>2. FrameInv(stack[Len(stack)]) /\ Len(stack) \in 1..Len(stack)
        BY <1>1, <1>6, <3>1 DEF StackInv
      <4>3. stack[Len(stack)].item < item /\ item # NULL /\ item \in Nat
              /\ stack[Len(stack)].item \in Nat
        BY <1>1, <1>2, <4>1, <4>2, ItemFields, BoundsAssumption DEF FrameInv, Addresses, NULL
      <4>4. CASE i = Len(stack)
        BY <1>3, <1>7, <3>1, <3>3, <4>1, <4>3, <4>4
      <4>5. CASE i < Len(stack)
        <5>1. /\ stack[i].item < stack[Len(stack)].item
              /\ stack[i].current # NULL /\ stack[i].current <= stack[Len(stack)].item
          BY <1>1, <3>1, <4>2, <4>5 DEF StackInv
        <5>2. stack[i].item \in Nat /\ stack[i].current \in Nat
          <6>1. stack[i] \in FrameRec
            BY <1>6, <3>1
          <6>2. stack[i].item \in Addresses /\ stack[i].current \in Pointers
            BY <6>1 DEF FrameRec
          <6>3. QED
            BY <6>2, BoundsAssumption DEF Addresses, Pointers, NULL
        <5>3. stack'[j].item = item /\ j # i + 1
          BY <1>3, <1>6, <1>7, <3>3, <4>5
        <5>4. QED
          BY <3>1, <4>3, <5>1, <5>2, <5>3
      <4>6. QED
        BY <1>6, <3>1, <4>4, <4>5
    <3>4. QED
      BY <1>6, <1>7, <3>2, <3>3
  <2>3. QED
    BY <2>1, <2>2 DEF StackInv
<1>13. ItemInv'
  <2>1. stack' # <<>> /\ Top' = c
    BY <1>6, <1>7 DEF Top
  <2>2. pc' \in {"close", "element"} /\ (pc' = "close" => Look' = c.closer)
    BY <1>3 DEF Open, Look
  <2>3. QED
    BY <2>1, <2>2 DEF ItemInv
<1>14. EndInv'
  <2>1. item' = NULL /\ pc' \in {"close", "element"}
    BY DEF Open
  <2>2. QED
    BY <2>1 DEF EndInv, Pointers
<1>15. OwnInv'
  <2>1. RootItem' = RootItem
    BY <1>2, <1>3, <1>6, <1>7, EmptySeq DEF RootItem
  <2>2. \A a \in Nat, f \in Links : Refs'[a][f] = Refs[a][f]
    BY <1>4, <1>9, RefCases, RefCasesNext
  <2>3. \A a \in Nat : Refs'[a]["head"] = Refs[a]["head"]
    BY <1>3, <1>6, <1>7, RefCases, RefCasesNext
  <2>4. \A a \in Nat : Refs'[a]["root"] = Refs[a]["root"]
    BY <2>1, RefCases, RefCasesNext
  <2>5. \A a \in Nat, f \in Roles : Refs'[a][f] = Refs[a][f]
    BY <2>2, <2>3, <2>4 DEF Roles
  <2>6. QED
    BY <1>1, <1>4, <2>5, SameOwners DEF OwnInv
<1>16. QED
  BY <1>5, <1>8, <1>10, <1>11, <1>12, <1>13, <1>14, <1>15 DEF IInv, WorkInv
-----------------------------------------------------------------------------
(* The steps of the loop *)

LEMMA TopFrame ==
  ASSUME StackTypes, StackInv, stack # <<>>
  PROVE  /\ Len(stack) \in Nat \ {0} /\ Len(stack) \in 1..Len(stack)
         /\ Top \in FrameRec /\ Top = stack[Len(stack)] /\ FrameInv(Top)
<1>1. Len(stack) \in Nat \ {0} /\ Top \in FrameRec /\ Top = stack[Len(stack)]
  BY PopIs
<1>2. Len(stack) \in 1..Len(stack)
  BY <1>1
<1>3. FrameInv(Top)
  BY <1>1, <1>2 DEF StackInv
<1>4. QED
  BY <1>1, <1>2, <1>3

\* What a step that attaches an item does: x is the item, n the number of addresses in
\* use before, c the frame that works on the list.
Attaches(n, x, c) ==
  /\ DOMAIN heap = 1..n /\ n <= 2 * Len(text) - 3
  /\ x = n + 1 /\ x \notin DOMAIN heap /\ x # NULL
  /\ c.item = Top.item /\ c.current = x
  /\ c.head = IF Top.head = NULL THEN x ELSE Top.head
  /\ Top.head # NULL => /\ Top.current \in Items /\ Top.current \in DOMAIN heap
                        /\ heap[Top.current].next = NULL
  /\ DOMAIN heap' = DOMAIN heap \cup {x}
  /\ \A y \in DOMAIN heap' : heap'[y] \in ItemRec \cup StrRec
  /\ Items' = Items \cup {x}
  /\ \A y \in Items, f \in Links :
       heap'[y][f] = IF Top.head # NULL /\ y = Top.current /\ f = "next" THEN x
                     ELSE heap[y][f]
  /\ \A y \in Items : heap'[y].prev = heap[y].prev /\ heap'[y].type = heap[y].type
  /\ \A y \in DOMAIN heap \ Items : heap'[y] = heap[y]
  /\ heap'[x].prev = Top.current /\ \A f \in Links : heap'[x][f] = NULL
  /\ stack' \in Seq(FrameRec) /\ Len(stack') = Len(stack)
  /\ \A i \in 1..Len(stack) : stack'[i] = IF i = Len(stack) THEN c ELSE stack[i]
  /\ text' = text /\ item' = x /\ pc' = (IF Top.closer = EndObject THEN "name" ELSE "value")
  /\ Begin(x, Top.item)

LEMMA ElementAttaches ==
  ASSUME IInv, Element, pc' # "fail"
  PROVE  \E n \in Nat, x \in Addresses, c \in FrameRec : Attaches(n, x, c)
<1> DEFINE x == Fresh
           c == [Top EXCEPT !.head = IF @ = NULL THEN x ELSE @, !.current = x]
           linked == IF Top.head = NULL THEN heap ELSE [heap EXCEPT ![Top.current].next = x]
           new == [NewItem EXCEPT !.prev = Top.current]
<1>1. /\ heap' = With(linked, x, new)
      /\ stack' = SetTop(c)
      /\ item' = x
      /\ pc' = IF Top.closer = EndObject THEN "name" ELSE "value"
      /\ Begin(x, Top.item) /\ UNCHANGED <<text, oom, deep>>
  BY DEF Element, OutOfMemory, Fail
<1>2. TextInv /\ HeapInv /\ StackTypes /\ RoomInv /\ StackInv /\ ItemInv /\ OwnInv
  BY AtWork DEF Working, Element
<1>3. stack # <<>> /\ pc = "element"
  BY <1>2 DEF ItemInv, Element
<1>4. Top \in FrameRec /\ FrameInv(Top)
  BY <1>2, <1>3, TopFrame
<1>5. PICK n \in Nat : DOMAIN heap = 1..n /\ n <= 2 * Len(text) - 3
  BY <1>2, <1>3, RoomAt DEF RoomInv
<1>6. x = n + 1 /\ x \in Addresses /\ x \notin DOMAIN heap /\ x # NULL
  <2>1. n < 2 * MaxTokens
    BY <1>2, <1>5, BoundsAssumption DEF TextInv
  <2>2. QED
    BY <1>5, <2>1, FreshIs
<1> HIDE DEF x
<1>7. /\ c \in FrameRec /\ c.item = Top.item /\ c.current = x
      /\ c.head = IF Top.head = NULL THEN x ELSE Top.head
  BY <1>4, <1>6 DEF FrameRec, Pointers
<1>8. /\ new \in ItemRec /\ new.child = NULL /\ new.next = NULL /\ new.string = NULL
      /\ new.valuestring = NULL /\ new.prev = Top.current
  BY <1>4 DEF NewItem, ItemRec, Kinds, FrameRec, Pointers
<1>9. Top.head # NULL => /\ Top.current \in Items /\ heap[Top.current] \in ItemRec
                         /\ Top.current \in DOMAIN heap
                         /\ heap[Top.current].next = NULL
  BY <1>2, <1>4, ItemFields DEF FrameInv
<1>10. /\ DOMAIN linked = DOMAIN heap
       /\ \A y \in DOMAIN heap : ~(Top.head # NULL /\ y = Top.current) => linked[y] = heap[y]
       /\ Top.head # NULL => linked[Top.current] = [heap[Top.current] EXCEPT !.next = x]
  BY <1>9
<1> HIDE DEF linked
<1>11. /\ DOMAIN heap' = DOMAIN heap \cup {x} /\ heap'[x] = new
       /\ \A y \in DOMAIN heap : ~(Top.head # NULL /\ y = Top.current) => heap'[y] = heap[y]
       /\ Top.head # NULL => heap'[Top.current] = [heap[Top.current] EXCEPT !.next = x]
  BY <1>1, <1>6, <1>9, <1>10 DEF With
<1> HIDE DEF new, c
<1>12. Top.head # NULL =>
         /\ heap'[Top.current] \in ItemRec /\ heap'[Top.current].prev = heap[Top.current].prev
         /\ heap'[Top.current].type = heap[Top.current].type
         /\ \A f \in Links : heap'[Top.current][f] = IF f = "next" THEN x ELSE heap[Top.current][f]
  BY <1>6, <1>9, <1>11 DEF ItemRec, Links, Pointers
<1>13. Items' = Items \cup {x}
  <2>1. heap'[x].type # "Chars"
    BY <1>8, <1>11 DEF ItemRec, Kinds, Words
  <2>2. Top.head # NULL => heap'[Top.current].type # "Chars"
    BY <1>12 DEF ItemRec, Kinds, Words
  <2>3. QED
    BY <1>9, <1>11, <2>1, <2>2 DEF Items, IsItem
<1>14. /\ \A y \in Items, f \in Links :
            heap'[y][f] = IF Top.head # NULL /\ y = Top.current /\ f = "next" THEN x
                          ELSE heap[y][f]
       /\ \A y \in Items : heap'[y].prev = heap[y].prev /\ heap'[y].type = heap[y].type
       /\ \A y \in DOMAIN heap \ Items : heap'[y] = heap[y]
  BY <1>9, <1>11, <1>12 DEF Items
<1>15. \A f \in Links : heap'[x][f] = NULL
  BY <1>8, <1>11 DEF Links
<1>16. \A y \in DOMAIN heap' : heap'[y] \in ItemRec \cup StrRec
  BY <1>2, <1>8, <1>11, <1>12 DEF HeapInv
<1>17. /\ stack' \in Seq(FrameRec) /\ Len(stack') = Len(stack)
       /\ \A i \in 1..Len(stack) : stack'[i] = IF i = Len(stack) THEN c ELSE stack[i]
  BY <1>1, <1>2, <1>3, <1>7, SetTopIs
<1>18. heap'[x].prev = Top.current
  BY <1>8, <1>11
<1>19. Attaches(n, x, c)
  BY <1>1, <1>5, <1>6, <1>7, <1>9, <1>11, <1>13, <1>14, <1>15, <1>16, <1>17, <1>18
  DEF Attaches
<1>20. QED
  BY <1>6, <1>7, <1>19

LEMMA ElementStep ==
  ASSUME IInv, Element
  PROVE  IInv'
<1>1. CASE pc' = "fail"
  BY <1>1, FailKeeps DEF Element, OutOfMemory, Working
<1>2. CASE pc' # "fail"
  <2>1. TextInv /\ HeapInv /\ StackTypes /\ RoomInv /\ StackInv /\ ItemInv /\ OwnInv
    BY AtWork DEF Working, Element
  <2>2. stack # <<>> /\ pc = "element"
    BY <2>1 DEF ItemInv, Element
  <2>3. /\ Len(stack) \in Nat \ {0} /\ Len(stack) \in 1..Len(stack)
        /\ Top \in FrameRec /\ Top = stack[Len(stack)] /\ FrameInv(Top)
    BY <2>1, <2>2, TopFrame
  <2>4. PICK n \in Nat, x \in Addresses, c \in FrameRec : Attaches(n, x, c)
    BY <1>2, ElementAttaches
  <2>5. /\ DOMAIN heap = 1..n /\ n <= 2 * Len(text) - 3
        /\ x = n + 1 /\ x \in Addresses /\ x \notin DOMAIN heap /\ x # NULL
    BY <2>4 DEF Attaches
  <2>6. /\ c \in FrameRec /\ c.item = Top.item /\ c.current = x
        /\ c.head = IF Top.head = NULL THEN x ELSE Top.head
    BY <2>4 DEF Attaches
  <2>8. Top.head # NULL => /\ Top.current \in Items /\ Top.current \in DOMAIN heap
                           /\ heap[Top.current].next = NULL
    BY <2>4 DEF Attaches
  <2>10. /\ DOMAIN heap' = DOMAIN heap \cup {x}
         /\ \A y \in DOMAIN heap' : heap'[y] \in ItemRec \cup StrRec
    BY <2>4 DEF Attaches
  <2>12. Items' = Items \cup {x}
    BY <2>4 DEF Attaches
  <2>13. \A y \in Items, f \in Links :
           heap'[y][f] = IF Top.head # NULL /\ y = Top.current /\ f = "next" THEN x
                         ELSE heap[y][f]
    BY <2>4 DEF Attaches
  <2>14. \A f \in Links : heap'[x][f] = NULL
    BY <2>4 DEF Attaches
  <2>15. /\ stack' \in Seq(FrameRec) /\ Len(stack') = Len(stack)
         /\ \A i \in 1..Len(stack) : stack'[i] = IF i = Len(stack) THEN c ELSE stack[i]
    BY <2>4 DEF Attaches
  <2>25. text' = text /\ item' = x /\ pc' \in {"name", "value"}
    BY <2>4 DEF Attaches
  <2>16. TextInv' /\ StackTypes'
    BY <2>1, <2>15, <2>25 DEF TextInv, Look, StackTypes
  <2>17. \A y \in Items : y < x /\ y \in Nat
    BY <2>1, <2>5, ItemFields
  <2>18. HeapInv'
    <3>2. \A y \in Items' : \A f \in Links : heap'[y][f] # NULL => y < heap'[y][f]
      BY <2>1, <2>12, <2>13, <2>14, <2>17 DEF HeapInv
    <3>3. QED
      BY <2>1, <2>5, <2>10, <3>2 DEF HeapInv
  <2>19. RoomInv'
    <3>2. n + 1 <= Room'
      BY <2>1, <2>5, <2>25, RoomAtNext DEF TextInv
    <3>3. DOMAIN heap' = 1..(n + 1)
      BY <2>5, <2>10
    <3>4. QED
      BY <3>2, <3>3 DEF RoomInv
  <2>20. StackInv'
    <3>1. ASSUME NEW i \in 1..Len(stack) PROVE FrameInv(stack[i])'
      <4>1. CASE i = Len(stack)
        <5>1. stack'[i] = c
          BY <2>15, <4>1
        <5>2. Top.item \in Items' /\ heap'[Top.item].child = NULL
          BY <2>3, <2>12, <2>13 DEF FrameInv, Links
        <5>3. x \in Items' /\ heap'[x].next = NULL
          BY <2>12, <2>14 DEF Links
        <5>4. Top.item < x /\ (Top.head # NULL => Top.item < Top.head)
          BY <2>3, <2>17 DEF FrameInv
        <5>5. c.head # NULL /\ Top.item < c.head /\ c.head \in Items'
          BY <2>3, <2>5, <2>6, <2>12, <5>3, <5>4 DEF FrameInv
        <5>6. QED
          BY <2>5, <2>6, <5>1, <5>2, <5>3, <5>4, <5>5 DEF FrameInv
      <4>2. CASE i # Len(stack)
        <5>1. stack'[i] = stack[i] /\ FrameInv(stack[i]) /\ i < Len(stack)
          BY <2>1, <2>3, <2>15, <4>2 DEF StackInv
        <5>2. stack[i].current # NULL /\ stack[i].current <= Top.item
          BY <2>1, <2>3, <5>1 DEF StackInv
        <5>3. /\ stack[i].item \in Items /\ stack[i].current \in Items
              /\ stack[i].head \in Items
          BY <5>1, <5>2 DEF FrameInv
        <5>4. Top.head # NULL => stack[i].current # Top.current
          BY <2>3, <2>17, <5>2, <5>3 DEF FrameInv
        <5>5. heap'[stack[i].item].child = NULL
          BY <2>13, <5>1, <5>3 DEF FrameInv, Links
        <5>6. heap'[stack[i].current].next = NULL
          BY <2>13, <5>1, <5>2, <5>3, <5>4 DEF FrameInv, Links
        <5>7. QED
          BY <2>12, <5>1, <5>2, <5>3, <5>5, <5>6 DEF FrameInv
      <4>3. QED
        BY <4>1, <4>2
    <3>2. ASSUME NEW i \in 1..Len(stack'), NEW j \in 1..Len(stack'), i < j
          PROVE  /\ stack'[i].item < stack'[j].item
                 /\ stack'[i].current # NULL /\ stack'[i].current <= stack'[j].item
                 /\ j = i + 1 => stack'[j].item = stack'[i].current
      <4>1. i \in 1..Len(stack) /\ j \in 1..Len(stack) /\ i # Len(stack)
        BY <2>3, <2>15, <3>2
      <4>2. stack'[i] = stack[i] /\ stack'[j].item = stack[j].item
        BY <2>3, <2>6, <2>15, <4>1
      <4>3. QED
        BY <2>1, <3>2, <4>1, <4>2 DEF StackInv
    <3>3. QED
      BY <2>15, <3>1, <3>2 DEF StackInv
  <2>21. ItemInv'
    <3>1. stack' # <<>> /\ Top' = c
      BY <2>3, <2>15, EmptySeq DEF Top
    <3>3. /\ item' \in Items' /\ heap'[item'].child = NULL /\ heap'[item'].valuestring = NULL
          /\ heap'[item'].string = NULL
      BY <2>12, <2>14, <2>25 DEF Links
    <3>4. QED
      BY <2>6, <2>25, <3>1, <3>3 DEF ItemInv
  <2>22. EndInv'
    BY <2>5, <2>25 DEF EndInv, Pointers
  <2>23. OwnInv'
    <3>1. RootItem' = RootItem
      BY <2>2, <2>3, <2>6, <2>15, EmptySeq DEF RootItem
    <3>2. "head" \in Roles /\ "next" \in Roles /\ "next" \in Links /\ "head" \notin Links
      BY DEF Roles, Links
    <3>3. \A a \in Nat, f \in Links :
            Refs'[a][f] = IF Top.head # NULL /\ a = Top.current /\ f = "next" THEN x
                          ELSE Refs[a][f]
      BY <2>5, <2>8, <2>12, <2>13, <2>14, <2>17, RefCases, RefCasesNext
    <3>4. \A a \in Nat :
            Refs'[a]["head"] = IF Top.head = NULL /\ a = Len(stack) THEN x
                               ELSE Refs[a]["head"]
      BY <2>3, <2>6, <2>15, RefCases, RefCasesNext
    <3>5. \A a \in Nat : Refs'[a]["root"] = Refs[a]["root"]
      BY <3>1, RefCases, RefCasesNext
    <3>6. CASE Top.head = NULL
      <4>1. \A a \in Nat, f \in Roles :
              Refs'[a][f] = IF a = Len(stack) /\ f = "head" THEN x ELSE Refs[a][f]
        BY <3>2, <3>3, <3>4, <3>5, <3>6 DEF Roles
      <4>2. Refs[Len(stack)]["head"] = NULL
        BY <2>3, <3>6, RefCases
      <4>3. Added(Refs, Refs', x, Len(stack), "head")
        BY <2>3, <2>5, <3>2, <4>1, <4>2 DEF Added
      <4>4. Owned(Refs', DOMAIN heap \cup {x})
        BY <2>1, <2>5, <4>3, AddOwner DEF OwnInv
      <4>5. QED
        BY <2>10, <4>4 DEF OwnInv
    <3>7. CASE Top.head # NULL
      <4>1. \A a \in Nat, f \in Roles :
              Refs'[a][f] = IF a = Top.current /\ f = "next" THEN x ELSE Refs[a][f]
        BY <3>2, <3>3, <3>4, <3>5, <3>7 DEF Roles
      <4>2. Top.current \in Nat /\ Refs[Top.current]["next"] = NULL
        BY <2>8, <2>17, <3>2, <3>7, RefCases
      <4>3. Added(Refs, Refs', x, Top.current, "next")
        BY <2>5, <3>2, <4>1, <4>2 DEF Added
      <4>4. Owned(Refs', DOMAIN heap \cup {x})
        BY <2>1, <2>5, <4>3, AddOwner DEF OwnInv
      <4>5. QED
        BY <2>10, <4>4 DEF OwnInv
    <3>8. QED
      BY <3>6, <3>7
  <2>24. QED
    BY <2>16, <2>18, <2>19, <2>20, <2>21, <2>22, <2>23 DEF IInv, WorkInv
<1>3. QED
  BY <1>1, <1>2

LEMMA NameStep ==
  ASSUME IInv, Name
  PROVE  IInv'
<1>1. CASE OutOfMemory
  BY <1>1, FailKeeps DEF Name, OutOfMemory, Working
<1>2. CASE /\ heap' = With([heap EXCEPT ![item].type = "String", ![item].string = Fresh],
                           Fresh, Str(Look))
           /\ pc' = "colon" /\ Advance
           /\ UNCHANGED <<stack, item, oom, deep>>
  <2>1. TextInv /\ HeapInv /\ StackTypes /\ RoomInv /\ StackInv /\ ItemInv /\ OwnInv
    BY AtWork DEF Working, Name
  <2>2. /\ item \in Items /\ stack # <<>> /\ item = Top.current /\ heap[item].child = NULL
        /\ heap[item].valuestring = NULL /\ heap[item].string = NULL
    BY <2>1 DEF ItemInv, Name
  <2>3. heap[item] \in ItemRec /\ item \in DOMAIN heap
    BY <2>1, <2>2, ItemFields
  <2>4. PICK n \in Nat : /\ DOMAIN heap = 1..n /\ n <= Room /\ Fresh = n + 1
                         /\ Fresh \in Addresses /\ Fresh \notin DOMAIN heap /\ Fresh # NULL
                         /\ \A y \in DOMAIN heap : y < Fresh
    BY FreshForString DEF Name
  <2> DEFINE x == Fresh
  <2>5. x \in Addresses /\ x \notin DOMAIN heap /\ x # NULL /\ x = n + 1
          /\ \A y \in DOMAIN heap : y < x
    BY <2>4
  <2>6. /\ DOMAIN heap' = DOMAIN heap \cup {x}
        /\ \A y \in DOMAIN heap : y # item => heap'[y] = heap[y]
        /\ heap'[item] = [heap[item] EXCEPT !.type = "String", !.string = x]
        /\ heap'[x] = Str(Look)
    BY <1>2, <2>3, <2>5 DEF With
  <2> HIDE DEF x
  <2>7. heap'[x] \in StrRec
    BY <2>6 DEF Str, StrRec, Name
  <2>8. /\ heap'[item] \in ItemRec
        /\ \A f \in Links : heap'[item][f] = IF f = "string" THEN x ELSE heap[item][f]
    BY <2>3, <2>5, <2>6 DEF ItemRec, Links, Kinds, Pointers
  <2>9. UNCHANGED stack /\ RootItem' = RootItem
    BY <1>2 DEF RootItem
  <2>10. HeapInv' /\ StackInv' /\ OwnInv' /\ Items' = Items
    BY <2>1, <2>2, <2>5, <2>6, <2>7, <2>8, <2>9, StringAdded
  <2>11. TextInv' /\ Len(text') = Len(text) + 1
    BY <1>2, <2>1, AdvanceKeeps, NotEnd DEF Name
  <2>12. RoomInv'
    <3>1. Room = 2 * Len(text) - 2 /\ Room' = 2 * Len(text') - 3
      BY <1>2, RoomAt, RoomAtNext DEF Name
    <3>2. n + 1 \in Nat /\ DOMAIN heap' = 1..(n + 1)
      BY <2>4, <2>5, <2>6
    <3>3. n + 1 <= Room'
      BY <2>1, <2>4, <2>11, <3>1 DEF TextInv
    <3>4. QED
      BY <3>2, <3>3 DEF RoomInv
  <2>13. ItemInv'
    <3>1. heap'[item].child = NULL /\ heap'[item].valuestring = NULL
      BY <2>2, <2>8 DEF Links
    <3>2. QED
      BY <1>2, <2>2, <2>10, <3>1 DEF ItemInv, Top
  <2>14. EndInv'
    BY <1>2 DEF IInv, EndInv
  <2>15. StackTypes'
    BY <2>1, <2>9 DEF StackTypes
  <2>16. QED
    BY <2>10, <2>11, <2>12, <2>13, <2>14, <2>15 DEF IInv, WorkInv
<1>3. QED
  BY <1>1, <1>2 DEF Name

\* Steps that change neither the heap nor the calls in progress.
LEMMA HeapUntouched ==
  ASSUME IInv, Working, Working', UNCHANGED <<heap, stack, item>>, TextInv', RoomInv', ItemInv'
  PROVE  IInv'
<1>1. HeapInv /\ StackTypes /\ StackInv /\ OwnInv /\ EndInv
  BY DEF IInv, WorkInv
<1>2. Items' = Items
  BY DEF Items, IsItem
<1>3. HeapInv' /\ StackTypes' /\ StackInv'
  BY <1>1, <1>2, FramesKept DEF HeapInv, StackTypes
<1>4. EndInv'
  BY <1>1 DEF EndInv, Working
<1>5. OwnInv'
  BY <1>1, SameRefs DEF RootItem
<1>6. QED
  BY <1>3, <1>4, <1>5 DEF IInv, WorkInv

LEMMA ColonStep ==
  ASSUME IInv, Colon
  PROVE  IInv'
<1>1. CASE Reject
  BY <1>1, FailKeeps DEF Colon, Reject, Working
<1>2. CASE Look = ":" /\ pc' = "value" /\ Advance /\ UNCHANGED <<heap, stack, item, oom, deep>>
  <2>1. TextInv /\ HeapInv /\ StackTypes /\ RoomInv /\ StackInv /\ ItemInv /\ OwnInv
    BY AtWork DEF Working, Colon
  <2>2. TextInv' /\ Len(text') = Len(text) + 1
    BY <1>2, <2>1, AdvanceKeeps
  <2>3. RoomInv'
    <3>1. PICK n \in Nat : DOMAIN heap = 1..n /\ n <= 2 * Len(text) - 3
      BY <2>1, RoomAt DEF RoomInv, Colon
    <3>2. n <= Room'
      BY <1>2, <2>1, <2>2, <3>1, RoomAtNext DEF TextInv
    <3>3. QED
      BY <1>2, <3>1, <3>2 DEF RoomInv
  <2>4. ItemInv'
    BY <1>2, <2>1 DEF ItemInv, Colon, Top, Items, IsItem
  <2>5. Working /\ Working'
    BY <1>2 DEF Working, Colon
  <2>6. QED
    BY <1>2, <2>2, <2>3, <2>4, <2>5, HeapUntouched
<1>3. QED
  BY <1>1, <1>2 DEF Colon

LEMMA AfterStep ==
  ASSUME IInv, After
  PROVE  IInv'
<1>1. TextInv /\ HeapInv /\ StackTypes /\ RoomInv /\ StackInv /\ ItemInv /\ OwnInv
  BY AtWork DEF Working, After
<1>2. PICK n \in Nat : DOMAIN heap = 1..n /\ n <= 2 * Len(text) - 2
  BY <1>1, RoomAt DEF RoomInv, After
<1>3. CASE Reject
  BY <1>3, FailKeeps DEF After, Reject, Working
<1>4. CASE stack = <<>> /\ pc' = "done" /\ UNCHANGED <<text, heap, stack, item, oom, deep>>
  <2>1. item \in Items /\ NULL \notin Items
    BY <1>1, ItemFields DEF ItemInv, After, Addresses, NULL
  <2>2. TextInv' /\ HeapInv' /\ StackTypes'
    BY <1>1, <1>4 DEF TextInv, Look, HeapInv, Items, IsItem, StackTypes
  <2>3. WorkInv'
    BY <1>4 DEF WorkInv, Working
  <2>4. EndInv'
    BY <1>4, <2>1 DEF IInv, EndInv
  <2>5. OwnInv'
    BY <1>1, <1>4, SameRefs DEF RootItem
  <2>6. QED
    BY <2>2, <2>3, <2>4, <2>5 DEF IInv
<1>5. CASE /\ stack # <<>> /\ Continues(Look) /\ pc' = "element" /\ Advance
           /\ UNCHANGED <<heap, stack, item, oom, deep>>
  <2>1. TextInv' /\ Len(text') = Len(text) + 1
    BY <1>1, <1>5, AdvanceKeeps DEF Continues, Comma
  <2>2. RoomInv'
    <3>1. n <= Room'
      BY <1>1, <1>2, <1>5, <2>1, RoomAtNext DEF TextInv
    <3>2. QED
      BY <1>2, <1>5, <3>1 DEF RoomInv
  <2>3. ItemInv'
    BY <1>5 DEF ItemInv
  <2>4. Working /\ Working'
    BY <1>5 DEF Working, After
  <2>5. QED
    BY <1>5, <2>1, <2>2, <2>3, <2>4, HeapUntouched
<1>6. CASE /\ stack # <<>> /\ EndsList(Look) /\ pc' = "close"
           /\ UNCHANGED <<text, heap, stack, item, oom, deep>>
  <2>1. TextInv'
    BY <1>1, <1>6 DEF TextInv, Look
  <2>2. RoomInv'
    <3>1. n <= Room'
      BY <1>2, <1>6, RoomAtNext
    <3>2. QED
      BY <1>2, <1>6, <3>1 DEF RoomInv
  <2>3. ItemInv'
    BY <1>6 DEF ItemInv, EndsList, Look, Top
  <2>4. Working /\ Working'
    BY <1>6 DEF Working, After
  <2>5. QED
    BY <1>6, <2>1, <2>2, <2>3, <2>4, HeapUntouched
<1>7. QED
  BY <1>3, <1>4, <1>5, <1>6 DEF After
\* What a step that closes a list does.
Closes ==
  /\ Top.item \in Items /\ heap[Top.item].child = NULL
  /\ Top.head # NULL => /\ Top.head \in Items /\ Top.item < Top.head
                        /\ Top.current \in Items /\ Top.item < Top.current
                        /\ heap[Top.current].next = NULL
  /\ DOMAIN heap' = DOMAIN heap /\ Items' = Items
  /\ \A y \in DOMAIN heap' : heap'[y] \in ItemRec \cup StrRec
  /\ \A y \in Items, f \in Links :
       heap'[y][f] = IF y = Top.item /\ f = "child" THEN Top.head ELSE heap[y][f]
  /\ \A y \in Items :
       heap'[y].prev = IF Top.head # NULL /\ y = Top.head THEN Top.current ELSE heap[y].prev
  /\ heap'[Top.item].type = IF Top.closer = EndArray THEN "Array" ELSE "Object"
  /\ \A y \in Items : y # Top.item => heap'[y].type = heap[y].type
  /\ \A y \in DOMAIN heap \ Items : heap'[y] = heap[y]
  /\ stack' \in Seq(FrameRec) /\ Len(stack') = Len(stack) - 1
  /\ \A i \in 1..Len(stack) - 1 : stack'[i] = stack[i]
  /\ item' = Top.item /\ Advance /\ pc' = "after" /\ End(Top.item)

LEMMA CloseCloses ==
  ASSUME IInv, Close
  PROVE  Closes
<1> DEFINE closed == IF Top.head = NULL THEN heap ELSE [heap EXCEPT ![Top.head].prev = Top.current]
           k == IF Top.closer = EndArray THEN "Array" ELSE "Object"
<1>1. TextInv /\ HeapInv /\ StackTypes /\ RoomInv /\ StackInv /\ ItemInv /\ OwnInv
  BY AtWork DEF Working, Close
<1>2. stack # <<>>
  BY <1>1 DEF ItemInv, Close
<1>3. Top \in FrameRec /\ FrameInv(Top)
  BY <1>1, <1>2, TopFrame
<1>4. /\ Top.item \in Items /\ heap[Top.item] \in ItemRec /\ Top.item \in DOMAIN heap
      /\ Top.item \in Addresses /\ heap[Top.item].child = NULL
  BY <1>1, <1>3, ItemFields DEF FrameInv
<1>5. /\ heap' = [closed EXCEPT ![Top.item].type = k, ![Top.item].child = Top.head]
      /\ stack' = Pop /\ item' = Top.item /\ Advance /\ pc' = "after" /\ End(Top.item)
  BY DEF Close
<1>6. k \in Kinds /\ k # "Chars"
  BY DEF Kinds
<1> HIDE DEF k
<1>7. Top.head # NULL => /\ Top.head \in Items /\ Top.item < Top.head
                         /\ Top.current \in Items /\ Top.item < Top.current
                         /\ heap[Top.current].next = NULL
  BY <1>3 DEF FrameInv
<1>8. Top.head # NULL => /\ Top.head # Top.item /\ heap[Top.head] \in ItemRec
                         /\ Top.head \in DOMAIN heap
  BY <1>1, <1>4, <1>7, ItemFields, BoundsAssumption DEF Addresses
<1>9. /\ DOMAIN closed = DOMAIN heap
      /\ \A y \in DOMAIN heap : ~(Top.head # NULL /\ y = Top.head) => closed[y] = heap[y]
      /\ Top.head # NULL => closed[Top.head] = [heap[Top.head] EXCEPT !.prev = Top.current]
  BY <1>8
<1> HIDE DEF closed
<1>10. /\ DOMAIN heap' = DOMAIN heap
       /\ heap'[Top.item] = [heap[Top.item] EXCEPT !.type = k, !.child = Top.head]
       /\ \A y \in DOMAIN heap :
            y # Top.item /\ ~(Top.head # NULL /\ y = Top.head) => heap'[y] = heap[y]
       /\ Top.head # NULL => heap'[Top.head] = [heap[Top.head] EXCEPT !.prev = Top.current]
  BY <1>4, <1>5, <1>8, <1>9
<1>11. /\ heap'[Top.item] \in ItemRec /\ heap'[Top.item].prev = heap[Top.item].prev
       /\ \A f \in Links : heap'[Top.item][f] = IF f = "child" THEN Top.head ELSE heap[Top.item][f]
  BY <1>3, <1>4, <1>6, <1>10 DEF ItemRec, Links, FrameRec
<1>12. Top.head # NULL =>
         /\ heap'[Top.head] \in ItemRec /\ heap'[Top.head].prev = Top.current
         /\ \A f \in Links : heap'[Top.head][f] = heap[Top.head][f]
  BY <1>3, <1>8, <1>10 DEF ItemRec, Links, FrameRec
<1>13. Items' = Items
  <2>1. heap'[Top.item].type # "Chars"
    BY <1>11 DEF ItemRec, Kinds, Words
  <2>2. Top.head # NULL => heap'[Top.head].type # "Chars"
    BY <1>12 DEF ItemRec, Kinds, Words
  <2>3. QED
    BY <1>4, <1>7, <1>8, <1>10, <2>1, <2>2 DEF Items, IsItem
<1>14. \A y \in Items, f \in Links :
         heap'[y][f] = IF y = Top.item /\ f = "child" THEN Top.head ELSE heap[y][f]
  BY <1>10, <1>11, <1>12 DEF Items
<1>15. \A y \in Items :
         heap'[y].prev = IF Top.head # NULL /\ y = Top.head THEN Top.current ELSE heap[y].prev
  BY <1>8, <1>10, <1>11, <1>12 DEF Items
<1>16. \A y \in DOMAIN heap' : heap'[y] \in ItemRec \cup StrRec
  BY <1>1, <1>10, <1>11, <1>12 DEF HeapInv
<1>17. /\ stack' \in Seq(FrameRec) /\ Len(stack') = Len(stack) - 1
       /\ \A i \in 1..Len(stack) - 1 : stack'[i] = stack[i]
  BY <1>1, <1>2, <1>5, PopIs
<1>18. /\ heap'[Top.item].type = IF Top.closer = EndArray THEN "Array" ELSE "Object"
       /\ \A y \in Items : y # Top.item => heap'[y].type = heap[y].type
       /\ \A y \in DOMAIN heap \ Items : heap'[y] = heap[y]
  <2>1. heap'[Top.item].type = k
    BY <1>4, <1>10 DEF ItemRec
  <2>2. Top.head # NULL => heap'[Top.head].type = heap[Top.head].type
    BY <1>8, <1>10 DEF ItemRec
  <2>3. QED
    BY <1>4, <1>7, <1>8, <1>10, <2>1, <2>2 DEF Items, k
<1>19. QED
  BY <1>4, <1>5, <1>7, <1>10, <1>13, <1>14, <1>15, <1>16, <1>17, <1>18 DEF Closes

LEMMA CloseStep ==
  ASSUME IInv, Close
  PROVE  IInv'
<1>1. TextInv /\ HeapInv /\ StackTypes /\ RoomInv /\ StackInv /\ ItemInv /\ OwnInv
  BY AtWork DEF Working, Close
<1>2. stack # <<>> /\ Look = Top.closer
  BY <1>1 DEF ItemInv, Close
<1>3. /\ Len(stack) \in Nat \ {0} /\ Len(stack) \in 1..Len(stack)
      /\ Top \in FrameRec /\ Top = stack[Len(stack)] /\ FrameInv(Top)
  BY <1>1, <1>2, TopFrame
<1>4. Top.item \in Items /\ Top.item \in Addresses /\ heap[Top.item].child = NULL
  BY <1>1, <1>3, ItemFields DEF FrameInv
<1>5. item' = Top.item /\ Advance /\ pc' = "after"
  BY CloseCloses DEF Closes
<1>9. DOMAIN heap' = DOMAIN heap /\ \A y \in DOMAIN heap' : heap'[y] \in ItemRec \cup StrRec
  BY CloseCloses DEF Closes
<1>12. Items' = Items
  BY CloseCloses DEF Closes
<1>13. \A y \in Items, f \in Links :
         heap'[y][f] = IF y = Top.item /\ f = "child" THEN Top.head ELSE heap[y][f]
  BY CloseCloses DEF Closes
<1>14. /\ stack' \in Seq(FrameRec) /\ Len(stack') = Len(stack) - 1
       /\ \A i \in 1..Len(stack) - 1 : stack'[i] = stack[i]
  BY CloseCloses DEF Closes
<1>15. TextInv' /\ Len(text') = Len(text) + 1
  BY <1>1, <1>2, <1>3, <1>5, AdvanceKeeps, MarksAreNotEnd DEF FrameRec
<1>16. StackTypes'
  BY <1>1, <1>3, <1>14, BoundsAssumption DEF StackTypes
<1>17. HeapInv'
  <2>2. Top.head # NULL => Top.item < Top.head
    BY <1>3 DEF FrameInv
  <2>3. \A y \in Items' : \A f \in Links : heap'[y][f] # NULL => y < heap'[y][f]
    BY <1>1, <1>12, <1>13, <2>2 DEF HeapInv
  <2>4. QED
    BY <1>1, <1>9, <2>3 DEF HeapInv
<1>18. RoomInv'
  <2>1. PICK n \in Nat : DOMAIN heap = 1..n /\ n <= 2 * Len(text) - 2
    BY <1>1, RoomAt DEF RoomInv, Close
  <2>2. n <= Room'
    BY <1>1, <1>5, <1>15, <2>1, RoomAtNext DEF TextInv
  <2>3. QED
    BY <1>9, <2>1, <2>2 DEF RoomInv
<1>19. StackInv'
  <2>1. ASSUME NEW i \in 1..Len(stack) - 1 PROVE FrameInv(stack[i])'
    <3>1. i \in 1..Len(stack) /\ i < Len(stack) /\ stack'[i] = stack[i]
      BY <1>3, <1>14
    <3>2. FrameInv(stack[i]) /\ stack[i].item < Top.item
      BY <1>1, <1>3, <3>1 DEF StackInv
    <3>3. stack[i].item # Top.item
      BY <1>1, <1>4, <3>2, ItemFields, BoundsAssumption DEF FrameInv, Addresses
    <3>4. heap'[stack[i].item].child = NULL
      BY <1>13, <3>2, <3>3 DEF FrameInv, Links
    <3>5. stack[i].current # NULL => heap'[stack[i].current].next = NULL
      BY <1>13, <3>2 DEF FrameInv, Links
    <3>6. QED
      BY <1>12, <3>1, <3>2, <3>4, <3>5 DEF FrameInv
  <2>2. ASSUME NEW i \in 1..Len(stack'), NEW j \in 1..Len(stack'), i < j
        PROVE  /\ stack'[i].item < stack'[j].item
               /\ stack'[i].current # NULL /\ stack'[i].current <= stack'[j].item
               /\ j = i + 1 => stack'[j].item = stack'[i].current
    <3>1. i \in 1..Len(stack) /\ j \in 1..Len(stack)
            /\ stack'[i] = stack[i] /\ stack'[j] = stack[j]
      BY <1>3, <1>14
    <3>2. QED
      BY <1>1, <2>2, <3>1 DEF StackInv
  <2>3. QED
    BY <1>14, <2>1, <2>2 DEF StackInv
<1>20. ItemInv'
  <2>1. ASSUME stack' # <<>> PROVE item' = Top'.current
    <3>1. Len(stack) - 1 \in Nat \ {0}
      BY <1>14, <2>1, EmptySeq
    <3>2. Len(stack) - 1 \in 1..Len(stack) /\ Top' = stack[Len(stack) - 1]
      BY <1>3, <1>14, <3>1 DEF Top
    <3>3. stack[Len(stack)].item = stack[Len(stack) - 1].current
      BY <1>1, <1>3, <3>1, <3>2 DEF StackInv
    <3>4. QED
      BY <1>3, <1>5, <3>2, <3>3
  <2>2. QED
    BY <1>4, <1>5, <1>12, <2>1 DEF ItemInv
<1>21. EndInv'
  BY <1>4, <1>5 DEF EndInv, Pointers
<1>22. OwnInv'
  <2>1. RootItem' = RootItem
    <3>1. CASE Len(stack) = 1
      <4>1. stack' = <<>>
        BY <1>14, <3>1, EmptySeq
      <4>2. QED
        BY <1>2, <1>3, <1>5, <3>1, <4>1 DEF RootItem
    <3>2. CASE Len(stack) # 1
      <4>1. stack' # <<>> /\ stack'[1] = stack[1]
        BY <1>3, <1>14, <3>2, EmptySeq
      <4>2. QED
        BY <1>2, <4>1 DEF RootItem
    <3>3. QED
      BY <3>1, <3>2
  <2>2. /\ Len(stack) \in Nat /\ Top.item \in Nat /\ "head" \in Roles /\ "child" \in Roles
        /\ "child" \in Links /\ "head" \notin Links
    BY <1>3, <1>4, BoundsAssumption DEF Addresses, Roles, Links
  <2>3. Refs[Len(stack)]["head"] = Top.head /\ Refs[Top.item]["child"] = NULL
    BY <1>3, <1>4, <2>2, RefCases
  <2>4. \A a \in Nat, f \in Links :
          Refs'[a][f] = IF a = Top.item /\ f = "child" THEN Top.head ELSE Refs[a][f]
    BY <1>4, <1>12, <1>13, RefCases, RefCasesNext
  <2>5. \A a \in Nat :
          Refs'[a]["head"] = IF a = Len(stack) THEN NULL ELSE Refs[a]["head"]
    <3> SUFFICES ASSUME NEW a \in Nat
                 PROVE  Refs'[a]["head"] = IF a = Len(stack) THEN NULL ELSE Refs[a]["head"]
      OBVIOUS
    <3>1. /\ Refs[a]["head"] = IF a \in 1..Len(stack) THEN stack[a].head ELSE NULL
          /\ Refs'[a]["head"] = IF a \in 1..Len(stack') THEN stack'[a].head ELSE NULL
      BY RefCases, RefCasesNext
    <3>2. a \in 1..Len(stack') <=> a \in 1..Len(stack) /\ a # Len(stack)
      BY <1>3, <1>14
    <3>3. a \in 1..Len(stack') => stack'[a] = stack[a]
      BY <1>14
    <3>4. QED
      BY <1>3, <3>1, <3>2, <3>3
  <2>6. \A a \in Nat : Refs'[a]["root"] = Refs[a]["root"]
    BY <2>1, RefCases, RefCasesNext
  <2>7. \A a \in Nat, f \in Roles :
          Refs'[a][f] = IF a = Len(stack) /\ f = "head" THEN NULL
                        ELSE IF a = Top.item /\ f = "child" THEN Refs[Len(stack)]["head"]
                        ELSE Refs[a][f]
    BY <2>2, <2>3, <2>4, <2>5, <2>6 DEF Roles
  <2>8. Owned(Refs, DOMAIN heap)
    BY <1>1 DEF OwnInv
  <2>9. Owned(Refs', DOMAIN heap)
    <3>1. Moved(Refs, Refs', Len(stack), "head", Top.item, "child")
      BY <2>2, <2>3, <2>7 DEF Moved
    <3>2. QED
      BY <2>8, <3>1, MoveOwner
  <2>10. QED
    BY <1>9, <2>9 DEF OwnInv
<1>23. QED
  BY <1>15, <1>16, <1>17, <1>18, <1>19, <1>20, <1>21, <1>22 DEF IInv, WorkInv
-----------------------------------------------------------------------------
(* Cleaning up *)

\* What cJSON_Delete frees is closed under the links, and each of it but the item it is
\* called on is owned from within.
LEMMA DeletedIs ==
  ASSUME HeapInv, OwnInv, NEW x \in DOMAIN heap \cup {NULL}, NEW E, E = Deleted(heap, x)
  PROVE  /\ E \subseteq DOMAIN heap
         /\ x # NULL => x \in E
         /\ \A y \in E : y = x \/ \E a \in E \cap Nat, f \in Links : Refs[a][f] = y
         /\ \A a \in E \cap Nat, f \in Links : Refs[a][f] \in E \cup {NULL}
<1>1. CASE x = NULL
  <2>1. E = {}
    BY <1>1 DEF Deleted
  <2>2. QED
    BY <1>1, <2>1
<1> DEFINE sets == {S \in SUBSET DOMAIN heap : x \in S /\ Closed(heap, S, Links)}
<1>2. CASE x # NULL
  <2>1. x \in DOMAIN heap /\ E = {y \in DOMAIN heap : \A S \in sets : y \in S}
    BY <1>2 DEF Deleted, Reached
  <2>2. x \in E /\ E \subseteq DOMAIN heap
    BY <2>1
  <2>3. \A y \in Items, f \in Links : heap[y][f] \in DOMAIN heap \cup {NULL} /\ y \in Nat
    <3>1. ASSUME NEW y \in Items, NEW f \in Links
          PROVE  heap[y][f] \in DOMAIN heap \cup {NULL} /\ y \in Nat
      <4>1. y \in Nat
        BY ItemFields, BoundsAssumption DEF Addresses
      <4>2. Refs[y][f] = heap[y][f] /\ f \in Roles
        BY <4>1, RefCases DEF Roles
      <4>3. QED
        BY <4>1, <4>2 DEF OwnInv, Owned
    <3>2. QED
      BY <3>1
  <2>4. Closed(heap, E, Links)
    <3>1. ASSUME NEW y \in E, IsItem(heap, y), NEW f \in Links
          PROVE  heap[y][f] \in E \cup {NULL}
      <4>1. y \in Items
        BY <2>2, <3>1 DEF Items
      <4>2. \A S \in sets : heap[y][f] \in S \cup {NULL}
        BY <2>1, <3>1 DEF Closed
      <4>3. QED
        BY <2>1, <2>3, <4>1, <4>2
    <3>2. QED
      BY <3>1 DEF Closed
  <2>5. ASSUME NEW a \in E \cap Nat, NEW f \in Links PROVE Refs[a][f] \in E \cup {NULL}
    <3>1. CASE a \in Items
      BY <2>4, <3>1, RefCases DEF Closed, Items
    <3>2. CASE a \notin Items
      BY <3>2, RefCases
    <3>3. QED
      BY <3>1, <3>2
  <2>6. ASSUME NEW y \in E, y # x, \A a \in E \cap Nat, f \in Links : Refs[a][f] # y
        PROVE  FALSE
    <3>1. Closed(heap, E \ {y}, Links)
      <4>1. ASSUME NEW z \in E \ {y}, IsItem(heap, z), NEW f \in Links
            PROVE  heap[z][f] \in (E \ {y}) \cup {NULL}
        <5>1. z \in Items
          BY <2>2, <4>1 DEF Items
        <5>2. z \in Nat /\ Refs[z][f] = heap[z][f]
          BY <2>3, <5>1, RefCases
        <5>3. QED
          BY <2>4, <2>6, <4>1, <5>2 DEF Closed
      <4>2. QED
        BY <4>1 DEF Closed
    <3>2. E \ {y} \in sets
      BY <2>2, <2>6, <3>1
    <3>3. QED
      BY <2>1, <2>6, <3>2
  <2>7. QED
    BY <2>2, <2>5, <2>6
<1>3. QED
  BY <1>1, <1>2

\* Freeing an owned item, or NULL, together with the reference that owns it.
LEMMA DeleteKeeps ==
  ASSUME HeapInv, OwnInv, NEW x \in DOMAIN heap \cup {NULL}, Delete(x),
         NEW a0 \in Nat, NEW f0 \in {"head", "root"}, Refs[a0][f0] = x,
         \A a \in Nat, f \in {"head", "root"} :
           Refs'[a][f] = IF a = a0 /\ f = f0 THEN NULL ELSE Refs[a][f]
  PROVE  HeapInv' /\ OwnInv' /\ DOMAIN heap' = DOMAIN heap \ Deleted(heap, x)
<1> DEFINE E == Deleted(heap, x)
<1>1. /\ E \subseteq DOMAIN heap
      /\ x # NULL => x \in E
      /\ \A y \in E : y = x \/ \E a \in E \cap Nat, f \in Links : Refs[a][f] = y
      /\ \A a \in E \cap Nat, f \in Links : Refs[a][f] \in E \cup {NULL}
  BY DeletedIs
<1>2. DOMAIN heap' = DOMAIN heap \ E /\ \A y \in DOMAIN heap' : heap'[y] = heap[y]
  BY DEF Delete, Without
<1> HIDE DEF E
<1>3. Items' = Items \ E
  BY <1>2 DEF Items, IsItem
<1>4. \A y \in Items', f \in Links : heap'[y][f] = heap[y][f]
  BY <1>2 DEF Items
<1>5. HeapInv'
  BY <1>2, <1>3, <1>4 DEF HeapInv
<1>6. f0 \in Roles /\ f0 \notin Links
  BY DEF Roles, Links
<1>7. \A a \in Nat, f \in Links : Refs'[a][f] = IF a \in E THEN NULL ELSE Refs[a][f]
  BY <1>3, <1>4, RefCases, RefCasesNext
<1>8. \A a \in Nat, f \in Roles :
        Refs'[a][f] = IF (a = a0 /\ f = f0) \/ (a \in E /\ f \in Links)
                      THEN NULL ELSE Refs[a][f]
  <2>1. "head" \notin Links /\ "root" \notin Links
    BY DEF Links
  <2>2. QED
    BY <1>6, <1>7, <2>1 DEF Roles
<1>9. Owned(Refs, DOMAIN heap)
  BY DEF OwnInv
<1>10. Owned(Refs', DOMAIN heap \ E)
  <2>1. Dropped(Refs, Refs', E, a0, f0)
    BY <1>1, <1>6, <1>8 DEF Dropped
  <2>2. QED
    BY <1>9, <2>1, DropOwners
<1>11. OwnInv'
  BY <1>2, <1>10 DEF OwnInv
<1>12. QED
  BY <1>2, <1>5, <1>11 DEF E

LEMMA UnwindStep ==
  ASSUME IInv, Unwind
  PROVE  IInv'
<1>1. TextInv /\ HeapInv /\ StackTypes /\ EndInv /\ OwnInv /\ pc = "fail" /\ stack # <<>>
  BY DEF IInv, Unwind
<1>2. /\ Len(stack) \in Nat \ {0} /\ Top \in FrameRec /\ Top = stack[Len(stack)]
      /\ Pop \in Seq(FrameRec) /\ Len(Pop) = Len(stack) - 1
      /\ \A i \in 1..Len(stack) - 1 : Pop[i] = stack[i]
  BY <1>1, PopIs
<1>3. stack' = Pop /\ item' = Top.item /\ Delete(Top.head) /\ UNCHANGED <<text, pc>>
  BY DEF Unwind
<1>4. Refs[Len(stack)]["head"] = Top.head /\ "head" \in Roles
  BY <1>2, RefCases DEF Roles
<1>5. Top.head \in DOMAIN heap \cup {NULL}
  BY <1>1, <1>2, <1>4 DEF OwnInv, Owned
<1>6. RootItem' = RootItem
  <2>1. CASE Len(stack) = 1
    <3>1. stack' = <<>>
      BY <1>2, <1>3, <2>1, EmptySeq
    <3>2. QED
      BY <1>1, <1>2, <1>3, <2>1, <3>1 DEF RootItem
  <2>2. CASE Len(stack) # 1
    <3>1. stack' # <<>> /\ stack'[1] = stack[1]
      BY <1>2, <1>3, <2>2, EmptySeq
    <3>2. QED
      BY <1>1, <3>1 DEF RootItem
  <2>3. QED
    BY <2>1, <2>2
<1>7. \A a \in Nat, f \in {"head", "root"} :
        Refs'[a][f] = IF a = Len(stack) /\ f = "head" THEN NULL ELSE Refs[a][f]
  <2>1. \A a \in Nat :
          Refs'[a]["head"] = IF a = Len(stack) THEN NULL ELSE Refs[a]["head"]
    BY <1>2, <1>3, RefCases, RefCasesNext
  <2>2. \A a \in Nat : Refs'[a]["root"] = Refs[a]["root"]
    BY <1>6, RefCases, RefCasesNext
  <2>3. QED
    BY <2>1, <2>2
<1>8. HeapInv' /\ OwnInv'
  BY <1>1, <1>2, <1>3, <1>4, <1>5, <1>7, DeleteKeeps
<1>9. TextInv'
  BY <1>1, <1>3 DEF TextInv, Look
<1>10. StackTypes'
  BY <1>1, <1>2, <1>3, BoundsAssumption DEF StackTypes
<1>11. WorkInv'
  BY <1>1, <1>3 DEF WorkInv, Working
<1>12. EndInv'
  <2>1. item' \in Addresses /\ item' # NULL /\ pc' = "fail"
    BY <1>1, <1>2, <1>3 DEF FrameRec, Addresses, NULL
  <2>2. QED
    BY <2>1 DEF EndInv, Pointers
<1>13. QED
  BY <1>8, <1>9, <1>10, <1>11, <1>12 DEF IInv

LEMMA LeastAddress ==
  ASSUME NEW S \in SUBSET Nat, S # {}
  PROVE  \E x \in S : \A y \in S : x <= y
<1>1. PICK x \in S : \A y \in S : <<y, x>> \notin OpToRel(<, Nat)
  BY NatLessThanWellFounded, WFMin
<1>2. \A y \in S : ~(y < x)
  BY <1>1 DEF OpToRel
<1>3. QED
  BY <1>2

\* Without a call in progress, everything allocated is reached from the root.
LEMMA AllReached ==
  ASSUME HeapInv, OwnInv, stack = <<>>, item \in DOMAIN heap \cup {NULL},
         item = NULL => DOMAIN heap = {}
  PROVE  DOMAIN heap \subseteq Deleted(heap, item)
<1> DEFINE E == Deleted(heap, item)
<1>1. /\ E \subseteq DOMAIN heap
      /\ item # NULL => item \in E
      /\ \A a \in E \cap Nat, f \in Links : Refs[a][f] \in E \cup {NULL}
  BY DeletedIs
<1> HIDE DEF E
<1>2. DOMAIN heap \subseteq Nat /\ NULL \notin DOMAIN heap
  BY BoundsAssumption DEF HeapInv, Addresses, NULL
<1>3. SUFFICES ASSUME DOMAIN heap \ E # {} PROVE FALSE
  BY DEF E
<1>4. PICK x \in DOMAIN heap \ E : \A y \in DOMAIN heap \ E : x <= y
  <2>1. DOMAIN heap \ E \in SUBSET Nat
    BY <1>2
  <2>2. QED
    BY <1>3, <2>1, LeastAddress
<1>5. PICK a \in Nat, f \in Roles : Refs[a][f] = x
  BY DEF OwnInv, Owned
<1>6. x # NULL /\ x \in Nat
  BY <1>2
<1>7. CASE f \in Links
  <2>1. a \in Items /\ heap[a][f] = x
    BY <1>5, <1>6, <1>7, RefCases
  <2>2. a \in DOMAIN heap /\ a < x
    BY <1>6, <1>7, <2>1 DEF HeapInv, Items
  <2>3. a \in E
    BY <1>2, <1>4, <1>6, <2>2
  <2>4. QED
    BY <1>1, <1>5, <1>6, <1>7, <2>3
<1>8. CASE f = "head"
  <2>1. 1..Len(stack) = {}
    BY EmptySeq
  <2>2. QED
    BY <1>5, <1>6, <1>8, <2>1, RefCases
<1>9. CASE f = "root"
  BY <1>1, <1>5, <1>6, <1>9, RefCases DEF RootItem
<1>10. QED
  BY <1>7, <1>8, <1>9 DEF Roles

LEMMA DropRoot ==
  ASSUME TextInv, HeapInv, StackTypes, OwnInv, stack = <<>>, item = NULL => DOMAIN heap = {},
         Delete(item), item' = NULL, UNCHANGED <<text, stack>>,
         pc' \in {"failed", "released"}
  PROVE  IInv'
<1>1. RootItem = item /\ RootItem' = NULL /\ NULL \in Nat
  BY DEF RootItem, NULL
<1>2. Refs[NULL]["root"] = item /\ "root" \in Roles
  BY <1>1, RefCases DEF Roles
<1>3. item \in DOMAIN heap \cup {NULL}
  BY <1>1, <1>2 DEF OwnInv, Owned
<1>4. \A a \in Nat, f \in {"head", "root"} :
        Refs'[a][f] = IF a = NULL /\ f = "root" THEN NULL ELSE Refs[a][f]
  <2>1. \A a \in Nat : Refs'[a]["head"] = Refs[a]["head"]
    BY RefCases, RefCasesNext
  <2>2. \A a \in Nat : Refs'[a]["root"] = IF a = NULL THEN NULL ELSE Refs[a]["root"]
    BY <1>1, RefCases, RefCasesNext
  <2>3. QED
    BY <2>1, <2>2
<1>5. HeapInv' /\ OwnInv' /\ DOMAIN heap' = DOMAIN heap \ Deleted(heap, item)
  BY <1>1, <1>2, <1>3, <1>4, DeleteKeeps
<1>6. DOMAIN heap' = {}
  BY <1>3, <1>5, AllReached
<1>7. TextInv' /\ StackTypes'
  BY DEF TextInv, Look, StackTypes
<1>8. WorkInv'
  BY DEF WorkInv, Working
<1>9. EndInv'
  BY <1>6 DEF EndInv, Pointers
<1>10. QED
  BY <1>5, <1>7, <1>8, <1>9 DEF IInv

LEMMA LastStep ==
  ASSUME IInv, GiveUp \/ Release
  PROVE  IInv'
<1>1. TextInv /\ HeapInv /\ StackTypes /\ EndInv /\ OwnInv
  BY DEF IInv
<1>2. CASE GiveUp
  <2>1. stack = <<>> /\ (item = NULL => DOMAIN heap = {})
    BY <1>1, <1>2 DEF GiveUp, EndInv
  <2>2. QED
    BY <1>1, <1>2, <2>1, DropRoot DEF GiveUp
<1>3. CASE Release
  <2>1. stack = <<>> /\ item # NULL
    BY <1>1, <1>3 DEF Release, EndInv
  <2>2. QED
    BY <1>1, <1>3, <2>1, DropRoot DEF Release
<1>4. QED
  BY <1>2, <1>3
-----------------------------------------------------------------------------
(* The lists *)

\* A list stays reachable when links are added.
LEMMA ReachKept ==
  ASSUME OwnInv, HeapInv, DOMAIN heap \subseteq DOMAIN heap',
         \A y \in Items : /\ y \in Items'
                          /\ heap[y].next # NULL => heap'[y].next = heap[y].next,
         NEW h \in DOMAIN heap, NEW t \in Siblings(h)
  PROVE  t \in Reached(heap', h, {"next"})
<1> DEFINE sets == {S \in SUBSET DOMAIN heap : h \in S /\ Closed(heap, S, {"next"})}
<1>1. t \in DOMAIN heap /\ \A S \in sets : t \in S
  BY DEF Siblings, Reached
<1>2. ASSUME NEW S \in SUBSET DOMAIN heap', h \in S, Closed(heap', S, {"next"})
      PROVE  t \in S
  <2>1. ASSUME NEW y \in S \cap DOMAIN heap, IsItem(heap, y)
        PROVE  heap[y]["next"] \in (S \cap DOMAIN heap) \cup {NULL}
    <3>1. y \in Items /\ y \in Nat
      BY <2>1, ItemFields, BoundsAssumption DEF Items, Addresses
    <3>2. Refs[y]["next"] = heap[y]["next"] /\ "next" \in Roles
      BY <3>1, RefCases DEF Roles, Links
    <3>3. heap[y]["next"] \in DOMAIN heap \cup {NULL}
      BY <3>1, <3>2 DEF OwnInv, Owned
    <3>4. IsItem(heap', y)
      BY <3>1 DEF Items
    <3>5. heap'[y]["next"] \in S \cup {NULL}
      BY <1>2, <2>1, <3>4 DEF Closed
    <3>6. QED
      BY <3>1, <3>3, <3>5
  <2>2. Closed(heap, S \cap DOMAIN heap, {"next"})
    BY <2>1 DEF Closed
  <2>3. S \cap DOMAIN heap \in sets
    BY <1>2, <2>2
  <2>4. QED
    BY <1>1, <2>3
<1>3. QED
  BY <1>1, <1>2 DEF Reached

\* Steps that leave the links of a list alone, but may allocate.
Quiet ==
  /\ UNCHANGED stack /\ DOMAIN heap \subseteq DOMAIN heap' /\ Items \subseteq Items'
  /\ \A y \in Items : /\ heap'[y].next = heap[y].next /\ heap'[y].prev = heap[y].prev
                      /\ heap'[y].child = heap[y].child
  /\ \A y \in Items' \ Items : heap'[y].next = NULL /\ heap'[y].child = NULL

LEMMA QuietKeeps ==
  ASSUME IInv, Working, ListsInv, Quiet
  PROVE  ListsInv'
<1>1. HeapInv /\ StackInv /\ OwnInv /\ LinksInv
  BY AtWork DEF ListsInv
<1>2. \A h \in DOMAIN heap, t \in DOMAIN heap :
        t \in Siblings(h) => t \in Reached(heap', h, {"next"})
  BY <1>1, ReachKept DEF Quiet
<1>3. Items \subseteq DOMAIN heap
  BY DEF Items
<1>4. ASSUME NEW x \in Items'
      PROVE  /\ heap'[x].next # NULL =>
                  heap'[x].next \in Items' /\ heap'[heap'[x].next].prev = x
             /\ heap'[x].child # NULL =>
                  /\ heap'[x].child \in Items'
                  /\ heap'[heap'[x].child].prev \in Items'
                  /\ heap'[heap'[x].child].prev \in Reached(heap', heap'[x].child, {"next"})
                  /\ heap'[heap'[heap'[x].child].prev].next = NULL
  <2>1. CASE x \in Items
    <3>1. heap'[x].next # NULL => heap'[x].next \in Items' /\ heap'[heap'[x].next].prev = x
      BY <1>1, <2>1 DEF LinksInv, Quiet
    <3>2. ASSUME heap'[x].child # NULL
          PROVE  /\ heap'[x].child \in Items'
                 /\ heap'[heap'[x].child].prev \in Items'
                 /\ heap'[heap'[x].child].prev \in Reached(heap', heap'[x].child, {"next"})
                 /\ heap'[heap'[heap'[x].child].prev].next = NULL
      <4> DEFINE h == heap[x].child
                 t == heap[heap[x].child].prev
      <4>1. h \in Items /\ t \in Items /\ t \in Siblings(h) /\ heap[t].next = NULL
        BY <1>1, <2>1, <3>2 DEF LinksInv, IsTail, Quiet
      <4>2. heap'[x].child = h /\ heap'[h].prev = t /\ heap'[t].next = NULL
        BY <2>1, <4>1 DEF Quiet
      <4>3. t \in Reached(heap', h, {"next"})
        BY <1>2, <1>3, <4>1
      <4> HIDE DEF h, t
      <4>4. QED
        BY <4>1, <4>2, <4>3 DEF Quiet
    <3>3. QED
      BY <3>1, <3>2
  <2>2. CASE x \notin Items
    BY <2>2 DEF Quiet
  <2>3. QED
    BY <2>1, <2>2
<1>5. LinksInv'
  BY <1>4 DEF LinksInv, IsTail, Siblings
<1>6. ASSUME NEW i \in 1..Len(stack), stack[i].current # NULL
      PROVE  /\ stack[i].current \in Reached(heap', stack[i].head, {"next"})
             /\ \A x \in Items' : heap'[x].child # NULL =>
                  heap'[heap'[x].child].prev # stack[i].current
  <2>1. /\ stack[i].current \in Siblings(stack[i].head)
        /\ \A x \in Items : heap[x].child # NULL => heap[heap[x].child].prev # stack[i].current
    BY <1>6 DEF ListsInv, ListInv
  <2>2. stack[i].head \in Items /\ stack[i].current \in Items
    BY <1>1, <1>6 DEF StackInv, FrameInv
  <2>3. stack[i].current \in Reached(heap', stack[i].head, {"next"})
    BY <1>2, <1>3, <2>1, <2>2
  <2>4. ASSUME NEW x \in Items', heap'[x].child # NULL
        PROVE  heap'[heap'[x].child].prev # stack[i].current
    <3>1. x \in Items /\ heap[x].child = heap'[x].child /\ heap[x].child \in Items
      BY <1>1, <2>4 DEF Quiet, LinksInv
    <3>2. heap'[heap[x].child].prev = heap[heap[x].child].prev
      BY <3>1 DEF Quiet
    <3>3. QED
      BY <2>1, <2>4, <3>1, <3>2
  <2>5. QED
    BY <2>3, <2>4
<1>7. \A i \in 1..Len(stack) : ListInv(stack[i])'
  BY <1>6 DEF ListInv, Siblings, Quiet
<1>8. QED
  BY <1>5, <1>7 DEF ListsInv, Quiet

LEMMA RetypedIsQuiet ==
  ASSUME HeapInv, item \in Items, NEW k \in Kinds,
         heap' = [heap EXCEPT ![item].type = k], UNCHANGED stack
  PROVE  Quiet
<1>1. heap[item] \in ItemRec /\ item \in DOMAIN heap
  BY ItemFields
<1>2. /\ DOMAIN heap' = DOMAIN heap
      /\ \A y \in DOMAIN heap : y # item => heap'[y] = heap[y]
      /\ heap'[item] = [heap[item] EXCEPT !.type = k]
  BY <1>1
<1>3. /\ heap'[item].type = k /\ k # "Chars" /\ heap'[item].next = heap[item].next
      /\ heap'[item].prev = heap[item].prev /\ heap'[item].child = heap[item].child
  BY <1>1, <1>2 DEF ItemRec, Kinds, Words
<1>4. Items' = Items
  BY <1>1, <1>2, <1>3 DEF Items, IsItem
<1>5. QED
  BY <1>2, <1>3, <1>4 DEF Quiet, Items

LEMMA StringIsQuiet ==
  ASSUME IInv, ParseString \/ Name, pc' # "fail"
  PROVE  Quiet
<1> DEFINE x == Fresh
           named == [heap[item] EXCEPT !.type = "String", !.string = x]
           valued == [heap[item] EXCEPT !.type = "String", !.valuestring = x]
<1>1. pc \in {"value", "name"} /\ Look \in Strings /\ Working
  BY DEF ParseString, Name, Working
<1>2. HeapInv /\ ItemInv
  BY <1>1, AtWork
<1>3. item \in Items
  BY <1>1, <1>2 DEF ItemInv
<1>4. heap[item] \in ItemRec /\ item \in DOMAIN heap
  BY <1>2, <1>3, ItemFields
<1>5. x \notin DOMAIN heap
  BY <1>1, FreshForString
<1>6. stack' = stack
  BY DEF ParseString, Name, OutOfMemory, Fail, Return
<1>7. \/ heap' = With([heap EXCEPT ![item].type = "String", ![item].valuestring = x], x, Str(Look))
      \/ heap' = With([heap EXCEPT ![item].type = "String", ![item].string = x], x, Str(Look))
  BY DEF ParseString, Name, OutOfMemory, Fail
<1> HIDE DEF x
<1>8. /\ DOMAIN heap' = DOMAIN heap \cup {x}
      /\ \A y \in DOMAIN heap : y # item => heap'[y] = heap[y]
      /\ heap'[item] = named \/ heap'[item] = valued
      /\ heap'[x] = Str(Look)
  BY <1>4, <1>5, <1>7 DEF With
<1>9. /\ heap'[item].type # "Chars" /\ heap'[item].next = heap[item].next
      /\ heap'[item].prev = heap[item].prev /\ heap'[item].child = heap[item].child
  BY <1>4, <1>8 DEF ItemRec
<1>10. heap'[x].type = "Chars"
  BY <1>8 DEF Str
<1>11. Items' = Items
  BY <1>3, <1>5, <1>8, <1>9, <1>10 DEF Items, IsItem
<1>12. QED
  BY <1>6, <1>8, <1>9, <1>11 DEF Quiet, Items

LEMMA RootIsQuiet ==
  ASSUME IInv, NewRoot, pc' # "fail"
  PROVE  Quiet
<1>1. HeapInv /\ RoomInv
  BY AtWork DEF Working, NewRoot
<1>2. DOMAIN heap = {} /\ Items = {}
  BY <1>1, RoomAt DEF NewRoot, RoomInv, Items
<1>3. heap' = With(heap, Fresh, NewItem) /\ stack' = stack
  BY DEF NewRoot, OutOfMemory, Fail
<1>4. DOMAIN heap' = {Fresh} /\ heap'[Fresh] = NewItem
  BY <1>2, <1>3 DEF With
<1>5. QED
  BY <1>2, <1>3, <1>4 DEF Quiet, Items, NewItem

\* Steps that change neither the items nor the calls in progress.
LEMMA ListsUntouched ==
  ASSUME ListsInv, UNCHANGED <<heap, stack>>, Working' => Working,
         Working' \/ pc' = "done" => Working \/ pc = "done"
  PROVE  ListsInv'
<1>1. Items' = Items
  BY DEF Items, IsItem
<1>2. LinksInv => LinksInv'
  BY <1>1 DEF LinksInv, IsTail, Siblings
<1>3. ASSUME NEW i \in 1..Len(stack), ListInv(stack[i]) PROVE ListInv(stack[i])'
  BY <1>1, <1>3 DEF ListInv, Siblings
<1>4. QED
  BY <1>2, <1>3 DEF ListsInv

LEMMA OpenLists ==
  ASSUME IInv, ListsInv, NEW opener \in Openers, Open(opener)
  PROVE  ListsInv'
<1>1. StackTypes /\ LinksInv
  BY AtWork DEF ListsInv, Open, Working
<1>2. Len(stack) \in Nat /\ stack \in Seq(FrameRec)
  BY <1>1, LenProperties DEF StackTypes
<1> DEFINE c == [item |-> item, head |-> NULL, current |-> NULL, closer |-> Closer(opener)]
<1>3. stack' = Append(stack, c) /\ heap' = heap /\ c.current = NULL
  BY DEF Open
<1> HIDE DEF c
<1>4. /\ Len(stack') = Len(stack) + 1
      /\ \A i \in 1..Len(stack) : stack'[i] = stack[i]
      /\ stack'[Len(stack) + 1] = c
  BY <1>2, <1>3
<1>5. Items' = Items
  BY <1>3 DEF Items, IsItem
<1>6. LinksInv'
  BY <1>1, <1>3, <1>5 DEF LinksInv, IsTail, Siblings
<1>7. ASSUME NEW i \in 1..(Len(stack) + 1) PROVE ListInv(stack[i])'
  <2>1. CASE i \in 1..Len(stack)
    <3>1. ListInv(stack[i]) /\ stack'[i] = stack[i]
      BY <1>4, <2>1 DEF ListsInv, Open, Working
    <3>2. QED
      BY <1>3, <1>5, <3>1 DEF ListInv, Siblings
  <2>2. CASE i = Len(stack) + 1
    BY <1>3, <1>4, <2>2 DEF ListInv
  <2>3. QED
    BY <1>2, <2>1, <2>2
<1>8. QED
  BY <1>4, <1>6, <1>7 DEF ListsInv

LEMMA ElementLists ==
  ASSUME IInv, ListsInv, Element, pc' # "fail"
  PROVE  ListsInv'
<1>1. TextInv /\ HeapInv /\ StackTypes /\ StackInv /\ ItemInv /\ OwnInv
  BY AtWork DEF Working, Element
<1>2. stack # <<>> /\ LinksInv /\ \A i \in 1..Len(stack) : ListInv(stack[i])
  BY <1>1 DEF ItemInv, Element, ListsInv, Working
<1>3. /\ Len(stack) \in Nat \ {0} /\ Len(stack) \in 1..Len(stack)
      /\ Top \in FrameRec /\ Top = stack[Len(stack)] /\ FrameInv(Top) /\ ListInv(Top)
  BY <1>1, <1>2, TopFrame
<1>4. PICK n \in Nat, x \in Addresses, c \in FrameRec : Attaches(n, x, c)
  BY ElementAttaches
<1>5. /\ x \notin DOMAIN heap /\ x # NULL /\ c.item = Top.item /\ c.current = x
      /\ c.head = IF Top.head = NULL THEN x ELSE Top.head
      /\ Top.head # NULL => Top.current \in Items /\ heap[Top.current].next = NULL
      /\ DOMAIN heap' = DOMAIN heap \cup {x} /\ Items' = Items \cup {x}
  BY <1>4 DEF Attaches
<1>6. /\ \A y \in Items : /\ heap'[y].child = heap[y].child
                          /\ heap'[y].next = IF Top.head # NULL /\ y = Top.current THEN x
                                             ELSE heap[y].next
                          /\ heap'[y].prev = heap[y].prev
      /\ heap'[x].prev = Top.current /\ heap'[x].next = NULL /\ heap'[x].child = NULL
  BY <1>4 DEF Attaches, Links
<1>7. /\ Len(stack') = Len(stack)
      /\ \A i \in 1..Len(stack) : stack'[i] = IF i = Len(stack) THEN c ELSE stack[i]
  BY <1>4 DEF Attaches
<1>8. x \notin Items /\ Items \subseteq DOMAIN heap
  BY <1>5 DEF Items
<1>9. \A h \in DOMAIN heap, t \in DOMAIN heap :
        t \in Siblings(h) => t \in Reached(heap', h, {"next"})
  <2>1. \A y \in Items : /\ y \in Items'
                         /\ heap[y].next # NULL => heap'[y].next = heap[y].next
    BY <1>5, <1>6
  <2>2. QED
    BY <1>1, <1>5, <2>1, ReachKept
<1>10. \A y \in Items : heap[y].child # NULL => heap[heap[y].child].prev # Top.current
  <2>1. CASE Top.current = NULL
    BY <1>1, <1>2, <1>8, <2>1 DEF LinksInv, IsTail, HeapInv, Addresses, NULL
  <2>2. CASE Top.current # NULL
    BY <1>3, <2>2 DEF ListInv
  <2>3. QED
    BY <2>1, <2>2
<1>11. ASSUME NEW y \in Items'
       PROVE  /\ heap'[y].next # NULL =>
                   heap'[y].next \in Items' /\ heap'[heap'[y].next].prev = y
              /\ heap'[y].child # NULL =>
                   /\ heap'[y].child \in Items'
                   /\ heap'[heap'[y].child].prev \in Items'
                   /\ heap'[heap'[y].child].prev \in Reached(heap', heap'[y].child, {"next"})
                   /\ heap'[heap'[heap'[y].child].prev].next = NULL
  <2>1. CASE y = x
    BY <1>6, <2>1
  <2>2. CASE y \in Items
    <3>1. ASSUME heap'[y].next # NULL
          PROVE  heap'[y].next \in Items' /\ heap'[heap'[y].next].prev = y
      <4>1. CASE Top.head # NULL /\ y = Top.current
        BY <1>5, <1>6, <2>2, <4>1
      <4>2. CASE ~(Top.head # NULL /\ y = Top.current)
        <5>1. heap'[y].next = heap[y].next /\ heap[y].next \in Items
                /\ heap[heap[y].next].prev = y
          BY <1>2, <1>6, <2>2, <3>1, <4>2 DEF LinksInv
        <5>2. QED
          BY <1>5, <1>6, <5>1
      <4>3. QED
        BY <4>1, <4>2
    <3>2. ASSUME heap'[y].child # NULL
          PROVE  /\ heap'[y].child \in Items'
                 /\ heap'[heap'[y].child].prev \in Items'
                 /\ heap'[heap'[y].child].prev \in Reached(heap', heap'[y].child, {"next"})
                 /\ heap'[heap'[heap'[y].child].prev].next = NULL
      <4> DEFINE h == heap[y].child
                 t == heap[heap[y].child].prev
      <4>1. heap[y].child # NULL /\ heap'[y].child = h
        BY <1>6, <2>2, <3>2
      <4>2. h \in Items /\ t \in Items /\ t \in Siblings(h) /\ heap[t].next = NULL
        BY <1>2, <2>2, <4>1 DEF LinksInv, IsTail
      <4>3. t # Top.current
        BY <1>10, <2>2, <4>1
      <4> HIDE DEF t
      <4>4. heap'[h].prev = t
        BY <1>6, <4>2 DEF t
      <4> HIDE DEF h
      <4>5. heap'[t].next = NULL
        BY <1>6, <4>2, <4>3
      <4>6. t \in Reached(heap', h, {"next"})
        BY <1>8, <1>9, <4>2
      <4>7. QED
        BY <1>5, <4>1, <4>2, <4>4, <4>5, <4>6
    <3>3. QED
      BY <3>1, <3>2
  <2>3. QED
    BY <1>5, <2>1, <2>2
<1>12. LinksInv'
  BY <1>11 DEF LinksInv, IsTail, Siblings
<1>13. \A y \in Items' : heap'[y].child # NULL =>
         /\ y \in Items /\ heap[y].child # NULL
         /\ heap'[heap'[y].child].prev = heap[heap[y].child].prev
         /\ heap[heap[y].child].prev \in Items
  <2>1. ASSUME NEW y \in Items', heap'[y].child # NULL
        PROVE  /\ y \in Items /\ heap[y].child # NULL
               /\ heap'[heap'[y].child].prev = heap[heap[y].child].prev
               /\ heap[heap[y].child].prev \in Items
    <3>1. y \in Items /\ heap'[y].child = heap[y].child
      BY <1>5, <1>6, <2>1
    <3>2. heap[y].child \in Items /\ heap[heap[y].child].prev \in Items
      BY <1>2, <2>1, <3>1 DEF LinksInv, IsTail
    <3>3. QED
      BY <1>6, <2>1, <3>1, <3>2
  <2>2. QED
    BY <2>1
<1>14. ASSUME NEW i \in 1..Len(stack), stack'[i].current # NULL
       PROVE  /\ stack'[i].current \in Reached(heap', stack'[i].head, {"next"})
              /\ \A y \in Items' : heap'[y].child # NULL =>
                   heap'[heap'[y].child].prev # stack'[i].current
  <2>1. CASE i = Len(stack)
    <3>1. stack'[i] = c /\ x \in DOMAIN heap'
      BY <1>5, <1>7, <2>1
    <3>2. x \in Reached(heap', c.head, {"next"})
      <4>1. CASE Top.head = NULL
        BY <1>5, <3>1, <4>1 DEF Reached
      <4>2. CASE Top.head # NULL
        <5>1. /\ Top.current \in Siblings(Top.head) /\ Top.head \in Items
              /\ Top.current \in Items
          BY <1>3, <4>2 DEF FrameInv, ListInv
        <5>2. Top.current \in Reached(heap', Top.head, {"next"})
          BY <1>8, <1>9, <5>1
        <5>3. IsItem(heap', Top.current) /\ heap'[Top.current]["next"] = x
          BY <1>5, <1>6, <4>2, <5>1 DEF Items
        <5>4. ASSUME NEW S \in SUBSET DOMAIN heap', Top.head \in S, Closed(heap', S, {"next"})
              PROVE  x \in S
          <6>1. Top.current \in S
            BY <5>2, <5>4 DEF Reached
          <6>2. heap'[Top.current]["next"] \in S \cup {NULL}
            BY <5>3, <5>4, <6>1 DEF Closed
          <6>3. QED
            BY <1>5, <5>3, <6>2
        <5>5. QED
          BY <1>5, <3>1, <4>2, <5>4 DEF Reached
      <4>3. QED
        BY <4>1, <4>2
    <3>3. QED
      BY <1>5, <1>8, <1>13, <3>1, <3>2
  <2>2. CASE i # Len(stack)
    <3>1. stack'[i] = stack[i] /\ stack[i].current # NULL
      BY <1>7, <1>14, <2>2
    <3>2. /\ stack[i].head \in Items /\ stack[i].current \in Items
          /\ stack[i].current \in Siblings(stack[i].head)
          /\ \A y \in Items : heap[y].child # NULL => heap[heap[y].child].prev # stack[i].current
      BY <1>1, <1>2, <3>1 DEF StackInv, FrameInv, ListInv
    <3>3. stack[i].current \in Reached(heap', stack[i].head, {"next"})
      BY <1>8, <1>9, <3>2
    <3>4. QED
      BY <1>13, <3>1, <3>2, <3>3
  <2>3. QED
    BY <2>1, <2>2
<1>15. \A i \in 1..Len(stack) : ListInv(stack[i])'
  BY <1>14 DEF ListInv, Siblings
<1>16. QED
  BY <1>7, <1>12, <1>15 DEF ListsInv

LEMMA CloseLists ==
  ASSUME IInv, ListsInv, Close
  PROVE  ListsInv'
<1>1. TextInv /\ HeapInv /\ StackTypes /\ StackInv /\ ItemInv /\ OwnInv
  BY AtWork DEF Working, Close
<1>2. stack # <<>> /\ LinksInv /\ \A i \in 1..Len(stack) : ListInv(stack[i])
  BY <1>1 DEF ItemInv, Close, ListsInv, Working
<1>3. /\ Len(stack) \in Nat \ {0} /\ Len(stack) \in 1..Len(stack)
      /\ Top \in FrameRec /\ Top = stack[Len(stack)] /\ FrameInv(Top) /\ ListInv(Top)
  BY <1>1, <1>2, TopFrame
<1>4. /\ Top.item \in Items
      /\ Top.head # NULL => /\ Top.head \in Items /\ Top.current \in Items
                            /\ Top.item < Top.current /\ heap[Top.current].next = NULL
      /\ DOMAIN heap' = DOMAIN heap /\ Items' = Items
  BY CloseCloses DEF Closes
<1>5. \A y \in Items :
        /\ heap'[y].child = IF y = Top.item THEN Top.head ELSE heap[y].child
        /\ heap'[y].next = heap[y].next
        /\ heap'[y].prev = IF Top.head # NULL /\ y = Top.head THEN Top.current ELSE heap[y].prev
  BY CloseCloses DEF Closes, Links
<1>6. /\ Len(stack') = Len(stack) - 1
      /\ \A i \in 1..Len(stack) - 1 : stack'[i] = stack[i]
  BY CloseCloses DEF Closes
<1>7. Items \subseteq DOMAIN heap /\ Items \subseteq Nat
  BY <1>1, BoundsAssumption DEF Items, HeapInv, Addresses
<1>8. \A h \in DOMAIN heap, t \in DOMAIN heap :
        t \in Siblings(h) => t \in Reached(heap', h, {"next"})
  BY <1>1, <1>4, <1>5, ReachKept
\* The head of the list that is being closed belongs to the call, not to an item.
<1>9. ASSUME NEW y \in Items, Top.head # NULL
      PROVE  heap[y].next # Top.head /\ heap[y].child # Top.head
  <2>1. y \in Nat /\ Len(stack) \in Nat /\ Refs[Len(stack)]["head"] = Top.head
    BY <1>3, <1>7, RefCases
  <2>2. Refs[y]["next"] = heap[y]["next"] /\ Refs[y]["child"] = heap[y]["child"]
    BY <2>1, RefCases DEF Links
  <2>3. "head" \in Roles /\ "next" \in Roles /\ "child" \in Roles
    BY DEF Roles, Links
  <2>4. Refs[y]["next"] # Top.head /\ Refs[y]["child"] # Top.head
    BY <1>1, <1>9, <2>1, <2>3 DEF OwnInv, Owned
  <2>5. QED
    BY <2>2, <2>4
<1>10. ASSUME NEW y \in Items, y # Top.item, heap[y].child # NULL
       PROVE  /\ heap'[y].child = heap[y].child /\ heap[y].child \in Items
              /\ heap'[heap[y].child].prev = heap[heap[y].child].prev
  BY <1>2, <1>5, <1>9, <1>10 DEF LinksInv
<1>11. ASSUME NEW y \in Items
       PROVE  /\ heap'[y].next # NULL =>
                   heap'[y].next \in Items /\ heap'[heap'[y].next].prev = y
              /\ heap'[y].child # NULL =>
                   /\ heap'[y].child \in Items
                   /\ heap'[heap'[y].child].prev \in Items
                   /\ heap'[heap'[y].child].prev \in Reached(heap', heap'[y].child, {"next"})
                   /\ heap'[heap'[heap'[y].child].prev].next = NULL
  <2>1. heap'[y].next # NULL => heap'[y].next \in Items /\ heap'[heap'[y].next].prev = y
    BY <1>2, <1>5, <1>9 DEF LinksInv
  <2>2. CASE y = Top.item
    <3>1. ASSUME Top.head # NULL
          PROVE  Top.current \in Reached(heap', Top.head, {"next"})
      <4>1. Top.current \in Siblings(Top.head)
        BY <1>3, <3>1 DEF ListInv, FrameInv
      <4>2. QED
        BY <1>4, <1>7, <1>8, <3>1, <4>1
    <3>2. QED
      BY <1>4, <1>5, <2>1, <2>2, <3>1
  <2>3. CASE y # Top.item
    <3>1. ASSUME heap'[y].child # NULL
          PROVE  /\ heap'[y].child \in Items
                 /\ heap'[heap'[y].child].prev \in Items
                 /\ heap'[heap'[y].child].prev \in Reached(heap', heap'[y].child, {"next"})
                 /\ heap'[heap'[heap'[y].child].prev].next = NULL
      <4> DEFINE h == heap[y].child
                 t == heap[heap[y].child].prev
      <4>1. heap[y].child # NULL
        BY <1>5, <2>3, <3>1
      <4>2. heap'[y].child = h /\ heap'[h].prev = t
        BY <1>10, <2>3, <4>1
      <4>3. h \in Items /\ t \in Items /\ t \in Siblings(h) /\ heap[t].next = NULL
        BY <1>2, <4>1 DEF LinksInv, IsTail
      <4> HIDE DEF h, t
      <4>4. t \in Reached(heap', h, {"next"}) /\ heap'[t].next = NULL
        BY <1>5, <1>7, <1>8, <4>3
      <4>5. QED
        BY <4>2, <4>3, <4>4
    <3>2. QED
      BY <2>1, <3>1
  <2>4. QED
    BY <2>2, <2>3
<1>12. LinksInv'
  BY <1>4, <1>11 DEF LinksInv, IsTail, Siblings
<1>13. ASSUME NEW i \in 1..Len(stack) - 1, stack[i].current # NULL
       PROVE  /\ stack[i].current \in Reached(heap', stack[i].head, {"next"})
              /\ \A y \in Items : heap'[y].child # NULL =>
                   heap'[heap'[y].child].prev # stack[i].current
  <2>1. i \in 1..Len(stack) /\ i < Len(stack)
    BY <1>3
  <2>2. /\ stack[i].head \in Items /\ stack[i].current \in Items
        /\ stack[i].current \in Siblings(stack[i].head)
        /\ \A y \in Items : heap[y].child # NULL => heap[heap[y].child].prev # stack[i].current
    BY <1>1, <1>2, <1>13, <2>1 DEF StackInv, FrameInv, ListInv
  <2>3. stack[i].current <= Top.item
    BY <1>1, <1>3, <2>1 DEF StackInv
  <2>4. stack[i].current \in Reached(heap', stack[i].head, {"next"})
    BY <1>7, <1>8, <2>2
  <2>5. ASSUME NEW y \in Items, heap'[y].child # NULL
        PROVE  heap'[heap'[y].child].prev # stack[i].current
    <3>1. CASE y = Top.item
      <4>1. Top.head # NULL /\ heap'[y].child = Top.head /\ heap'[Top.head].prev = Top.current
        BY <1>4, <1>5, <2>5, <3>1
      <4>2. QED
        BY <1>4, <1>7, <2>2, <2>3, <4>1
    <3>2. CASE y # Top.item
      BY <1>5, <1>10, <2>2, <2>5, <3>2
    <3>3. QED
      BY <3>1, <3>2
  <2>6. QED
    BY <2>4, <2>5
<1>14. \A i \in 1..Len(stack) - 1 : ListInv(stack[i])'
  BY <1>4, <1>6, <1>13 DEF ListInv, Siblings
<1>15. QED
  BY <1>6, <1>12, <1>14 DEF ListsInv

LEMMA StepLists == IInv /\ ListsInv /\ [Next]_vars => ListsInv'
<1> SUFFICES ASSUME IInv, ListsInv, [Next]_vars PROVE ListsInv'
  OBVIOUS
<1>1. CASE pc' \in {"fail", "failed", "released"}
  BY <1>1 DEF ListsInv, Working
<1>2. CASE pc' \notin {"fail", "failed", "released"}
  <2>1. CASE NewRoot \/ ParseString \/ Name
    BY <1>2, <2>1, RootIsQuiet, StringIsQuiet, QuietKeeps
    DEF NewRoot, ParseString, Name, Working
  <2>2. CASE ParseWord \/ ParseNumber
    <3>1. Working /\ HeapInv /\ item \in Items
      BY <2>2, AtWork DEF ParseWord, ParseNumber, Working, ItemInv
    <3>2. PICK k \in Kinds : heap' = [heap EXCEPT ![item].type = k] /\ stack' = stack
      BY <1>2, <2>2 DEF ParseWord, ParseNumber, Kinds, Return, OutOfMemory, Fail
    <3>3. QED
      BY <3>1, <3>2, RetypedIsQuiet, QuietKeeps
  <2>3. CASE ParseNothing \/ TooDeep \/ NoName
    BY <1>2, <2>3 DEF ParseNothing, TooDeep, NoName, Reject, OutOfMemory, Fail
  <2>4. CASE OpenArray \/ OpenObject
    BY <2>4, OpenLists DEF OpenArray, OpenObject, Openers
  <2>5. CASE Element
    BY <1>2, <2>5, ElementLists
  <2>6. CASE Colon \/ After
    <3>1. UNCHANGED <<heap, stack>> /\ Working
      BY <1>2, <2>6 DEF Colon, After, Reject, Fail, Working
    <3>2. QED
      BY <3>1, ListsUntouched
  <2>7. CASE Close
    BY <2>7, CloseLists
  <2>8. CASE Unwind \/ GiveUp \/ Release
    BY <1>2, <2>8 DEF Unwind, GiveUp, Release
  <2>9. CASE UNCHANGED vars
    <3>1. UNCHANGED <<heap, stack>> /\ (Working' <=> Working) /\ pc' = pc
      BY <2>9 DEF vars, Working
    <3>2. QED
      BY <3>1, ListsUntouched
  <2>10. QED
    BY <2>1, <2>2, <2>3, <2>4, <2>5, <2>6, <2>7, <2>8, <2>9 DEF Next
<1>3. QED
  BY <1>1, <1>2

LEMMA InitLists == Init => ListsInv
<1> SUFFICES ASSUME Init PROVE ListsInv
  OBVIOUS
<1>1. Items = {} /\ 1..Len(stack) = {}
  BY EmptySeq DEF Init, Items
<1>2. QED
  BY <1>1 DEF ListsInv, LinksInv

LEMMA ListsInvLinked == ListsInv => ListsLinked
BY DEF ListsInv, LinksInv, IsTail, ListsLinked
-----------------------------------------------------------------------------
(* Places: what a step keeps *)

LEMMA FrameOf ==
  ASSUME IInv, Working, NEW c \in Frames
  PROVE  c \in FrameRec /\ FrameInv(c)
BY AtWork DEF Frames, StackInv, StackTypes

\* The item that is parsed is no frame's.
LEMMA AtNoFrame ==
  ASSUME IInv, Working, pc \in {"value", "name", "colon", "after"}
  PROVE  item \in Items /\ item \notin FrameItems
<1>1. TextInv /\ HeapInv /\ StackTypes /\ RoomInv /\ StackInv /\ ItemInv /\ OwnInv
  BY AtWork
<1>2. item \in Items /\ (stack # <<>> => item = Top.current)
  BY <1>1 DEF ItemInv
<1>3. ASSUME NEW i \in 1..Len(stack) PROVE stack[i].item # item
  <2>1. /\ Len(stack) \in Nat \ {0} /\ Len(stack) \in 1..Len(stack)
        /\ Top \in FrameRec /\ Top = stack[Len(stack)] /\ FrameInv(Top)
    BY <1>1, <1>3, TopFrame, EmptySeq
  <2>2. item = Top.current /\ Top.item < item
    <3>1. stack # <<>>
      BY <2>1, EmptySeq
    <3>2. item # NULL
      BY <1>1, <1>2, ItemFields DEF Addresses, NULL
    <3>3. QED
      BY <1>2, <2>1, <3>1, <3>2 DEF FrameInv
  <2>3. Top.item \in Items /\ stack[i].item \in Items
    BY <1>1, <2>1 DEF StackInv, FrameInv
  <2>4. Top.item \in Nat /\ stack[i].item \in Nat /\ item \in Nat
    BY <1>1, <1>2, <2>3, ItemFields, BoundsAssumption DEF Addresses
  <2>5. i = Len(stack) \/ stack[i].item < Top.item
    BY <1>1, <2>1 DEF StackInv
  <2>6. QED
    BY <2>1, <2>2, <2>4, <2>5
<1>4. QED
  BY <1>2, <1>3 DEF FrameItems, Frames

\* A step that may work on the item at hand, but on no other, and adds no item.
Kept ==
  /\ item \in Items /\ Items' = Items
  /\ Len(text') \in {Len(text), Len(text) + 1}
  /\ \A i \in 1..Len(text) : text'[i] = text[i]
  /\ \A y \in DOMAIN heap \ Items : y \in DOMAIN heap' /\ heap'[y] = heap[y]
  /\ \A x \in Items :
       /\ heap'[x].child = heap[x].child /\ heap'[x].next = heap[x].next
       /\ x \in DOMAIN place' /\ place'[x] \in PlaceRec
       /\ place'[x].in = place[x].in /\ place'[x].from = place[x].from
       /\ x # item => /\ heap'[x].type = heap[x].type /\ heap'[x].string = heap[x].string
                      /\ heap'[x].valuestring = heap[x].valuestring
                      /\ place'[x].to = place[x].to
  /\ place'[item].to = place[item].to \/ (AtItem(item) /\ place'[item].to # 0)
  /\ place'[item].to < Len(text')
  /\ heap'[item].string = heap[item].string
       \/ (Unnamed(item) /\ place[item].in # NULL /\ heap'[item].string # NULL
             /\ text[ValueAt(place[item].in)] = BeginObject)
  /\ pc \in {"value", "name", "colon", "after"} /\ pc' # "name"
  /\ pc = "name" => heap'[item].string # heap[item].string
  /\ FrameItems \subseteq FrameItems' /\ RootItem' = RootItem

LEMMA PlaceAt ==
  ASSUME PlaceTypes, TextInv, NEW x \in Items
  PROVE  /\ Len(text) \in Nat \ {0} /\ place[x].in \in Pointers
         /\ place[x].from \in 1..Len(text) /\ place[x].to \in 0..(Len(text) - 1)
         /\ ValueAt(x) \in {place[x].from, place[x].from + 2} /\ ValueAt(x) \in Nat \ {0}
<1>1. Len(text) \in Nat \ {0}
  BY DEF TextInv
<1>2. place[x] \in PlaceRec /\ place[x].from <= Len(text) /\ place[x].to < Len(text)
  BY DEF PlaceTypes
<1>3. place[x].in \in Pointers /\ place[x].from \in Nat \ {0} /\ place[x].to \in Nat
  BY <1>2 DEF PlaceRec
<1>4. QED
  BY <1>1, <1>2, <1>3 DEF ValueAt

\* Where values begin does not change, but for the item that gets its name.
LEMMA ValueKept ==
  ASSUME Kept, NEW x \in Items, x # item \/ ~Unnamed(item)
  PROVE  ValueAt(x)' = ValueAt(x)
BY DEF Kept, ValueAt, Unnamed

LEMMA KeptTypes ==
  ASSUME Kept, PlaceTypes, TextInv
  PROVE  PlaceTypes'
BY DEF Kept, PlaceTypes, PlaceRec, TextInv

LEMMA KeptParents ==
  ASSUME IInv, Working, Kept, PlaceTypes, TextInv, OpenInv, ParentsInv
  PROVE  ParentsInv'
<1>1. ASSUME NEW x \in Items, place[x].in = NULL
      PROVE  x = RootItem' /\ place'[x].from = 1 /\ heap'[x].string = NULL
  BY <1>1 DEF ParentsInv, Kept
<1>2. ASSUME NEW x \in Items, NEW p, p = place[x].in, p # NULL
      PROVE  /\ p \in Items' /\ p < x
             /\ Ended(p)' \/ p \in FrameItems'
             /\ ValueAt(p)' < place'[x].from /\ text'[ValueAt(p)'] \in Openers
             /\ heap'[x].string # NULL <=> text'[ValueAt(p)'] = BeginObject
  <2>1. /\ p \in Items /\ p < x /\ (Ended(p) \/ p \in FrameItems)
        /\ ValueAt(p) < place[x].from /\ text[ValueAt(p)] \in Openers
        /\ ~Unnamed(x) => (heap[x].string # NULL <=> text[ValueAt(p)] = BeginObject)
    BY <1>2 DEF ParentsInv
  <2>2. Unnamed(item) => p # item
    BY <2>1, AtNoFrame DEF OpenInv, AtItem, Unnamed, Kept
  <2>3. ValueAt(p)' = ValueAt(p)
    BY <2>1, <2>2, ValueKept
  <2>4. ValueAt(p) \in 1..Len(text)
    BY <2>1, <1>2 DEF PlaceTypes, PlaceRec, ValueAt, TextInv
  <2>5. text'[ValueAt(p)] = text[ValueAt(p)]
    BY <2>4 DEF Kept
  <2>6. Ended(p)' \/ p \in FrameItems'
    BY <2>1 DEF Kept, Ended
  <2>7. heap'[x].string # NULL <=> text[ValueAt(p)] = BeginObject
    BY <1>2, <2>1 DEF Kept, Unnamed
  <2>8. QED
    BY <1>2, <2>1, <2>3, <2>5, <2>6, <2>7 DEF Kept
<1>3. QED
  BY <1>1, <1>2 DEF ParentsInv, Kept

LEMMA KeptNext ==
  ASSUME Kept, PlaceTypes, TextInv, OpenInv, NextInv
  PROVE  NextInv'
<1>1. ASSUME NEW x \in Items PROVE NextPlace(x)'
  <2>1. heap'[x].next = heap[x].next /\ place'[x].in = place[x].in /\ Items' = Items
    BY DEF Kept
  <2>2. CASE heap[x].next # NULL
    <3>1. /\ heap[x].next \in Items /\ Ended(x) /\ text[place[x].to + 1] = Comma
          /\ place[heap[x].next].from = place[x].to + 2
          /\ place[heap[x].next].in = place[x].in
      BY <2>2 DEF NextInv, NextPlace
    <3>2. place[x].to + 1 \in 1..Len(text)
      BY PlaceAt
    <3>3. place'[x].to = place[x].to
      BY <3>1 DEF Kept, OpenInv
    <3>4. /\ place'[heap[x].next].from = place[x].to + 2
          /\ place'[heap[x].next].in = place[x].in
          /\ text'[place[x].to + 1] = Comma
      BY <3>1, <3>2 DEF Kept
    <3>5. QED
      BY <2>1, <3>1, <3>3, <3>4 DEF NextPlace, Ended
  <2>3. QED
    BY <2>1, <2>2 DEF NextPlace
<1>2. Items' = Items
  BY DEF Kept
<1>3. QED
  BY <1>1, <1>2 DEF NextInv

LEMMA KeptNames ==
  ASSUME Kept, PlaceTypes, TextInv, StringsInv, NamesInv,
         \A x \in Items : x = item => NamePlace(x)',
         pc = "colon" => pc' # "colon"
  PROVE  NamesInv'
<1>1. ASSUME NEW x \in Items, x # item, heap[x].string # NULL
      PROVE  NamePlace(x)'
  <2>1. /\ heap[heap[x].string].text = text[place[x].from]
        /\ place[x].from + 1 < Len(text) /\ text[place[x].from + 1] = ":"
    BY <1>1 DEF NamesInv, NamePlace
  <2>2. heap'[heap[x].string] = heap[heap[x].string]
    BY <1>1 DEF StringsInv, Kept
  <2>3. place[x].from \in 1..Len(text) /\ place[x].from + 1 \in 1..Len(text)
    BY <1>1, <2>1 DEF PlaceTypes, PlaceRec, TextInv
  <2>4. /\ heap'[x].string = heap[x].string /\ place'[x].from = place[x].from
        /\ place[x].from + 1 < Len(text')
    BY <1>1, <2>1, <2>3 DEF Kept, TextInv
  <2>5. text'[place[x].from] = text[place[x].from] /\ text'[place[x].from + 1] = ":"
    BY <2>1, <2>3 DEF Kept
  <2>6. place[x].from < Len(text')
    BY <2>3, <2>4 DEF Kept, TextInv
  <2>7. QED
    BY <2>1, <2>2, <2>4, <2>5, <2>6 DEF NamePlace
<1>2. ASSUME NEW x \in Items, x # item, heap[x].string = NULL
      PROVE  NamePlace(x)'
  BY <1>2 DEF NamePlace, Kept
<1>3. Items' = Items
  BY DEF Kept
<1>4. QED
  BY <1>1, <1>2, <1>3 DEF NamesInv

LEMMA KeptStrings ==
  ASSUME Kept, StringsInv,
         \A f \in {"string", "valuestring"} :
           heap'[item][f] # NULL => heap'[item][f] \in DOMAIN heap' \ Items
  PROVE  StringsInv'
<1>1. ASSUME NEW x \in Items, x # item, NEW f \in {"string", "valuestring"},
             heap'[x][f] # NULL
      PROVE  heap'[x][f] \in DOMAIN heap' \ Items'
  BY <1>1 DEF StringsInv, Kept
<1>2. QED
  BY <1>1 DEF StringsInv, Kept

\* A complete value stays what it is.
LEMMA KeptValue ==
  ASSUME IInv, Working, Kept, PlaceTypes, TextInv, StringsInv, OpenInv, ValuesInv,
         NEW x \in Items, Ended(x), x # item
  PROVE  ScalarPlace(x)' \/ ListPlace(x)'
<1>1. /\ ValueAt(x)' = ValueAt(x) /\ place'[x].to = place[x].to
      /\ heap'[x].type = heap[x].type /\ heap'[x].valuestring = heap[x].valuestring
  BY ValueKept DEF Kept
<1>2. ValueAt(x) \in Nat \ {0} /\ place[x].to \in 1..Len(text)
  BY DEF PlaceTypes, PlaceRec, ValueAt, TextInv, Ended
<1>3. CASE ScalarPlace(x)
  <2>1. text'[ValueAt(x)] = text[ValueAt(x)]
    BY <1>2, <1>3 DEF ScalarPlace, SaysScalar, Kept
  <2>2. heap[x].type = "String" => heap'[heap[x].valuestring] = heap[heap[x].valuestring]
    BY <1>3 DEF ScalarPlace, SaysScalar, StringsInv, Kept
  <2>3. QED
    BY <1>1, <1>3, <2>1, <2>2 DEF ScalarPlace, SaysScalar, Said, Kept
<1>4. CASE ListPlace(x)
  <2>1. ValueAt(x) \in 1..Len(text) /\ ValueAt(x) + 1 \in 1..Len(text)
          /\ ValueAt(x) < place[x].to
    BY <1>2, <1>4 DEF ListPlace, TextInv
  <2>2. /\ text'[ValueAt(x)] = text[ValueAt(x)] /\ text'[place[x].to] = text[place[x].to]
        /\ text'[ValueAt(x) + 1] = text[ValueAt(x) + 1]
    BY <1>2, <2>1 DEF Kept
  <2>3. heap'[x].child = heap[x].child
    BY DEF Kept
  <2>4. heap[x].child # NULL =>
          /\ heap[x].child \in Items'
          /\ place'[heap[x].child].in = x /\ place'[heap[x].child].from = ValueAt(x) + 1
    BY <1>4 DEF ListPlace, Kept
  <2>5. ASSUME NEW y \in Items', place'[y].in = x, heap'[y].next = NULL
        PROVE  place'[y].to = place[x].to - 1
    <3>1. y \in Items /\ place[y].to = place[x].to - 1
      BY <1>4, <2>5 DEF ListPlace, Kept
    <3>2. Ended(y)
      BY <1>2, <2>1, <3>1 DEF Ended
    <3>3. ~AtItem(y)
      BY <3>1, <3>2 DEF OpenInv
    <3>4. place'[y].to = place[y].to
      BY <3>1, <3>3 DEF Kept
    <3>5. QED
      BY <3>1, <3>4
  <2>6. ListPlace(x)'
    BY <1>1, <1>4, <2>1, <2>2, <2>3, <2>4, <2>5 DEF ListPlace
  <2>7. QED
    BY <2>6
<1>5. QED
  BY <1>3, <1>4 DEF ValuesInv

LEMMA KeptValues ==
  ASSUME IInv, Working, Kept, PlaceTypes, TextInv, StringsInv, OpenInv, ValuesInv,
         \A x \in Items : x = item /\ Ended(x)' => ScalarPlace(x)' \/ ListPlace(x)'
  PROVE  ValuesInv'
<1>1. ASSUME NEW x \in Items, x # item, Ended(x)' PROVE ScalarPlace(x)' \/ ListPlace(x)'
  <2>1. Ended(x)
    BY <1>1 DEF Kept, Ended
  <2>2. QED
    BY <1>1, <2>1, KeptValue
<1>2. Items' = Items
  BY DEF Kept
<1>3. QED
  BY <1>1, <1>2 DEF ValuesInv

LEMMA KeptFrame ==
  ASSUME IInv, Working, Kept, PlaceTypes, TextInv, FramesInv, NEW c \in Frames
  PROVE  FramePlace(c)'
<1>1. c \in FrameRec /\ FrameInv(c) /\ FramePlace(c)
  BY FrameOf DEF FramesInv
<1>2. c.item \in Items /\ c.item # item
  BY <1>1, AtNoFrame DEF FrameInv, FrameItems, Kept
<1>3. ValueAt(c.item)' = ValueAt(c.item) /\ ValueAt(c.item) \in 1..Len(text)
        /\ ValueAt(c.item) + 1 \in 1..Len(text)
  BY <1>1, <1>2, ValueKept DEF FramePlace, PlaceTypes, PlaceRec, ValueAt, TextInv
<1>4. /\ text'[ValueAt(c.item)] = text[ValueAt(c.item)]
      /\ text'[ValueAt(c.item) + 1] = text[ValueAt(c.item) + 1]
      /\ ValueAt(c.item) < Len(text')
  BY <1>1, <1>3 DEF Kept, FramePlace, TextInv
<1>5. c.head # NULL =>
        /\ place'[c.head].in = c.item /\ place'[c.current].in = c.item
        /\ place'[c.head].from = ValueAt(c.item) + 1
  BY <1>1 DEF FrameInv, FramePlace, Kept
<1>6. \A y \in Items' : place'[y].in = c.item /\ heap'[y].next = NULL => y = c.current
  BY <1>1 DEF FramePlace, Kept
<1>7. QED
  BY <1>1, <1>3, <1>4, <1>5, <1>6 DEF FramePlace
-----------------------------------------------------------------------------
(* Places: the steps within a list *)

LEMMA AtPlaces ==
  ASSUME PlaceInv, Working
  PROVE  /\ OpenInv /\ PlaceTypes /\ StringsInv /\ ParentsInv /\ NamesInv /\ NextInv
         /\ ValuesInv /\ FramesInv /\ AtInv
BY DEF PlaceInv

LEMMA TextGrows ==
  ASSUME TextInv, Advance
  PROVE  /\ Len(text) \in Nat \ {0} /\ Len(text') = Len(text) + 1
         /\ \A i \in 1..Len(text) : text'[i] = text[i]
BY DEF TextInv, Advance

\* Steps that only move on in the text, or not even that.
LEMMA MovesOn ==
  ASSUME IInv, PlaceInv, pc \in {"colon", "after"}, pc' # "name",
         pc = "colon" => pc' # "colon",
         UNCHANGED <<heap, stack, item, place>>, text' = text \/ Advance,
         \A x \in Items : x = item => NamePlace(x)',
         AtItem(item) <=> AtItem(item)', AtInv'
  PROVE  PlaceInv'
<1>1. Working
  BY DEF Working
<1>2. /\ OpenInv /\ PlaceTypes /\ StringsInv /\ ParentsInv /\ NamesInv /\ NextInv
      /\ ValuesInv /\ FramesInv /\ AtInv
  BY <1>1, AtPlaces
<1>3. TextInv
  BY <1>1, AtWork
<1>4. /\ Len(text') \in {Len(text), Len(text) + 1}
      /\ \A i \in 1..Len(text) : text'[i] = text[i]
  BY <1>3, TextGrows
<1>5. Items' = Items /\ FrameItems' = FrameItems /\ Frames' = Frames /\ RootItem' = RootItem
  BY DEF Items, IsItem, FrameItems, Frames, RootItem
<1>6. item \in Items /\ item \notin FrameItems
  BY <1>1, AtNoFrame
<1>7. Kept
  <2>1. place'[item].to < Len(text')
    BY <1>2, <1>3, <1>4, <1>6, PlaceAt
  <2>2. \A x \in Items : x \in DOMAIN place' /\ place'[x] \in PlaceRec
    BY <1>2 DEF PlaceTypes
  <2>3. QED
    BY <1>4, <1>5, <1>6, <2>1, <2>2 DEF Kept
<1>8. PlaceTypes' /\ ParentsInv' /\ NextInv' /\ NamesInv'
  BY <1>1, <1>2, <1>3, <1>7, KeptTypes, KeptParents, KeptNext, KeptNames
<1>9. StringsInv'
  BY <1>2, <1>5 DEF StringsInv
<1>10. ValuesInv'
  <2>1. ASSUME NEW x \in Items, x = item, Ended(x)'
        PROVE  ScalarPlace(x)' \/ ListPlace(x)'
    <3>1. Ended(x)
      BY <2>1 DEF Ended
    <3>2. /\ ValueAt(x)' = ValueAt(x) /\ ValueAt(x) \in Nat \ {0}
          /\ place[x].to \in 1..Len(text)
      BY <1>2, <1>3, <3>1, PlaceAt DEF ValueAt, Ended
    <3>3. CASE ScalarPlace(x)
      <4>1. text'[ValueAt(x)] = text[ValueAt(x)]
        BY <1>4, <3>2, <3>3 DEF ScalarPlace, SaysScalar
      <4>2. ScalarPlace(x)'
        BY <3>2, <3>3, <4>1 DEF ScalarPlace, SaysScalar, Said
      <4>3. QED
        BY <4>2
    <3>4. CASE ListPlace(x)
      <4>1. /\ text'[ValueAt(x)] = text[ValueAt(x)]
            /\ text'[ValueAt(x) + 1] = text[ValueAt(x) + 1]
            /\ text'[place[x].to] = text[place[x].to]
        BY <1>3, <1>4, <3>2, <3>4 DEF ListPlace, TextInv
      <4>2. ListPlace(x)'
        BY <1>5, <3>2, <3>4, <4>1 DEF ListPlace
      <4>3. QED
        BY <4>2
    <3>5. QED
      BY <1>2, <3>1, <3>3, <3>4 DEF ValuesInv
  <2>2. QED
    BY <1>1, <1>2, <1>3, <1>7, <2>1, KeptValues
<1>11. FramesInv'
  BY <1>1, <1>2, <1>3, <1>5, <1>7, KeptFrame DEF FramesInv
<1>12. OpenInv'
  <2>1. \A x \in Items : AtItem(x)' <=> AtItem(x)
    BY DEF AtItem
  <2>2. \A x \in Items : Ended(x)' <=> Ended(x)
    BY DEF Ended
  <2>3. QED
    BY <1>2, <1>5, <2>1, <2>2 DEF OpenInv
<1>13. QED
  BY <1>8, <1>9, <1>10, <1>11, <1>12 DEF PlaceInv

LEMMA ColonPlaces ==
  ASSUME IInv, PlaceInv, Colon, pc' # "fail"
  PROVE  PlaceInv'
<1>1. /\ pc = "colon" /\ Look = ":" /\ pc' = "value" /\ Advance
      /\ UNCHANGED <<heap, stack, item, oom, deep, place>>
  BY DEF Colon, Reject, Fail
<1>2. Working
  BY <1>1 DEF Working
<1>3. TextInv /\ PlaceTypes /\ NamesInv /\ AtInv /\ item \in Items
  BY <1>1, <1>2, AtPlaces, AtWork, AtNoFrame
<1>4. /\ Len(text) \in Nat \ {0} /\ Len(text') = Len(text) + 1
      /\ \A i \in 1..Len(text) : text'[i] = text[i]
  BY <1>1, <1>3, TextGrows
<1>5. /\ place[item].from + 1 = Len(text) /\ heap[item].string # NULL
      /\ place[item].from \in 1..Len(text)
  BY <1>1, <1>3, PlaceAt DEF AtInv
<1>6. text[Len(text)] = ":"
  BY <1>1 DEF Look
<1>7. ASSUME NEW x \in Items, x = item PROVE NamePlace(x)'
  <2>1. heap[heap[x].string].text = text[place[x].from]
    BY <1>3, <1>5, <1>7 DEF NamesInv, NamePlace
  <2>2. /\ text'[place[x].from] = text[place[x].from]
        /\ text'[place[x].from + 1] = ":" /\ place[x].from + 1 < Len(text')
        /\ place[x].from < Len(text')
    BY <1>4, <1>5, <1>6, <1>7
  <2>3. QED
    BY <1>1, <2>1, <2>2 DEF NamePlace
<1>8. AtInv'
  <2>1. ValueAt(item)' = Len(text')
    BY <1>1, <1>4, <1>5 DEF ValueAt
  <2>2. QED
    BY <1>1, <2>1 DEF AtInv
<1>9. AtItem(item) <=> AtItem(item)'
  BY <1>1 DEF AtItem
<1>10. QED
  BY <1>1, <1>7, <1>8, <1>9, MovesOn

LEMMA AfterPlaces ==
  ASSUME IInv, PlaceInv, After, pc' # "fail"
  PROVE  PlaceInv'
<1>1. pc = "after" /\ Working
  BY DEF After, Working
<1>2. TextInv /\ PlaceTypes /\ NamesInv /\ AtInv /\ ItemInv /\ item \in Items /\ item # NULL
  BY <1>1, AtPlaces, AtWork, AtNoFrame, ItemFields DEF Addresses, NULL
<1>3. pc' \in {"done", "element", "close"} /\ UNCHANGED <<heap, stack, item, place>>
        /\ (text' = text \/ Advance)
  BY DEF After, Reject, Fail
<1>4. /\ Len(text) \in Nat \ {0} /\ Len(text') \in {Len(text), Len(text) + 1}
      /\ \A i \in 1..Len(text) : text'[i] = text[i]
  BY <1>2, <1>3, TextGrows DEF TextInv
<1>10. Advance => Len(text') = Len(text) + 1
  BY <1>2, TextGrows
<1>5. place[item].to + 1 = Len(text) /\ (stack # <<>> => item = Top.current)
  BY <1>1, <1>2 DEF AtInv, ItemInv
<1>6. ASSUME NEW x \in Items, x = item PROVE NamePlace(x)'
  <2>1. CASE heap[x].string = NULL
    BY <1>3, <2>1 DEF NamePlace
  <2>2. CASE heap[x].string # NULL
    <3>1. /\ heap[heap[x].string].text = text[place[x].from]
          /\ place[x].from + 1 < Len(text) /\ text[place[x].from + 1] = ":"
      BY <1>1, <1>2, <2>2 DEF NamesInv, NamePlace
    <3>2. place[x].from \in 1..Len(text)
      BY <1>2, PlaceAt
    <3>3. /\ place[x].from + 1 < Len(text') /\ place[x].from < Len(text')
          /\ text'[place[x].from] = text[place[x].from] /\ text'[place[x].from + 1] = ":"
      BY <1>4, <3>1, <3>2
    <3>4. QED
      BY <1>3, <3>1, <3>3 DEF NamePlace
  <2>3. QED
    BY <2>1, <2>2
<1>7. AtInv'
  <2>1. CASE pc' = "done"
    <3>1. text' = text
      BY <2>1 DEF After, Reject, Fail
    <3>2. QED
      BY <1>2, <1>3, <1>5, <2>1, <3>1 DEF AtInv, Items, IsItem
  <2>2. CASE pc' = "element"
    <3>1. Advance /\ stack # <<>> /\ Look = Comma
      BY <2>2 DEF After, Reject, Fail, Continues
    <3>2. Len(text') = Len(text) + 1 /\ text'[Len(text)] = text[Len(text)]
      BY <1>4, <1>10, <3>1
    <3>3. text[Len(text)] = Comma /\ Top' = Top
      BY <1>3, <3>1 DEF Look, Top
    <3>4. place[item].to \in Nat
      BY <1>2, PlaceAt
    <3>5. Top.current = item /\ place'[item].to + 2 = Len(text')
      BY <1>3, <1>5, <3>1, <3>2, <3>4
    <3>6. text'[Len(text') - 1] = Comma
      BY <1>4, <3>2, <3>3
    <3>7. QED
      BY <1>2, <2>2, <3>3, <3>5, <3>6 DEF AtInv
  <2>3. CASE pc' = "close"
    <3>1. text' = text /\ stack # <<>> /\ Top' = Top
      BY <1>3, <2>3 DEF After, Reject, Fail, Top
    <3>2. QED
      BY <1>2, <1>3, <1>5, <2>3, <3>1 DEF AtInv
  <2>4. QED
    BY <1>3, <2>1, <2>2, <2>3
<1>8. AtItem(item) <=> AtItem(item)'
  BY <1>1, <1>3 DEF AtItem
<1>9. QED
  BY <1>1, <1>3, <1>6, <1>7, <1>8, MovesOn

\* The name of an item is read before its value.
LEMMA NameKept ==
  ASSUME Kept, PlaceTypes, TextInv, StringsInv, NamesInv, NEW x \in Items,
         heap'[x].string = heap[x].string, pc # "colon"
  PROVE  NamePlace(x)'
<1>1. CASE heap[x].string = NULL
  BY <1>1 DEF NamePlace
<1>2. CASE heap[x].string # NULL
  <2>1. /\ heap[heap[x].string].text = text[place[x].from]
        /\ place[x].from + 1 < Len(text) /\ text[place[x].from + 1] = ":"
    BY <1>2 DEF NamesInv, NamePlace
  <2>2. heap'[heap[x].string] = heap[heap[x].string]
    BY <1>2 DEF StringsInv, Kept
  <2>3. Len(text) \in Nat /\ place[x].from \in 1..Len(text)
          /\ place[x].from + 1 \in 1..Len(text)
    BY <2>1, PlaceAt
  <2>4. /\ place'[x].from = place[x].from
        /\ place[x].from + 1 < Len(text') /\ place[x].from < Len(text')
    BY <2>1, <2>3 DEF Kept
  <2>5. text'[place[x].from] = text[place[x].from] /\ text'[place[x].from + 1] = ":"
    BY <2>1, <2>3 DEF Kept
  <2>6. QED
    BY <2>1, <2>2, <2>4, <2>5 DEF NamePlace
<1>3. QED
  BY <1>1, <1>2

\* What parse_value does to the item that turns out to be the scalar in front of it.
Ends ==
  /\ pc = "value" /\ pc' = "after" /\ Advance /\ End(item) /\ UNCHANGED <<stack, item>>
  /\ Items' = Items
  /\ \A y \in DOMAIN heap \ Items : y \in DOMAIN heap' /\ heap'[y] = heap[y]
  /\ \A x \in Items : /\ heap'[x].child = heap[x].child /\ heap'[x].next = heap[x].next
                      /\ heap'[x].string = heap[x].string
                      /\ x # item => /\ heap'[x].type = heap[x].type
                                     /\ heap'[x].valuestring = heap[x].valuestring
  /\ heap'[item].valuestring # NULL => heap'[item].valuestring \in DOMAIN heap' \ Items
  /\ heap'[item].type \in Words \cup {"Number", "String"}
  /\ heap'[item].type = "String" =>
       heap'[item].valuestring # NULL /\ heap'[heap'[item].valuestring].text = Look
  /\ heap'[item].type = "Number" => Look = Number
  /\ heap'[item].type \in Words => Look = heap'[item].type

LEMMA ScalarPlaces ==
  ASSUME IInv, PlaceInv, Ends
  PROVE  PlaceInv'
<1>1. Working /\ Working' /\ pc = "value" /\ pc' = "after"
  BY DEF Ends, Working
<1>2. /\ OpenInv /\ PlaceTypes /\ StringsInv /\ ParentsInv /\ NamesInv /\ NextInv
      /\ ValuesInv /\ FramesInv /\ AtInv /\ TextInv /\ ItemInv
  BY <1>1, AtPlaces, AtWork
<1>3. item \in Items /\ item \notin FrameItems /\ ValueAt(item) = Len(text)
  BY <1>1, <1>2, AtNoFrame DEF AtInv
<1>4. /\ Len(text) \in Nat \ {0} /\ Len(text') = Len(text) + 1
      /\ \A i \in 1..Len(text) : text'[i] = text[i]
  BY <1>2, TextGrows DEF Ends
<1>5. /\ \A x \in Items : x \in DOMAIN place /\ place[x] \in PlaceRec
      /\ place' = [place EXCEPT ![item].to = Len(text)]
  BY <1>2 DEF PlaceTypes, Ends, End
<1>6. /\ place'[item] = [place[item] EXCEPT !.to = Len(text)]
      /\ \A x \in Items : x \in DOMAIN place' /\ (x # item => place'[x] = place[x])
  BY <1>3, <1>5
<1>7. /\ place'[item] \in PlaceRec /\ place'[item].to = Len(text)
      /\ place'[item].in = place[item].in /\ place'[item].from = place[item].from
  BY <1>3, <1>4, <1>5, <1>6 DEF PlaceRec
<1>8. Items' = Items /\ Frames' = Frames /\ FrameItems' = FrameItems /\ RootItem' = RootItem
  BY DEF Ends, Frames, FrameItems, RootItem
<1>9. Kept
  <2>1. AtItem(item) /\ place'[item].to # 0 /\ place'[item].to < Len(text')
    BY <1>1, <1>4, <1>7 DEF AtItem
  <2>2. \A x \in Items : /\ x \in DOMAIN place' /\ place'[x] \in PlaceRec
                         /\ place'[x].in = place[x].in /\ place'[x].from = place[x].from
                         /\ x # item => place'[x].to = place[x].to
    BY <1>5, <1>6, <1>7
  <2>3. QED
    BY <1>1, <1>3, <1>4, <1>8, <2>1, <2>2 DEF Kept, Ends
<1>10. PlaceTypes' /\ ParentsInv' /\ NextInv'
  BY <1>1, <1>2, <1>9, KeptTypes, KeptParents, KeptNext
<1>11. NamesInv'
  <2>1. \A x \in Items : NamePlace(x)'
    BY <1>1, <1>2, <1>9, NameKept DEF Ends
  <2>2. QED
    BY <1>8, <2>1 DEF NamesInv
<1>12. StringsInv'
  <2>1. heap'[item].string # NULL => heap'[item].string \in DOMAIN heap' \ Items
    BY <1>2, <1>3 DEF Ends, StringsInv
  <2>2. QED
    BY <1>2, <1>9, <2>1, KeptStrings DEF Ends
<1>13. ValuesInv'
  <2>1. ASSUME NEW x \in Items, x = item PROVE ScalarPlace(x)'
    <3>1. ValueAt(x)' = Len(text)
      BY <1>1, <1>3, <1>9, <2>1, ValueKept DEF Unnamed
    <3>2. text'[Len(text)] = Look /\ place'[x].to = Len(text)
      BY <1>4, <1>7, <2>1 DEF Look
    <3>3. Look = IF heap'[x].type = "String" THEN heap'[heap'[x].valuestring].text
                 ELSE IF heap'[x].type = "Number" THEN Number ELSE heap'[x].type
      BY <2>1 DEF Ends, Words
    <3>4. /\ heap'[x].type \in Words \cup {"Number", "String"}
          /\ heap'[x].type = "String" => heap'[x].valuestring # NULL
      BY <2>1 DEF Ends
    <3>5. heap'[x].child = NULL
      BY <1>1, <1>2, <2>1 DEF Ends, ItemInv
    <3>6. QED
      BY <3>1, <3>2, <3>3, <3>4, <3>5 DEF ScalarPlace, SaysScalar, Said
  <2>2. QED
    BY <1>1, <1>2, <1>9, <2>1, KeptValues
<1>14. FramesInv'
  BY <1>1, <1>2, <1>8, <1>9, KeptFrame DEF FramesInv
<1>15. OpenInv'
  <2>1. ASSUME NEW x \in Items
        PROVE  ~Ended(x)' <=> x \in FrameItems' \/ AtItem(x)'
    <3>1. ~AtItem(x)'
      BY <1>1 DEF AtItem
    <3>2. CASE x = item
      BY <1>3, <1>4, <1>7, <1>8, <3>1, <3>2 DEF Ended
    <3>3. CASE x # item
      BY <1>2, <1>6, <1>8, <3>1, <3>3 DEF Ended, OpenInv, AtItem
    <3>4. QED
      BY <3>2, <3>3
  <2>2. QED
    BY <1>8, <2>1 DEF OpenInv
<1>16. AtInv'
  <2>1. place'[item].to + 1 = Len(text') /\ item' = item /\ item \in Items'
    BY <1>3, <1>4, <1>7, <1>8 DEF Ends
  <2>2. QED
    BY <1>1, <2>1 DEF AtInv
<1>17. QED
  BY <1>10, <1>11, <1>12, <1>13, <1>14, <1>15, <1>16 DEF PlaceInv

\* A string is put in a place of its own.
LEMMA StringMade ==
  ASSUME IInv, ParseString \/ Name, pc' # "fail"
  PROVE  /\ Look \in Strings /\ Advance /\ UNCHANGED <<stack, item>>
         /\ Fresh \notin DOMAIN heap /\ Fresh # NULL /\ item \in Items
         /\ DOMAIN heap' = DOMAIN heap \cup {Fresh} /\ Items' = Items
         /\ heap'[Fresh].text = Look /\ heap'[item].type = "String"
         /\ \A y \in DOMAIN heap : y # item => heap'[y] = heap[y]
         /\ heap'[item].child = heap[item].child /\ heap'[item].next = heap[item].next
         /\ ParseString => /\ heap'[item].valuestring = Fresh
                           /\ heap'[item].string = heap[item].string
         /\ Name => /\ heap'[item].string = Fresh
                    /\ heap'[item].valuestring = heap[item].valuestring
<1> DEFINE x == Fresh
           named == [heap[item] EXCEPT !.type = "String", !.string = x]
           valued == [heap[item] EXCEPT !.type = "String", !.valuestring = x]
<1>1. pc \in {"value", "name"} /\ Look \in Strings /\ Working
  BY DEF ParseString, Name, Working
<1>2. HeapInv /\ ItemInv
  BY <1>1, AtWork
<1>3. item \in Items
  BY <1>1, <1>2 DEF ItemInv
<1>4. heap[item] \in ItemRec /\ item \in DOMAIN heap
  BY <1>2, <1>3, ItemFields
<1>5. x \notin DOMAIN heap /\ x # NULL
  BY <1>1, FreshForString
<1>6. UNCHANGED <<stack, item>> /\ Advance
  BY DEF ParseString, Name, OutOfMemory, Fail, Return
<1>7. /\ ParseString =>
           heap' = With([heap EXCEPT ![item].type = "String", ![item].valuestring = x], x, Str(Look))
      /\ Name =>
           heap' = With([heap EXCEPT ![item].type = "String", ![item].string = x], x, Str(Look))
  BY DEF ParseString, Name, OutOfMemory, Fail
<1> HIDE DEF x
<1>8. /\ DOMAIN heap' = DOMAIN heap \cup {x}
      /\ \A y \in DOMAIN heap : y # item => heap'[y] = heap[y]
      /\ ParseString => heap'[item] = valued
      /\ Name => heap'[item] = named
      /\ heap'[x] = Str(Look)
  BY <1>4, <1>5, <1>7 DEF With
<1>9. /\ heap'[item].type = "String" /\ heap'[item].next = heap[item].next
      /\ heap'[item].child = heap[item].child
      /\ ParseString => /\ heap'[item].valuestring = x
                        /\ heap'[item].string = heap[item].string
      /\ Name => /\ heap'[item].string = x
                 /\ heap'[item].valuestring = heap[item].valuestring
  BY <1>4, <1>8 DEF ItemRec
<1>10. heap'[x].type = "Chars" /\ heap'[x].text = Look
  BY <1>8 DEF Str
<1>11. Items' = Items
  BY <1>3, <1>5, <1>8, <1>9, <1>10 DEF Items, IsItem
<1>12. QED
  BY <1>1, <1>3, <1>5, <1>6, <1>8, <1>9, <1>10, <1>11 DEF x

LEMMA ValueEnds ==
  ASSUME IInv, ParseWord \/ ParseNumber \/ ParseString, pc' # "fail"
  PROVE  Ends
<1>1. CASE ParseString
  <2>1. Fresh \in DOMAIN heap' \ Items /\ item \in Items /\ Items \subseteq DOMAIN heap
    BY <1>1, StringMade DEF Items
  <2>2. pc = "value" /\ pc' = "after" /\ Advance /\ End(item) /\ UNCHANGED <<stack, item>>
    BY <1>1 DEF ParseString, OutOfMemory, Fail, Return
  <2>3. QED
    BY <1>1, <2>1, <2>2, StringMade DEF Ends, Words
<1>2. CASE ParseWord \/ ParseNumber
  <2>1. PICK k \in Words \cup {"Number"} :
          /\ heap' = [heap EXCEPT ![item].type = k]
          /\ k = "Number" => Look = Number
          /\ k \in Words => Look = k
          /\ Advance /\ Return
    BY <1>2 DEF ParseWord, ParseNumber, OutOfMemory, Fail, Words
  <2>2. HeapInv /\ ItemInv /\ pc = "value"
    BY <1>2, AtWork DEF ParseWord, ParseNumber, Working
  <2>3. item \in Items /\ heap[item].valuestring = NULL
    BY <2>2 DEF ItemInv
  <2>4. heap[item] \in ItemRec /\ item \in DOMAIN heap
    BY <2>2, <2>3, ItemFields
  <2>5. /\ DOMAIN heap' = DOMAIN heap
        /\ \A y \in DOMAIN heap : y # item => heap'[y] = heap[y]
        /\ heap'[item] = [heap[item] EXCEPT !.type = k]
    BY <2>1, <2>4
  <2>6. /\ heap'[item].type = k /\ heap'[item].next = heap[item].next
        /\ heap'[item].child = heap[item].child /\ heap'[item].string = heap[item].string
        /\ heap'[item].valuestring = NULL
    BY <2>3, <2>4, <2>5 DEF ItemRec
  <2>7. Items' = Items /\ k # "String"
    BY <2>3, <2>4, <2>5, <2>6 DEF Items, IsItem, Words
  <2>8. \A x \in Items : /\ heap'[x].child = heap[x].child /\ heap'[x].next = heap[x].next
                         /\ heap'[x].string = heap[x].string
                         /\ x # item => /\ heap'[x].type = heap[x].type
                                        /\ heap'[x].valuestring = heap[x].valuestring
    BY <2>5, <2>6 DEF Items
  <2>9. \A y \in DOMAIN heap \ Items : y \in DOMAIN heap' /\ heap'[y] = heap[y]
    BY <2>3, <2>5
  <2>10. pc = "value" /\ pc' = "after" /\ Advance /\ End(item) /\ UNCHANGED <<stack, item>>
    BY <2>1, <2>2 DEF Return
  <2>11. QED
    BY <2>1, <2>6, <2>7, <2>8, <2>9, <2>10 DEF Ends
<1>3. QED
  BY <1>1, <1>2

LEMMA NamePlaces ==
  ASSUME IInv, PlaceInv, Name, pc' # "fail"
  PROVE  PlaceInv'
<1>1. Working /\ pc = "name" /\ pc' = "colon" /\ UNCHANGED <<stack, item, place>>
  BY DEF Name, OutOfMemory, Fail, Working
<1>2. /\ OpenInv /\ PlaceTypes /\ StringsInv /\ ParentsInv /\ NamesInv /\ NextInv
      /\ ValuesInv /\ FramesInv /\ AtInv /\ TextInv /\ ItemInv /\ StackTypes /\ StackInv
  BY <1>1, AtPlaces, AtWork
<1>3. item \in Items /\ item \notin FrameItems /\ item \in Nat \ {0}
        /\ place[item].from = Len(text) /\ Top.closer = EndObject
        /\ heap[item].string = NULL /\ heap[item].valuestring = NULL
  BY <1>1, <1>2, AtNoFrame, ItemFields, AtWork, BoundsAssumption
  DEF AtInv, ItemInv, Addresses
<1>4. /\ Len(text) \in Nat \ {0} /\ Len(text') = Len(text) + 1
      /\ \A i \in 1..Len(text) : text'[i] = text[i]
  BY <1>2, TextGrows, StringMade
<1>5. Items' = Items /\ Frames' = Frames /\ FrameItems' = FrameItems /\ RootItem' = RootItem
  BY <1>1, StringMade DEF Frames, FrameItems, RootItem
<1>6. Fresh \in DOMAIN heap' \ Items /\ Fresh # NULL /\ Items \subseteq DOMAIN heap
  BY StringMade DEF Items
<1>7. place[item].in # NULL /\ text[ValueAt(place[item].in)] = BeginObject
  <2>1. stack # <<>> /\ item = Top.current /\ Top \in Frames /\ FrameInv(Top)
    BY <1>1, <1>2, TopFrame DEF ItemInv, Frames
  <2>2. Top.head # NULL /\ FramePlace(Top)
    BY <1>2, <1>3, <2>1 DEF FramesInv, FrameInv, NULL
  <2>3. place[item].in = Top.item /\ text[ValueAt(Top.item)] \in Openers
          /\ EndObject = Closer(text[ValueAt(Top.item)])
    BY <1>3, <2>1, <2>2 DEF FramePlace
  <2>4. Top.item # NULL
    BY <2>1, <1>1, AtWork, ItemFields DEF FrameInv, Addresses, NULL
  <2>5. text[ValueAt(Top.item)] = BeginObject
    BY <2>3 DEF Openers, Closer, EndArray, EndObject
  <2>6. QED
    BY <2>3, <2>4, <2>5
<1>8. Kept
  <2>1. place[item].to < Len(text')
    BY <1>2, <1>3, <1>4, PlaceAt
  <2>2. \A x \in Items : x \in DOMAIN place /\ place[x] \in PlaceRec
    BY <1>2 DEF PlaceTypes
  <2>3. \A x \in Items : x # item => heap'[x] = heap[x]
    BY <1>6, StringMade
  <2>4. \A y \in DOMAIN heap \ Items : y \in DOMAIN heap' /\ heap'[y] = heap[y]
    BY <1>3, StringMade
  <2>5. /\ heap'[item].child = heap[item].child /\ heap'[item].next = heap[item].next
        /\ heap'[item].string # NULL /\ heap'[item].string # heap[item].string
    BY <1>3, <1>6, StringMade
  <2>6. Unnamed(item)
    BY <1>1 DEF Unnamed
  <2>7. QED
    BY <1>1, <1>3, <1>4, <1>5, <1>7, <2>1, <2>2, <2>3, <2>4, <2>5, <2>6 DEF Kept
<1>9. PlaceTypes' /\ ParentsInv' /\ NextInv'
  BY <1>1, <1>2, <1>8, KeptTypes, KeptParents, KeptNext
<1>10. NamesInv'
  <2>1. ASSUME NEW x \in Items, x = item PROVE NamePlace(x)'
    <3>1. heap'[heap'[x].string].text = text[Len(text)]
      BY <2>1, StringMade DEF Look
    <3>2. text'[place'[x].from] = text[Len(text)] /\ place'[x].from < Len(text')
      BY <1>1, <1>3, <1>4, <2>1
    <3>3. QED
      BY <1>1, <2>1, <3>1, <3>2 DEF NamePlace
  <2>2. QED
    BY <1>1, <1>2, <1>8, <2>1, KeptNames
<1>11. StringsInv'
  BY <1>2, <1>3, <1>6, <1>8, StringMade, KeptStrings
<1>12. ~Ended(item) /\ \A x \in Items : Ended(x)' <=> Ended(x)
  BY <1>1, <1>2, <1>3 DEF OpenInv, AtItem, Ended
<1>13. ValuesInv'
  BY <1>1, <1>2, <1>8, <1>12, KeptValues
<1>14. FramesInv'
  BY <1>1, <1>2, <1>5, <1>8, KeptFrame DEF FramesInv
<1>15. OpenInv'
  BY <1>1, <1>2, <1>5, <1>12 DEF OpenInv, AtItem
<1>16. AtInv'
  <2>1. place'[item].from + 1 = Len(text') /\ heap'[item].string # NULL /\ item' = item
    BY <1>1, <1>3, <1>4, <1>6, StringMade
  <2>2. QED
    BY <1>1, <2>1 DEF AtInv
<1>17. QED
  BY <1>9, <1>10, <1>11, <1>13, <1>14, <1>15, <1>16 DEF PlaceInv
-----------------------------------------------------------------------------
(* Places: lists *)

LEMMA OpenPlaces ==
  ASSUME IInv, PlaceInv, NEW opener \in Openers, Open(opener)
  PROVE  PlaceInv'
<1> DEFINE c == [item |-> item, head |-> NULL, current |-> NULL, closer |-> Closer(opener)]
<1>1. /\ Working /\ Working' /\ pc = "value" /\ pc' \in {"close", "element"}
      /\ UNCHANGED <<heap, place>> /\ Advance /\ Look = opener
  BY DEF Open, Working
<1>2. /\ OpenInv /\ PlaceTypes /\ StringsInv /\ ParentsInv /\ NamesInv /\ NextInv
      /\ ValuesInv /\ FramesInv /\ AtInv /\ TextInv /\ ItemInv /\ StackTypes /\ StackInv
  BY <1>1, AtPlaces, AtWork
<1>3. item \in Items /\ item \notin FrameItems /\ ValueAt(item) = Len(text) /\ item \in Addresses
  BY <1>1, <1>2, AtNoFrame, AtWork, ItemFields DEF AtInv
<1>4. /\ Len(text) \in Nat \ {0} /\ Len(text') = Len(text) + 1
      /\ \A i \in 1..Len(text) : text'[i] = text[i]
  BY <1>1, <1>2, TextGrows
<1>5. /\ Items' = Items
      /\ \A x \in Items : ValueAt(x)' = ValueAt(x)
  BY <1>1 DEF Items, IsItem, ValueAt
<1>6. /\ c \in FrameRec /\ c.item = item /\ c.head = NULL /\ c.current = NULL
      /\ c.closer = Closer(opener)
  BY <1>3 DEF FrameRec, Pointers, Closer, Closers
<1>7. stack' = Append(stack, c)
  BY DEF Open
<1> HIDE DEF c
<1>8. /\ Len(stack) \in Nat /\ Len(stack') = Len(stack) + 1
      /\ \A i \in 1..Len(stack) : stack'[i] = stack[i]
      /\ stack'[Len(stack) + 1] = c
  BY <1>2, <1>6, <1>7, AppendProperties, LenProperties DEF StackTypes
<1>9. Frames' = Frames \cup {c}
  <2>1. ASSUME NEW i \in 1..(Len(stack) + 1) PROVE stack'[i] \in Frames \cup {c}
    <3>1. i \in 1..Len(stack) \/ i = Len(stack) + 1
      BY <1>8
    <3>2. QED
      BY <1>8, <3>1 DEF Frames
  <2>2. Len(stack) + 1 \in 1..(Len(stack) + 1) /\ 1..Len(stack) \subseteq 1..(Len(stack) + 1)
    BY <1>8
  <2>3. \A d \in Frames \cup {c} : \E i \in 1..(Len(stack) + 1) : stack'[i] = d
    BY <1>8, <2>2 DEF Frames
  <2>4. QED
    BY <1>8, <2>1, <2>3 DEF Frames
<1>10. FrameItems' = FrameItems \cup {item}
  BY <1>6, <1>9 DEF FrameItems
<1>11. RootItem' = RootItem
  BY <1>2, <1>6, <1>8, EmptySeq DEF RootItem, StackTypes
<1>12. Kept
  <2>1. place[item].to < Len(text')
    BY <1>2, <1>3, <1>4, PlaceAt
  <2>2. \A x \in Items : x \in DOMAIN place /\ place[x] \in PlaceRec
    BY <1>2 DEF PlaceTypes
  <2>3. QED
    BY <1>1, <1>3, <1>4, <1>5, <1>10, <1>11, <2>1, <2>2 DEF Kept
<1>13. PlaceTypes' /\ ParentsInv' /\ NextInv'
  BY <1>1, <1>2, <1>12, KeptTypes, KeptParents, KeptNext
<1>14. NamesInv'
  <2>1. \A x \in Items : NamePlace(x)'
    BY <1>1, <1>2, <1>12, NameKept
  <2>2. QED
    BY <1>5, <2>1 DEF NamesInv
<1>15. StringsInv'
  BY <1>1, <1>2, <1>5 DEF StringsInv
<1>16. ~Ended(item) /\ \A x \in Items : Ended(x)' <=> Ended(x)
  BY <1>1, <1>2, <1>3 DEF OpenInv, AtItem, Ended
<1>17. ValuesInv'
  BY <1>1, <1>2, <1>12, <1>16, KeptValues
<1>18. FramesInv'
  <2>1. \A d \in Frames : FramePlace(d)'
    BY <1>1, <1>2, <1>12, KeptFrame
  <2>2. ASSUME NEW d, d = c PROVE FramePlace(d)'
    <3>1. /\ \A x \in Items : x = item => ValueAt(x)' = Len(text)
          /\ Len(text) < Len(text') /\ text'[Len(text)] = opener
      BY <1>1, <1>3, <1>4, <1>5 DEF Look
    <3>2. ASSUME NEW y \in Items, place[y].in = item PROVE FALSE
      <4>1. item # NULL
        BY <1>3 DEF Addresses, NULL
      <4>2. ValueAt(item) < place[y].from
        BY <1>2, <3>2, <4>1 DEF ParentsInv
      <4>3. QED
        BY <1>2, <1>3, <4>2, PlaceAt
    <3>3. QED
      BY <1>1, <1>3, <1>5, <1>6, <2>2, <3>1, <3>2 DEF FramePlace
  <2>3. QED
    BY <1>9, <2>1, <2>2 DEF FramesInv
<1>19. OpenInv'
  <2>1. \A x \in Items : ~AtItem(x)'
    BY <1>1 DEF AtItem
  <2>2. QED
    BY <1>1, <1>2, <1>5, <1>10, <1>16, <2>1 DEF OpenInv, AtItem
<1>20. AtInv'
  <2>1. Top' = c /\ Top'.current = NULL /\ Top'.closer = Closer(opener)
    BY <1>6, <1>8 DEF Top
  <2>2. ValueAt(Top.item)' + 1 = Len(text')
    <3>1. \A x \in Items : x = Top'.item => ValueAt(x)' + 1 = Len(text')
      BY <1>3, <1>4, <1>5, <1>6, <2>1
    <3>2. Top'.item \in Items
      BY <1>3, <1>6, <2>1
    <3>3. QED
      BY <3>1, <3>2
  <2>3. pc' = "element" => Look' # Closer(opener)
    BY DEF Open, Look
  <2>4. QED
    BY <1>1, <2>1, <2>2, <2>3 DEF AtInv
<1>21. QED
  BY <1>13, <1>14, <1>15, <1>17, <1>18, <1>19, <1>20 DEF PlaceInv

LEMMA RootPlaces ==
  ASSUME IInv, PlaceInv, NewRoot, pc' # "fail"
  PROVE  PlaceInv'
<1>1. /\ heap' = With(heap, Fresh, NewItem) /\ item' = Fresh /\ pc' = "value"
      /\ Begin(Fresh, NULL) /\ UNCHANGED <<text, stack, oom, deep>> /\ pc = "root" /\ Working
  BY DEF NewRoot, OutOfMemory, Fail, Working
<1>2. AtInv /\ TextInv /\ RoomInv /\ ItemInv
  BY <1>1, AtPlaces, AtWork
<1>3. DOMAIN heap = {} /\ stack = <<>> /\ Len(text) = 1
  BY <1>1, <1>2, RoomAt DEF RoomInv, ItemInv, AtInv
<1>4. Fresh = 1 /\ Fresh # NULL
  BY <1>3, FreshIs, BoundsAssumption
<1>5. DOMAIN heap' = {1} /\ heap'[1] = NewItem /\ item' = 1
  BY <1>1, <1>3, <1>4 DEF With
<1>6. Items' = {1} /\ Frames' = {} /\ FrameItems' = {} /\ RootItem' = 1
  BY <1>1, <1>3, <1>5, EmptySeq DEF Items, IsItem, NewItem, Frames, FrameItems, RootItem
<1>7. 1 \in DOMAIN place' /\ place'[1] = [in |-> NULL, from |-> 1, to |-> 0]
  BY <1>1, <1>3, <1>4 DEF Begin, With
<1>8. /\ heap'[1].string = NULL /\ heap'[1].valuestring = NULL /\ heap'[1].next = NULL
      /\ ~Ended(1)' /\ AtItem(1)' /\ place'[1].in = NULL /\ place'[1].from = 1
  BY <1>1, <1>5, <1>7 DEF NewItem, Ended, AtItem
<1>9. ValueAt(1)' = 1
  BY <1>7, <1>8 DEF ValueAt
<1>10. OpenInv' /\ StringsInv' /\ NamesInv' /\ NextInv' /\ ValuesInv' /\ FramesInv'
  BY <1>6, <1>8 DEF OpenInv, StringsInv, NamesInv, NamePlace, NextInv, NextPlace, ValuesInv,
                    FramesInv, Ended, AtItem
<1>11. PlaceTypes'
  BY <1>1, <1>3, <1>6, <1>7 DEF PlaceTypes, PlaceRec, Pointers, NULL
<1>12. ParentsInv'
  BY <1>6, <1>8 DEF ParentsInv
<1>13. AtInv'
  BY <1>1, <1>3, <1>5, <1>9 DEF AtInv
<1>14. QED
  BY <1>10, <1>11, <1>12, <1>13 DEF PlaceInv

\* A complete value stays what it is when other items get their links.
Untouched(y) ==
  /\ ValueAt(y)' = ValueAt(y) /\ place'[y].to = place[y].to
  /\ heap'[y].type = heap[y].type /\ heap'[y].valuestring = heap[y].valuestring
  /\ heap'[y].child = heap[y].child

LEMMA LinkedValue ==
  ASSUME PlaceTypes, TextInv, StringsInv, OpenInv, ValuesInv,
         \A i \in 1..Len(text) : text'[i] = text[i],
         \A v \in DOMAIN heap \ Items : v \in DOMAIN heap' /\ heap'[v] = heap[v],
         Items \subseteq Items',
         \A z \in Items : place'[z].in = place[z].in /\ place'[z].from = place[z].from,
         \A z \in Items : heap'[z].next = NULL => heap[z].next = NULL,
         \A z \in Items : Ended(z) => place'[z].to = place[z].to,
         \A z \in Items' \ Items : z \in Addresses /\ place'[z].in \in Items /\ ~Ended(place'[z].in),
         NEW y \in Items, Ended(y), Untouched(y)
  PROVE  ScalarPlace(y)' \/ ListPlace(y)'
<1>1. ValueAt(y) \in Nat \ {0} /\ place[y].to \in 1..Len(text) /\ Len(text) \in Nat
  BY PlaceAt DEF Ended
<1>2. CASE ScalarPlace(y)
  <2>1. text'[ValueAt(y)] = text[ValueAt(y)]
    BY <1>1, <1>2 DEF ScalarPlace, SaysScalar
  <2>2. heap[y].type = "String" => heap'[heap[y].valuestring] = heap[heap[y].valuestring]
    BY <1>2 DEF ScalarPlace, SaysScalar, StringsInv
  <2>3. ScalarPlace(y)'
    BY <1>2, <2>1, <2>2 DEF ScalarPlace, SaysScalar, Said, Untouched
  <2>4. QED
    BY <2>3
<1>3. CASE ListPlace(y)
  <2>1. ValueAt(y) \in 1..Len(text) /\ ValueAt(y) + 1 \in 1..Len(text)
          /\ ValueAt(y) < place[y].to
    BY <1>1, <1>3 DEF ListPlace
  <2>2. /\ text'[ValueAt(y)] = text[ValueAt(y)] /\ text'[place[y].to] = text[place[y].to]
        /\ text'[ValueAt(y) + 1] = text[ValueAt(y) + 1]
    BY <1>1, <2>1
  <2>3. heap[y].child # NULL =>
          /\ heap[y].child \in Items'
          /\ place'[heap[y].child].in = y /\ place'[heap[y].child].from = ValueAt(y) + 1
    BY <1>3 DEF ListPlace
  <2>4. ASSUME NEW z \in Items', place'[z].in = y, heap'[z].next = NULL
        PROVE  place'[z].to = place[y].to - 1
    <3>1. z \in Items
      BY <2>4
    <3>2. place[z].to = place[y].to - 1
      BY <1>3, <2>4, <3>1 DEF ListPlace
    <3>3. Ended(z)
      BY <1>1, <2>1, <3>2 DEF Ended
    <3>4. QED
      BY <3>1, <3>2, <3>3
  <2>5. ListPlace(y)'
    BY <1>3, <2>1, <2>2, <2>3, <2>4 DEF ListPlace, Untouched
  <2>6. QED
    BY <2>5
<1>4. QED
  BY <1>2, <1>3 DEF ValuesInv

\* The frames stand for items of their own, none of which is the last of a list.
LEMMA FrameOrder ==
  ASSUME StackTypes, StackInv, HeapInv, stack # <<>>
  PROVE  /\ Top \in Frames /\ Top.item \in FrameItems
         /\ \A i \in 1..Len(stack) - 1 : stack[i].item # Top.item
         /\ Top.current # NULL => Top.current \notin FrameItems
<1>1. /\ Len(stack) \in Nat \ {0} /\ Len(stack) \in 1..Len(stack)
      /\ Top \in FrameRec /\ Top = stack[Len(stack)] /\ FrameInv(Top)
  BY TopFrame
<1>2. \A i \in 1..Len(stack) : stack[i].item \in Nat
  BY ItemFields, BoundsAssumption DEF StackInv, FrameInv, Addresses
<1>3. Top.current # NULL => Top.current \in Nat /\ Top.item < Top.current
  BY <1>1, ItemFields, BoundsAssumption DEF FrameInv, Addresses
<1>4. ASSUME NEW i \in 1..Len(stack) - 1 PROVE stack[i].item < Top.item /\ i \in 1..Len(stack)
  BY <1>1 DEF StackInv
<1>5. Top \in Frames /\ Top.item \in FrameItems
  BY <1>1 DEF Frames, FrameItems
<1>6. \A i \in 1..Len(stack) - 1 : stack[i].item # Top.item
  BY <1>1, <1>2, <1>4
<1>7. ASSUME Top.current # NULL, Top.current \in FrameItems PROVE FALSE
  <2>1. PICK i \in 1..Len(stack) : stack[i].item = Top.current
    BY <1>7 DEF FrameItems, Frames
  <2>2. i = Len(stack) \/ i \in 1..Len(stack) - 1
    BY <1>1
  <2>3. QED
    BY <1>1, <1>2, <1>3, <1>4, <1>7, <2>1, <2>2
<1>8. QED
  BY <1>5, <1>6, <1>7

LEMMA ElementPlaces ==
  ASSUME IInv, PlaceInv, Element, pc' # "fail"
  PROVE  PlaceInv'
<1>1. Working /\ pc = "element"
  BY DEF Element, Working
<1>2. /\ OpenInv /\ PlaceTypes /\ StringsInv /\ ParentsInv /\ NamesInv /\ NextInv
      /\ ValuesInv /\ FramesInv /\ AtInv /\ TextInv /\ HeapInv /\ StackTypes
      /\ StackInv /\ ItemInv
  BY <1>1, AtPlaces, AtWork
<1>3. stack # <<>>
  BY <1>1, <1>2 DEF ItemInv
<1>4. /\ Len(stack) \in Nat \ {0} /\ Len(stack) \in 1..Len(stack)
      /\ Top \in FrameRec /\ Top = stack[Len(stack)] /\ FrameInv(Top)
      /\ Top \in Frames /\ Top.item \in FrameItems /\ FramePlace(Top)
      /\ \A i \in 1..Len(stack) - 1 : stack[i].item # Top.item
      /\ Top.current # NULL => Top.current \notin FrameItems
  BY <1>2, <1>3, TopFrame, FrameOrder DEF FramesInv
<1>5. PICK n \in Nat, x \in Addresses, c \in FrameRec : Attaches(n, x, c)
  BY ElementAttaches
<1>6. x = n + 1 /\ DOMAIN heap = 1..n /\ x \notin DOMAIN heap /\ x # NULL
        /\ x \notin Items /\ Items' = Items \cup {x} /\ Items \subseteq DOMAIN heap
  BY <1>5 DEF Attaches, Items
<1>7. /\ c.item = Top.item /\ c.current = x /\ c.head = IF Top.head = NULL THEN x ELSE Top.head
      /\ c.closer = Top.closer
  <2>1. c.closer = Top.closer
    <3>1. stack' = SetTop([Top EXCEPT !.head = IF @ = NULL THEN x ELSE @, !.current = x])
      BY <1>5 DEF Element, OutOfMemory, Fail, Attaches
    <3>2. [Top EXCEPT !.head = IF @ = NULL THEN x ELSE @, !.current = x] \in FrameRec
      BY <1>4 DEF FrameRec, Pointers
    <3>3. stack'[Len(stack)] = [Top EXCEPT !.head = IF @ = NULL THEN x ELSE @, !.current = x]
      BY <1>2, <1>3, <1>4, <3>1, <3>2, SetTopIs
    <3>4. stack'[Len(stack)] = c
      BY <1>4, <1>5 DEF Attaches
    <3>5. QED
      BY <1>4, <3>3, <3>4 DEF FrameRec
  <2>2. QED
    BY <1>5, <2>1 DEF Attaches
<1>8. /\ text' = text /\ item' = x
      /\ pc' = (IF Top.closer = EndObject THEN "name" ELSE "value")
      /\ Begin(x, Top.item)
      /\ Len(stack') = Len(stack)
      /\ \A i \in 1..Len(stack) : stack'[i] = IF i = Len(stack) THEN c ELSE stack[i]
  BY <1>5 DEF Attaches
<1>9. /\ \A y \in Items : /\ heap'[y].type = heap[y].type /\ heap'[y].child = heap[y].child
                          /\ heap'[y].string = heap[y].string
                          /\ heap'[y].valuestring = heap[y].valuestring
                          /\ heap'[y].next = IF Top.head # NULL /\ y = Top.current THEN x
                                             ELSE heap[y].next
      /\ \A y \in DOMAIN heap \ Items : heap'[y] = heap[y]
      /\ heap'[x].child = NULL /\ heap'[x].next = NULL /\ heap'[x].string = NULL
      /\ heap'[x].valuestring = NULL
      /\ DOMAIN heap' = DOMAIN heap \cup {x}
  BY <1>5 DEF Attaches, Links
<1>10. /\ Len(text) \in Nat \ {0}
       /\ x \in DOMAIN place' /\ place'[x] = [in |-> Top.item, from |-> Len(text), to |-> 0]
       /\ \A y \in Items : y \in DOMAIN place' /\ place'[y] = place[y]
  BY <1>2, <1>6, <1>8 DEF Begin, With, PlaceTypes, TextInv
<1>11. place'[x].in = Top.item /\ place'[x].from = Len(text) /\ place'[x].to = 0
         /\ ~Ended(x)' /\ ValueAt(x)' = Len(text)
  BY <1>9, <1>10 DEF Ended, ValueAt
<1>12. \A y \in Items : ValueAt(y)' = ValueAt(y) /\ (Ended(y)' <=> Ended(y))
  BY <1>9, <1>10 DEF ValueAt, Ended
<1>13. /\ Top.item \in Items /\ ~Ended(Top.item)
       /\ Top.head = NULL <=> Top.current = NULL
       /\ Top.current # NULL => Top.head \in Items /\ Top.current \in Items
  BY <1>2, <1>4 DEF FrameInv, OpenInv
<1> PICK p \in Items : p = Top.item
  BY <1>13
<1>14. FrameItems' = FrameItems
  <2>1. \A i \in 1..Len(stack) : stack'[i].item = stack[i].item
    BY <1>4, <1>7, <1>8
  <2>2. FrameItems' = {stack'[i].item : i \in 1..Len(stack)}
    BY <1>8 DEF FrameItems, Frames
  <2>3. FrameItems = {stack[i].item : i \in 1..Len(stack)}
    BY DEF FrameItems, Frames
  <2>4. QED
    BY <2>1, <2>2, <2>3
<1>15. RootItem' = RootItem
  BY <1>3, <1>4, <1>7, <1>8, EmptySeq DEF RootItem
<1>16. \A y \in Items : y # x /\ y < x /\ y \in Nat
  BY <1>6
<1>17. \A y \in Items : ~AtItem(y)' /\ ~AtItem(y) /\ ~Unnamed(y)' /\ ~Unnamed(y)
  BY <1>1, <1>8, <1>16 DEF AtItem, Unnamed
<1>18. AtItem(x)'
  BY <1>8 DEF AtItem
<1>19. PlaceTypes'
  <2>1. place'[x] \in PlaceRec /\ place'[x].from <= Len(text') /\ place'[x].to < Len(text')
    BY <1>4, <1>8, <1>10, <1>11 DEF PlaceRec, FrameRec, Pointers
  <2>2. QED
    BY <1>2, <1>6, <1>8, <1>10, <2>1 DEF PlaceTypes
<1>20. OpenInv'
  BY <1>2, <1>6, <1>11, <1>12, <1>14, <1>17, <1>18 DEF OpenInv
<1>21. StringsInv'
  BY <1>2, <1>6, <1>9 DEF StringsInv
<1>22. ParentsInv'
  <2>1. ASSUME NEW y \in Items, place[y].in # NULL
        PROVE  LET q == place[y].in
               IN /\ q \in Items' /\ q < y
                  /\ Ended(q)' \/ q \in FrameItems'
                  /\ ValueAt(q)' < place'[y].from /\ text'[ValueAt(q)'] \in Openers
                  /\ heap'[y].string # NULL <=> text'[ValueAt(q)'] = BeginObject
    BY <1>2, <1>6, <1>8, <1>9, <1>10, <1>12, <1>14, <1>17, <2>1 DEF ParentsInv
  <2>2. ASSUME NEW y \in Items, place[y].in = NULL
        PROVE  y = RootItem' /\ place'[y].from = 1 /\ heap'[y].string = NULL
    BY <1>2, <1>9, <1>10, <1>15, <2>2 DEF ParentsInv
  <2>3. /\ p # NULL /\ p \in Items' /\ p < x
        /\ p \in FrameItems' /\ ValueAt(p)' < place'[x].from
        /\ text'[ValueAt(p)'] \in Openers
    BY <1>4, <1>6, <1>8, <1>11, <1>12, <1>13, <1>14, <1>16 DEF FramePlace, NULL
  <2>4. ~Unnamed(x)' => text'[ValueAt(p)'] # BeginObject
    BY <1>4, <1>8, <1>12, <1>13 DEF Unnamed, FramePlace, Closer, EndArray, EndObject,
                                    BeginArray, BeginObject
  <2>5. \A q : q = place'[x].in => q = p
    BY <1>11
  <2>6. QED
    BY <1>6, <1>9, <1>10, <2>1, <2>2, <2>3, <2>4, <2>5 DEF ParentsInv
<1>23. NamesInv'
  <2>1. ASSUME NEW y \in Items, heap[y].string # NULL PROVE NamePlace(y)'
    <3>1. heap[y].string \in DOMAIN heap \ Items
      BY <1>2, <2>1 DEF StringsInv
    <3>2. /\ heap[heap[y].string].text = text[place[y].from] /\ place[y].from < Len(text)
          /\ place[y].from + 1 < Len(text) /\ text[place[y].from + 1] = ":"
      BY <1>1, <1>2, <2>1 DEF NamesInv, NamePlace
    <3>3. QED
      BY <1>8, <1>9, <1>10, <3>1, <3>2 DEF NamePlace
  <2>2. ASSUME NEW y \in Items', heap'[y].string = NULL PROVE NamePlace(y)'
    BY <2>2 DEF NamePlace
  <2>3. QED
    BY <1>6, <1>9, <2>1, <2>2 DEF NamesInv
<1>24. NextInv'
  <2>1. ASSUME NEW y \in Items, heap'[y].next # NULL, ~(Top.head # NULL /\ y = Top.current)
        PROVE  NextPlace(y)'
    <3>1. /\ heap'[y].next = heap[y].next /\ heap[y].next \in Items /\ Ended(y)
          /\ text[place[y].to + 1] = Comma
          /\ place[heap[y].next].from = place[y].to + 2
          /\ place[heap[y].next].in = place[y].in
      BY <1>2, <1>9, <2>1 DEF NextInv, NextPlace
    <3>2. QED
      BY <1>6, <1>8, <1>10, <1>12, <3>1 DEF NextPlace
  <2>2. ASSUME NEW y \in Items, Top.head # NULL, y = Top.current PROVE NextPlace(y)'
    <3>1. heap'[y].next = x /\ x \in Items' /\ Ended(y)
      BY <1>2, <1>4, <1>6, <1>9, <1>13, <1>17, <2>2 DEF OpenInv
    <3>2. place[y].to + 2 = Len(text) /\ text[Len(text) - 1] = Comma
      BY <1>1, <1>2, <1>13, <2>2 DEF AtInv
    <3>3. place[y].to \in Nat /\ place[y].to + 1 = Len(text) - 1
      BY <1>2, <1>10, <2>2, <3>2, PlaceAt
    <3>4. text'[place'[y].to + 1] = Comma
      BY <1>8, <1>10, <3>2, <3>3
    <3>5. place[y].in = Top.item
      BY <1>4, <2>2 DEF FramePlace
    <3>6. QED
      BY <1>10, <1>11, <1>12, <3>1, <3>2, <3>4, <3>5 DEF NextPlace
  <2>3. ASSUME NEW y \in Items', heap'[y].next = NULL PROVE NextPlace(y)'
    BY <2>3 DEF NextPlace
  <2>4. QED
    BY <1>6, <1>9, <2>1, <2>2, <2>3 DEF NextInv
<1>25. ValuesInv'
  <2>1. ASSUME NEW y \in Items, Ended(y) PROVE ScalarPlace(y)' \/ ListPlace(y)'
    <3>1. Untouched(y)
      BY <1>9, <1>10, <1>12 DEF Untouched
    <3>2. \A z \in Items : heap'[z].next = NULL => heap[z].next = NULL
      BY <1>6, <1>9
    <3>3. \A z \in Items' \ Items : z \in Addresses /\ place'[z].in \in Items /\ ~Ended(place'[z].in)
      BY <1>6, <1>11, <1>13
    <3>4. \A v \in DOMAIN heap \ Items : v \in DOMAIN heap' /\ heap'[v] = heap[v]
      BY <1>9
    <3>5. QED
      BY <1>2, <1>6, <1>8, <1>10, <2>1, <3>1, <3>2, <3>3, <3>4, LinkedValue
  <2>2. QED
    BY <1>6, <1>11, <1>12, <2>1 DEF ValuesInv
<1>26. FramesInv'
  <2>1. ASSUME NEW i \in 1..Len(stack), i # Len(stack) PROVE FramePlace(stack[i])'
    <3>1. /\ stack[i] \in Frames /\ FramePlace(stack[i]) /\ FrameInv(stack[i])
          /\ stack[i].item # Top.item /\ stack'[i] = stack[i]
      BY <1>2, <1>4, <1>8, <2>1 DEF Frames, FramesInv, StackInv
    <3>2. ASSUME NEW y \in Items', place'[y].in = stack[i].item, heap'[y].next = NULL
          PROVE  y = stack[i].current
      BY <1>6, <1>9, <1>10, <1>11, <3>1, <3>2 DEF FramePlace
    <3>3. stack[i].head # NULL => stack[i].head \in Items /\ stack[i].current \in Items
      BY <3>1 DEF FrameInv
    <3>4. ValueAt(stack[i].item)' = ValueAt(stack[i].item)
      BY <1>12, <3>1 DEF FrameInv
    <3>5. QED
      BY <1>8, <1>10, <3>1, <3>2, <3>3, <3>4 DEF FramePlace
  <2>2. FramePlace(c)'
    <3>1. ValueAt(p)' = ValueAt(p)
      BY <1>12
    <3>2. /\ c.head # NULL /\ place'[c.head].in = Top.item /\ place'[x].in = Top.item
          /\ place'[c.head].from = ValueAt(Top.item) + 1
          /\ text[ValueAt(Top.item) + 1] # Top.closer
      <4>1. CASE Top.head = NULL
        BY <1>1, <1>2, <1>6, <1>7, <1>11, <1>13, <4>1 DEF AtInv, Look
      <4>2. CASE Top.head # NULL
        BY <1>4, <1>7, <1>10, <1>11, <1>13, <4>2 DEF FramePlace
      <4>3. QED
        BY <4>1, <4>2
    <3>3. ASSUME NEW y \in Items', place'[y].in = Top.item, heap'[y].next = NULL
          PROVE  y = x
      <4>1. ASSUME y \in Items PROVE FALSE
        <5>1. heap[y].next = NULL /\ ~(Top.head # NULL /\ y = Top.current)
          BY <1>6, <1>9, <3>3, <4>1
        <5>2. y = Top.current
          BY <1>4, <1>10, <3>3, <4>1, <5>1 DEF FramePlace
        <5>3. QED
          BY <1>6, <1>13, <4>1, <5>1, <5>2 DEF NULL
      <4>2. QED
        BY <1>6, <4>1
    <3>4. QED
      BY <1>4, <1>7, <1>8, <3>1, <3>2, <3>3 DEF FramePlace
  <2>3. \A d \in Frames' : d = c \/ \E i \in 1..Len(stack) : i # Len(stack) /\ d = stack[i]
    BY <1>8 DEF Frames
  <2>4. \A i \in 1..Len(stack) : i # Len(stack) => stack'[i] = stack[i]
    BY <1>8
  <2>6. \A d \in Frames' : FramePlace(d)'
    BY <2>1, <2>2, <2>3, <2>4
  <2>7. QED
    BY <2>6 DEF FramesInv
<1>27. AtInv'
  <2>1. Top' = c
    BY <1>4, <1>8 DEF Top
  <2>2. QED
    BY <1>7, <1>8, <1>11, <2>1 DEF AtInv
<1>28. QED
  BY <1>19, <1>20, <1>21, <1>22, <1>23, <1>24, <1>25, <1>26, <1>27 DEF PlaceInv

LEMMA ClosePlaces ==
  ASSUME IInv, PlaceInv, Close
  PROVE  PlaceInv'
<1>1. Working /\ pc = "close"
  BY DEF Close, Working
<1>2. /\ OpenInv /\ PlaceTypes /\ StringsInv /\ ParentsInv /\ NamesInv /\ NextInv
      /\ ValuesInv /\ FramesInv /\ AtInv /\ TextInv /\ HeapInv /\ StackTypes
      /\ StackInv /\ ItemInv
  BY <1>1, AtPlaces, AtWork
<1>3. stack # <<>> /\ Look = Top.closer
  BY <1>1, <1>2 DEF ItemInv
<1>4. /\ Len(stack) \in Nat \ {0} /\ Len(stack) \in 1..Len(stack)
      /\ Top \in FrameRec /\ Top = stack[Len(stack)] /\ FrameInv(Top)
      /\ Top \in Frames /\ Top.item \in FrameItems /\ FramePlace(Top)
      /\ \A i \in 1..Len(stack) - 1 : stack[i].item # Top.item
  BY <1>2, <1>3, TopFrame, FrameOrder DEF FramesInv
<1>5. PICK p \in Items : p = Top.item
  BY CloseCloses DEF Closes
<1>6. PICK c : c = Top
  OBVIOUS
<1>7. /\ c.item = p /\ FramePlace(c) /\ c \in FrameRec
      /\ c.head = NULL <=> c.current = NULL
      /\ c.head # NULL => /\ c.head \in Items /\ c.current \in Items /\ p < c.current
                          /\ heap[c.current].next = NULL
  BY <1>4, <1>5, <1>6 DEF FrameInv
<1>8. /\ DOMAIN heap' = DOMAIN heap /\ Items' = Items
      /\ \A y \in Items :
           /\ heap'[y].child = IF y = p THEN c.head ELSE heap[y].child
           /\ heap'[y].next = heap[y].next /\ heap'[y].string = heap[y].string
           /\ heap'[y].valuestring = heap[y].valuestring
           /\ y # p => heap'[y].type = heap[y].type
      /\ heap'[p].type = IF c.closer = EndArray THEN "Array" ELSE "Object"
      /\ \A y \in DOMAIN heap \ Items : heap'[y] = heap[y]
  BY <1>5, <1>6, CloseCloses DEF Closes, Links
<1>9. /\ Len(stack') = Len(stack) - 1
      /\ \A i \in 1..Len(stack) - 1 : stack'[i] = stack[i]
      /\ item' = p /\ pc' = "after" /\ Advance
      /\ place' = [place EXCEPT ![p].to = Len(text)]
  BY <1>5, CloseCloses DEF Closes, End
<1>10. /\ Len(text) \in Nat \ {0} /\ Len(text') = Len(text) + 1
       /\ \A i \in 1..Len(text) : text'[i] = text[i]
  BY <1>2, <1>9, TextGrows
<1>11. /\ place'[p] = [place[p] EXCEPT !.to = Len(text)]
       /\ \A y \in Items : /\ y \in DOMAIN place' /\ place[y] \in PlaceRec
                           /\ y # p => place'[y] = place[y]
  BY <1>2, <1>9 DEF PlaceTypes
<1>12. /\ place'[p] \in PlaceRec /\ place'[p].to = Len(text)
       /\ \A y \in Items : /\ place'[y].in = place[y].in /\ place'[y].from = place[y].from
                           /\ y # p => place'[y].to = place[y].to
  BY <1>10, <1>11 DEF PlaceRec
<1>13. \A y \in Items : ValueAt(y)' = ValueAt(y)
  BY <1>8, <1>12 DEF ValueAt
<1>14. Frames' = {stack[i] : i \in 1..Len(stack) - 1}
  BY <1>9 DEF Frames
<1>15. 1..Len(stack) = (1..Len(stack) - 1) \cup {Len(stack)}
  BY <1>4
<1>16. FrameItems = FrameItems' \cup {p} /\ p \notin FrameItems'
  <2>1. Frames = Frames' \cup {c}
    BY <1>4, <1>6, <1>14, <1>15 DEF Frames
  <2>2. p \notin FrameItems'
    BY <1>4, <1>5, <1>14 DEF FrameItems
  <2>3. QED
    BY <1>7, <2>1, <2>2 DEF FrameItems
<1>17. /\ ~Ended(p) /\ Ended(p)'
       /\ \A y \in Items : y # p => (Ended(y)' <=> Ended(y))
  BY <1>2, <1>10, <1>12, <1>16 DEF OpenInv, Ended
<1>18. \A y \in Items : ~AtItem(y) /\ ~AtItem(y)' /\ ~Unnamed(y) /\ ~Unnamed(y)'
  BY <1>1, <1>9 DEF AtItem, Unnamed
<1>19. RootItem' = RootItem
  <2>1. CASE Len(stack) = 1
    <3>1. stack' = <<>>
      BY <1>9, <2>1, EmptySeq, CloseCloses DEF Closes
    <3>2. QED
      BY <1>3, <1>4, <1>5, <1>9, <2>1, <3>1 DEF RootItem
  <2>2. CASE Len(stack) # 1
    <3>1. stack' # <<>> /\ stack'[1] = stack[1]
      BY <1>4, <1>9, <2>2, EmptySeq
    <3>2. QED
      BY <1>3, <3>1 DEF RootItem
  <2>3. QED
    BY <2>1, <2>2
<1>20. PlaceTypes'
  <2>1. ASSUME NEW y \in Items
        PROVE  /\ place'[y] \in PlaceRec /\ place'[y].from <= Len(text')
               /\ place'[y].to < Len(text')
    <3>1. place[y].from \in 1..Len(text) /\ place[y].to \in 0..(Len(text) - 1)
      BY <1>2, PlaceAt
    <3>2. place'[y] \in PlaceRec
      BY <1>11, <1>12
    <3>3. place'[y].to \in {place[y].to, Len(text)} /\ place'[y].from = place[y].from
      BY <1>12
    <3>4. QED
      BY <1>10, <3>1, <3>2, <3>3
  <2>2. QED
    BY <1>8, <1>11, <2>1 DEF PlaceTypes
<1>21. OpenInv'
  BY <1>2, <1>8, <1>16, <1>17, <1>18 DEF OpenInv
<1>22. StringsInv'
  BY <1>2, <1>8 DEF StringsInv
<1>23. ParentsInv'
  <2>1. ASSUME NEW y \in Items, NEW q, q = place[y].in, q # NULL
        PROVE  /\ q \in Items /\ q < y
               /\ Ended(q)' \/ q \in FrameItems'
               /\ ValueAt(q)' < place'[y].from /\ text'[ValueAt(q)'] \in Openers
               /\ heap'[y].string # NULL <=> text'[ValueAt(q)'] = BeginObject
    <3>1. /\ q \in Items /\ q < y /\ (Ended(q) \/ q \in FrameItems)
          /\ ValueAt(q) < place[y].from /\ text[ValueAt(q)] \in Openers
          /\ heap[y].string # NULL <=> text[ValueAt(q)] = BeginObject
      BY <1>2, <1>18, <2>1 DEF ParentsInv
    <3>2. ValueAt(q) \in 1..Len(text)
      BY <1>2, <1>10, <3>1, PlaceAt
    <3>3. ValueAt(q)' = ValueAt(q) /\ text'[ValueAt(q)] = text[ValueAt(q)]
      BY <1>10, <1>13, <3>1, <3>2
    <3>4. Ended(q)' \/ q \in FrameItems'
      BY <1>16, <1>17, <3>1
    <3>5. QED
      BY <1>8, <1>12, <3>1, <3>3, <3>4
  <2>2. ASSUME NEW y \in Items, place[y].in = NULL
        PROVE  y = RootItem' /\ place'[y].from = 1 /\ heap'[y].string = NULL
    BY <1>2, <1>8, <1>12, <1>19, <2>2 DEF ParentsInv
  <2>3. QED
    BY <1>8, <1>12, <2>1, <2>2 DEF ParentsInv
<1>24. NamesInv'
  <2>1. ASSUME NEW y \in Items, heap[y].string # NULL PROVE NamePlace(y)'
    <3>1. heap[y].string \in DOMAIN heap \ Items
      BY <1>2, <2>1 DEF StringsInv
    <3>2. /\ heap[heap[y].string].text = text[place[y].from]
          /\ place[y].from + 1 < Len(text) /\ text[place[y].from + 1] = ":"
      BY <1>1, <1>2, <2>1 DEF NamesInv, NamePlace
    <3>3. place[y].from \in 1..Len(text) /\ place[y].from + 1 \in 1..Len(text)
      BY <1>2, <1>10, <3>2, PlaceAt
    <3>4. /\ text'[place[y].from] = text[place[y].from] /\ text'[place[y].from + 1] = ":"
          /\ place[y].from < Len(text') /\ place[y].from + 1 < Len(text')
      BY <1>10, <3>2, <3>3
    <3>5. QED
      BY <1>8, <1>12, <3>1, <3>2, <3>4 DEF NamePlace
  <2>2. ASSUME NEW y \in Items, heap[y].string = NULL PROVE NamePlace(y)'
    BY <1>8, <2>2 DEF NamePlace
  <2>3. QED
    BY <1>8, <2>1, <2>2 DEF NamesInv
<1>25. NextInv'
  <2>1. ASSUME NEW y \in Items, heap[y].next # NULL PROVE NextPlace(y)'
    <3>1. /\ heap[y].next \in Items /\ Ended(y) /\ text[place[y].to + 1] = Comma
          /\ place[heap[y].next].from = place[y].to + 2
          /\ place[heap[y].next].in = place[y].in
      BY <1>2, <2>1 DEF NextInv, NextPlace
    <3>2. place[y].to + 1 \in 1..Len(text)
      BY <1>2, <1>10, PlaceAt
    <3>3. y # p
      BY <1>17, <3>1
    <3>4. QED
      BY <1>8, <1>10, <1>12, <1>17, <3>1, <3>2, <3>3 DEF NextPlace
  <2>2. ASSUME NEW y \in Items, heap[y].next = NULL PROVE NextPlace(y)'
    BY <1>8, <2>2 DEF NextPlace
  <2>3. QED
    BY <1>8, <2>1, <2>2 DEF NextInv
<1>26. ValuesInv'
  <2>1. ASSUME NEW y \in Items, y # p, Ended(y)' PROVE ScalarPlace(y)' \/ ListPlace(y)'
    <3>1. Ended(y) /\ Untouched(y)
      BY <1>8, <1>12, <1>13, <1>17, <2>1 DEF Untouched
    <3>2. \A z \in Items : Ended(z) => place'[z].to = place[z].to
      BY <1>12, <1>17
    <3>3. QED
      BY <1>2, <1>8, <1>10, <1>12, <3>1, <3>2, LinkedValue
  <2>2. ListPlace(p)'
    <3>1. /\ ValueAt(p) < Len(text) /\ text[ValueAt(p)] \in Openers
          /\ c.closer = Closer(text[ValueAt(p)]) /\ ValueAt(p) \in Nat \ {0}
      BY <1>2, <1>7, PlaceAt DEF FramePlace
    <3>2. /\ text'[ValueAt(p)] = text[ValueAt(p)] /\ text'[Len(text)] = c.closer
          /\ text'[ValueAt(p) + 1] = text[ValueAt(p) + 1]
      BY <1>3, <1>6, <1>10, <3>1 DEF Look
    <3>3. \/ heap'[p].type = "Array" /\ text[ValueAt(p)] = BeginArray
          \/ heap'[p].type = "Object" /\ text[ValueAt(p)] = BeginObject
      BY <1>8, <3>1 DEF Openers, Closer, EndArray, EndObject, BeginArray, BeginObject
    <3>4. c.head = NULL => Len(text) = ValueAt(p) + 1
      BY <1>1, <1>2, <1>6, <1>7 DEF AtInv
    <3>5. c.head # NULL => /\ place[c.head].in = p /\ place[c.head].from = ValueAt(p) + 1
                           /\ text[ValueAt(p) + 1] # c.closer
      BY <1>7 DEF FramePlace
    <3>6. ASSUME NEW y \in Items, place[y].in = p, heap[y].next = NULL
          PROVE  place'[y].to = Len(text) - 1
      <4>1. y = c.current /\ y # NULL
        BY <1>2, <1>7, <3>6, ItemFields DEF FramePlace, Addresses, NULL
      <4>2. place[y].to + 1 = Len(text)
        BY <1>1, <1>2, <1>6, <4>1 DEF AtInv
      <4>3. y # p /\ place[y].to \in Nat
        BY <1>2, <1>7, <4>1, <3>6, ItemFields, BoundsAssumption DEF Addresses, PlaceTypes, PlaceRec
      <4>4. QED
        BY <1>12, <4>2, <4>3, <3>6
    <3>7. /\ ValueAt(p)' = ValueAt(p) /\ heap'[p].child = c.head /\ place'[p].to = Len(text)
      BY <1>8, <1>12, <1>13
    <3>8. c.head # NULL => /\ c.head \in Items'
                           /\ place'[c.head].in = p /\ place'[c.head].from = ValueAt(p) + 1
      BY <1>7, <1>8, <1>12, <3>5
    <3>9. \A y \in Items' :
            place'[y].in = p /\ heap'[y].next = NULL => place'[y].to = Len(text) - 1
      BY <1>8, <1>12, <3>6
    <3>10. text'[place'[p].to] = Closer(text'[ValueAt(p)'])
      BY <3>1, <3>2, <3>7
    <3>11. QED
      BY <3>1, <3>2, <3>3, <3>4, <3>5, <3>7, <3>8, <3>9, <3>10 DEF ListPlace
  <2>3. QED
    BY <1>8, <2>1, <2>2 DEF ValuesInv
<1>27. FramesInv'
  <2>1. ASSUME NEW d \in Frames' PROVE FramePlace(d)'
    <3>1. d \in Frames /\ FramePlace(d)
      BY <1>2, <1>14, <1>15 DEF Frames, FramesInv
    <3>2. FrameInv(d)
      BY <1>1, <3>1, FrameOf
    <3>3. d.item \in Items /\ (d.head # NULL => d.head \in Items /\ d.current \in Items)
      BY <3>2 DEF FrameInv
    <3>4. /\ ValueAt(d.item)' = ValueAt(d.item) /\ ValueAt(d.item) \in Nat \ {0}
          /\ ValueAt(d.item) < Len(text)
      BY <1>2, <1>13, <3>1, <3>3, PlaceAt DEF FramePlace
    <3>5. /\ text'[ValueAt(d.item)] = text[ValueAt(d.item)]
          /\ text'[ValueAt(d.item) + 1] = text[ValueAt(d.item) + 1]
          /\ ValueAt(d.item) < Len(text')
      BY <1>10, <3>4
    <3>6. QED
      BY <1>8, <1>12, <3>1, <3>3, <3>4, <3>5 DEF FramePlace
  <2>2. QED
    BY <2>1 DEF FramesInv
<1>28. AtInv'
  BY <1>8, <1>9, <1>10, <1>12 DEF AtInv
<1>29. QED
  BY <1>20, <1>21, <1>22, <1>23, <1>24, <1>25, <1>26, <1>27, <1>28 DEF PlaceInv

LEMMA StepPlaces == IInv /\ PlaceInv /\ [Next]_vars => PlaceInv'
<1> SUFFICES ASSUME IInv, PlaceInv, [Next]_vars PROVE PlaceInv'
  OBVIOUS
<1>1. CASE pc' \in {"fail", "failed", "released"}
  BY <1>1 DEF PlaceInv, Working
<1>2. CASE pc' \notin {"fail", "failed", "released"}
  <2>1. CASE NewRoot
    BY <1>2, <2>1, RootPlaces
  <2>2. CASE ParseWord \/ ParseNumber \/ ParseString
    BY <1>2, <2>2, ValueEnds, ScalarPlaces
  <2>3. CASE ParseNothing \/ TooDeep \/ NoName
    BY <1>2, <2>3 DEF ParseNothing, TooDeep, NoName, Reject, OutOfMemory, Fail
  <2>4. CASE OpenArray \/ OpenObject
    BY <2>4, OpenPlaces DEF OpenArray, OpenObject, Openers
  <2>5. CASE Element
    BY <1>2, <2>5, ElementPlaces
  <2>6. CASE Name
    BY <1>2, <2>6, NamePlaces
  <2>7. CASE Colon
    BY <1>2, <2>7, ColonPlaces
  <2>8. CASE After
    BY <1>2, <2>8, AfterPlaces
  <2>9. CASE Close
    BY <2>9, ClosePlaces
  <2>10. CASE Unwind \/ GiveUp \/ Release
    BY <1>2, <2>10 DEF Unwind, GiveUp, Release
  <2>11. CASE UNCHANGED vars
    <3>1. UNCHANGED <<text, heap, stack, item, pc, place>>
      BY <2>11 DEF vars
    <3>2. CASE Working \/ pc = "done"
      <4>1. /\ OpenInv /\ PlaceTypes /\ StringsInv /\ ParentsInv /\ NamesInv /\ NextInv
            /\ ValuesInv /\ FramesInv /\ AtInv
        BY <3>2 DEF PlaceInv
      <4>2. /\ Items' = Items /\ Frames' = Frames /\ FrameItems' = FrameItems
            /\ RootItem' = RootItem /\ Top' = Top /\ Look' = Look
        BY <3>1 DEF Items, IsItem, Frames, FrameItems, RootItem, Top, Look
      <4>3. OpenInv' /\ PlaceTypes' /\ StringsInv' /\ NamesInv' /\ NextInv'
        BY <3>1, <4>1, <4>2 DEF OpenInv, PlaceTypes, StringsInv, NamesInv, NamePlace,
                                NextInv, NextPlace, Ended, AtItem
      <4>4. ParentsInv'
        BY <3>1, <4>1, <4>2 DEF ParentsInv, ValueAt, Ended, Unnamed
      <4>5. ValuesInv'
        BY <3>1, <4>1, <4>2 DEF ValuesInv, ValueAt, Ended, ScalarPlace, SaysScalar, Said, ListPlace
      <4>6. FramesInv' /\ AtInv'
        BY <3>1, <4>1, <4>2 DEF FramesInv, FramePlace, AtInv, ValueAt
      <4>7. QED
        BY <4>3, <4>4, <4>5, <4>6 DEF PlaceInv
    <3>3. CASE ~(Working \/ pc = "done")
      BY <3>1, <3>3 DEF PlaceInv, Working
    <3>4. QED
      BY <3>2, <3>3
  <2>12. QED
    BY <2>1, <2>2, <2>3, <2>4, <2>5, <2>6, <2>7, <2>8, <2>9, <2>10, <2>11 DEF Next
<1>3. QED
  BY <1>1, <1>2

LEMMA InitPlaces == Init => PlaceInv
<1> SUFFICES ASSUME Init PROVE PlaceInv
  OBVIOUS
<1>1. Items = {} /\ Frames = {} /\ pc = "root" /\ Len(text) = 1
  BY EmptySeq DEF Init, Items, Frames
<1>2. QED
  BY <1>1 DEF PlaceInv, OpenInv, PlaceTypes, StringsInv, ParentsInv, NamesInv, NextInv,
              ValuesInv, FramesInv, AtInv
-----------------------------------------------------------------------------
(* What the finished tree says *)

LEMMA DonePlaces ==
  ASSUME IInv, ListsInv, PlaceInv, pc = "done"
  PROVE  /\ OpenInv /\ PlaceTypes /\ StringsInv /\ ParentsInv /\ NamesInv /\ NextInv
         /\ ValuesInv /\ FramesInv /\ AtInv
         /\ TextInv /\ HeapInv /\ OwnInv /\ LinksInv
         /\ stack = <<>> /\ RootItem = item /\ item \in Items
         /\ \A x \in Items : Ended(x) /\ ~AtItem(x) /\ ~Unnamed(x)
<1>1. /\ OpenInv /\ PlaceTypes /\ StringsInv /\ ParentsInv /\ NamesInv /\ NextInv
      /\ ValuesInv /\ FramesInv /\ AtInv
      /\ TextInv /\ HeapInv /\ OwnInv /\ LinksInv /\ stack = <<>>
  BY DEF PlaceInv, IInv, ListsInv, EndInv
<1>2. RootItem = item /\ item \in Items
  BY <1>1 DEF RootItem, AtInv
<1>3. FrameItems = {}
  BY <1>1, EmptySeq DEF FrameItems, Frames
<1>4. \A x \in Items : Ended(x) /\ ~AtItem(x) /\ ~Unnamed(x)
  BY <1>1, <1>3 DEF OpenInv, AtItem, Unnamed
<1>5. QED
  BY <1>1, <1>2, <1>4

\* The root is the first item, and the only one that is in no list.
LEMMA RootPlace ==
  ASSUME HeapInv, ParentsInv, Items # {}
  PROVE  /\ RootItem \in Items /\ place[RootItem].in = NULL
         /\ place[RootItem].from = 1 /\ heap[RootItem].string = NULL
<1>1. Items \in SUBSET Nat /\ NULL \notin Items
  BY ItemFields, BoundsAssumption DEF Addresses, NULL
<1>2. PICK r \in Items : \A y \in Items : r <= y
  BY <1>1, LeastAddress
<1>3. place[r].in = NULL
  <2>1. ASSUME place[r].in # NULL PROVE FALSE
    <3>1. place[r].in \in Items /\ place[r].in < r
      BY <2>1 DEF ParentsInv
    <3>2. r <= place[r].in /\ r \in Nat /\ place[r].in \in Nat
      BY <1>1, <1>2, <3>1
    <3>3. QED
      BY <3>1, <3>2
  <2>2. QED
    BY <2>1
<1>4. r = RootItem /\ place[r].from = 1 /\ heap[r].string = NULL
  BY <1>3 DEF ParentsInv
<1>5. QED
  BY <1>3, <1>4

\* The siblings of an element are in the same list.
LEMMA SameList ==
  ASSUME HeapInv, NextInv, NEW x, NEW h \in Items, place[h].in = x, NEW t \in Items,
         t \in Siblings(h)
  PROVE  place[t].in = x
<1> DEFINE S == {y \in Items : place[y].in = x}
<1>1. S \subseteq DOMAIN heap /\ h \in S
  BY DEF Items
<1>2. ASSUME NEW y \in S PROVE heap[y]["next"] \in S \cup {NULL}
  BY <1>2 DEF NextInv, NextPlace
<1>3. Closed(heap, S, {"next"})
  BY <1>2 DEF Closed
<1>4. t \in S
  BY <1>1, <1>3 DEF Siblings, Reached
<1>5. QED
  BY <1>4

LEMMA TailPlace ==
  ASSUME IInv, ListsInv, PlaceInv, pc = "done", NEW x \in Items, heap[x].child # NULL
  PROVE  /\ ListPlace(x) /\ heap[x].child \in Items
         /\ heap[heap[x].child].prev \in Items
         /\ place[heap[heap[x].child].prev].in = x
         /\ place[heap[heap[x].child].prev].to = place[x].to - 1
<1> DEFINE h == heap[x].child
           t == heap[heap[x].child].prev
<1>1. HeapInv /\ NextInv /\ ValuesInv /\ LinksInv /\ Ended(x)
  BY DonePlaces
<1>2. ListPlace(x)
  BY <1>1 DEF ValuesInv, ScalarPlace
<1>3. h \in Items /\ place[h].in = x
  BY <1>2 DEF ListPlace
<1>4. t \in Items /\ t \in Siblings(h) /\ heap[t].next = NULL
  BY <1>1 DEF LinksInv, IsTail
<1> HIDE DEF h, t
<1>5. place[t].in = x
  BY <1>1, <1>3, <1>4, SameList
<1>6. place[t].to = place[x].to - 1
  BY <1>2, <1>4, <1>5 DEF ListPlace
<1>7. QED
  BY <1>2, <1>3, <1>4, <1>5, <1>6 DEF h, t

LEMMA PlacesRead == IInv /\ ListsInv /\ PlaceInv => ReadsInPlace
<1> SUFFICES ASSUME IInv, ListsInv, PlaceInv, pc = "done" PROVE ReadsInPlace
  BY DEF ReadsInPlace
<1>1. /\ PlaceTypes /\ ParentsInv /\ NamesInv /\ NextInv /\ ValuesInv /\ AtInv /\ HeapInv
      /\ TextInv /\ item \in Items /\ RootItem = item
      /\ \A x \in Items : Ended(x) /\ ~Unnamed(x)
  BY DonePlaces
<1>2. heap[item].string = NULL /\ place[item].from = 1
  BY <1>1, RootPlace
<1>3. place[item].to = Len(text) - 1
  BY <1>1, PlaceAt DEF AtInv
<1>4. ASSUME NEW x \in Items PROVE SaysScalar(x) \/ SaysList(x)
  <2>1. ScalarPlace(x) \/ ListPlace(x)
    BY <1>1 DEF ValuesInv
  <2>2. CASE ScalarPlace(x)
    BY <2>2 DEF ScalarPlace
  <2>3. CASE ListPlace(x) /\ heap[x].child = NULL
    BY <2>3 DEF ListPlace, SaysList
  <2>4. CASE ListPlace(x) /\ heap[x].child # NULL
    <3>1. /\ heap[x].child \in Items /\ place[heap[x].child].in = x
          /\ place[heap[x].child].from = ValueAt(x) + 1
      BY <2>4 DEF ListPlace
    <3>2. x # NULL
      BY <1>1, ItemFields DEF Addresses, NULL
    <3>3. heap[heap[x].child].string # NULL <=> text[ValueAt(x)] = BeginObject
      BY <1>1, <3>1, <3>2 DEF ParentsInv
    <3>4. text[ValueAt(x)] = BeginObject <=> heap[x].type = "Object"
      BY <2>4 DEF ListPlace, BeginObject, BeginArray
    <3>5. place[heap[heap[x].child].prev].to = place[x].to - 1
      BY <2>4, TailPlace
    <3>6. QED
      BY <2>4, <3>1, <3>3, <3>4, <3>5 DEF ListPlace, SaysList
  <2>5. QED
    BY <2>1, <2>2, <2>3, <2>4
<1>5. ASSUME NEW x \in Items PROVE SaysName(x)
  BY <1>1 DEF NamesInv, NamePlace, SaysName
<1>6. ASSUME NEW x \in Items, heap[x].next # NULL PROVE FollowedBy(x, heap[x].next)
  <2> DEFINE y == heap[x].next
  <2>1. /\ y \in Items /\ text[place[x].to + 1] = Comma
        /\ place[y].from = place[x].to + 2 /\ place[y].in = place[x].in
    BY <1>1, <1>6 DEF NextInv, NextPlace
  <2> HIDE DEF y
  <2>2. (heap[x].string = NULL) <=> (heap[y].string = NULL)
    BY <1>1, <2>1 DEF ParentsInv
  <2>3. QED
    BY <2>1, <2>2 DEF y, FollowedBy
<1>7. QED
  BY <1>1, <1>2, <1>3, <1>4, <1>5, <1>6 DEF ReadsInPlace
-----------------------------------------------------------------------------
(* What is accepted is JSON *)

\* What an item says is a scalar.
LEMMA SaidIsScalar ==
  ASSUME HeapInv, StringsInv, NEW x \in Items, SaysScalar(x)
  PROVE  text[ValueAt(x)] \in Scalars
<1>1. CASE heap[x].type = "String"
  <2>1. heap[x].valuestring \in DOMAIN heap \ Items
    BY <1>1 DEF SaysScalar, StringsInv
  <2>2. heap[heap[x].valuestring] \in StrRec
    <3>1. heap[heap[x].valuestring].type = "Chars"
      BY <2>1 DEF Items, IsItem
    <3>2. heap[heap[x].valuestring] \notin ItemRec
      BY <3>1 DEF ItemRec, Kinds, Words
    <3>3. QED
      BY <2>1, <3>2 DEF HeapInv
  <2>3. QED
    BY <1>1, <2>2 DEF SaysScalar, Said, StrRec, Scalars
<1>2. CASE heap[x].type = "Number"
  BY <1>2 DEF SaysScalar, Said, Scalars
<1>3. CASE heap[x].type \in Words
  BY <1>3 DEF SaysScalar, Said, Scalars, Words
<1>4. QED
  BY <1>1, <1>2, <1>3 DEF SaysScalar

LEMMA NameIsString ==
  ASSUME HeapInv, StringsInv, NamesInv, NEW x \in Items, heap[x].string # NULL
  PROVE  text[place[x].from] \in Strings
<1>1. heap[x].string \in DOMAIN heap \ Items
  BY DEF StringsInv
<1>2. heap[heap[x].string].type = "Chars"
  BY <1>1 DEF Items, IsItem
<1>3. heap[heap[x].string] \notin ItemRec
  BY <1>2 DEF ItemRec, Kinds, Words
<1>4. heap[heap[x].string] \in StrRec
  BY <1>1, <1>3 DEF HeapInv
<1>5. QED
  BY <1>4 DEF StrRec, NamesInv, NamePlace

\* What stands in the place of a list's element, when its value is known to be one.
LEMMA ElementReads ==
  ASSUME IInv, ListsInv, PlaceInv, pc = "done", NEW t, NEW S,
         \A i \in 1..(Len(text) - 1) : t[i] = text[i],
         NEW x \in Items, NEW y \in Items, place[y].in = x,
         <<"value", ValueAt(y), place[y].to>> \in S, ValueAt(y) <= place[y].to
  PROVE  Elements(t, S, text[ValueAt(x)], place[y].from, place[y].to)
<1>1. /\ PlaceTypes /\ ParentsInv /\ NamesInv /\ HeapInv /\ StringsInv /\ TextInv
      /\ ~Unnamed(y) /\ pc # "colon"
  BY DonePlaces
<1>2. x # NULL
  BY <1>1, ItemFields DEF Addresses, NULL
<1>3. heap[y].string # NULL <=> text[ValueAt(x)] = BeginObject
  BY <1>1, <1>2 DEF ParentsInv
<1>4. text[ValueAt(x)] \in Openers
  BY <1>1, <1>2 DEF ParentsInv
<1>5. CASE heap[y].string = NULL
  <2>1. text[ValueAt(x)] = BeginArray
    BY <1>3, <1>4, <1>5 DEF Openers
  <2>2. ValueAt(y) = place[y].from
    BY <1>1, <1>5 DEF ValueAt, PlaceTypes, PlaceRec
  <2>3. QED
    BY <2>1, <2>2 DEF Elements
<1>6. CASE heap[y].string # NULL
  <2>1. text[ValueAt(x)] # BeginArray
    BY <1>3, <1>6 DEF BeginArray, BeginObject
  <2>2. ValueAt(y) = place[y].from + 2 /\ place[y].from \in Nat \ {0}
    BY <1>1, <1>6 DEF ValueAt, PlaceTypes, PlaceRec
  <2>3. text[place[y].from] \in Strings /\ text[place[y].from + 1] = ":"
    BY <1>1, <1>6, NameIsString DEF NamesInv, NamePlace
  <2>4. place[y].from \in 1..(Len(text) - 1) /\ place[y].from + 1 \in 1..(Len(text) - 1)
    BY <1>1, <2>2, PlaceAt
  <2>5. QED
    BY <2>1, <2>2, <2>3, <2>4 DEF Elements
<1>7. QED
  BY <1>5, <1>6

\* Each element of a list comes first in it or behind another one.
LEMMA FirstOrNext ==
  ASSUME IInv, ListsInv, PlaceInv, pc = "done", NEW x \in Items, NEW y \in Items,
         place[y].in = x
  PROVE  \/ heap[x].child = y
         \/ \E w \in Items : heap[w].next = y /\ w < y
<1>1. /\ HeapInv /\ OwnInv /\ StringsInv /\ ParentsInv /\ ValuesInv /\ NextInv
      /\ stack = <<>> /\ RootItem = item /\ \A z \in Items : Ended(z)
  BY DonePlaces
<1>2. y # NULL /\ x # NULL /\ y \in DOMAIN heap
  BY <1>1, ItemFields DEF Addresses, NULL
<1>3. PICK a \in Nat, f \in Roles : Refs[a][f] = y
  BY <1>1, <1>2 DEF OwnInv, Owned
<1>4. f # "root"
  <2>1. RootItem # y
    <3>1. place[RootItem].in = NULL
      BY <1>1, RootPlace
    <3>2. QED
      BY <1>2, <3>1
  <2>2. QED
    BY <1>2, <1>3, <2>1, RefCases
<1>5. f # "head"
  <2>1. 1..Len(stack) = {}
    BY <1>1, EmptySeq
  <2>2. QED
    BY <1>2, <1>3, <2>1, RefCases
<1>6. f \in Links /\ a \in Items /\ heap[a][f] = y
  BY <1>2, <1>3, <1>4, <1>5, RefCases DEF Roles
<1>7. a < y
  BY <1>1, <1>2, <1>6 DEF HeapInv
<1>8. CASE f = "child"
  <2>1. heap[a].child = y
    BY <1>6, <1>8
  <2>2. ListPlace(a)
    BY <1>1, <1>2, <1>6, <2>1 DEF ValuesInv, ScalarPlace
  <2>3. a = x
    BY <1>2, <2>1, <2>2 DEF ListPlace
  <2>4. QED
    BY <2>1, <2>3
<1>9. CASE f = "next"
  BY <1>6, <1>7, <1>9
<1>10. CASE f \in {"string", "valuestring"}
  BY <1>1, <1>2, <1>6, <1>10 DEF StringsInv
<1>11. QED
  BY <1>6, <1>8, <1>9, <1>10 DEF Links

\* The rules, one at a time.
LEMMA Rules ==
  ASSUME NEW t, NEW S, ClosedUnderRules(t, S), NEW k \in {"value"} \cup Openers,
         NEW i \in DOMAIN t, NEW j \in DOMAIN t, IsPhrase(t, S, k, i, j)
  PROVE  <<k, i, j>> \in S
<1>1. <<k, i, j>> \in Phrases(t)
  BY DEF Phrases
<1>2. <<k, i, j>>[1] = k /\ <<k, i, j>>[2] = i /\ <<k, i, j>>[3] = j
  OBVIOUS
<1>3. QED
  BY <1>1, <1>2 DEF ClosedUnderRules

LEMMA ScalarRule ==
  ASSUME NEW t, NEW S, ClosedUnderRules(t, S), NEW i \in DOMAIN t, t[i] \in Scalars
  PROVE  <<"value", i, i>> \in S
BY Rules DEF IsPhrase

LEMMA BracketRule ==
  ASSUME NEW t, NEW S, ClosedUnderRules(t, S), NEW i \in DOMAIN t, NEW j \in DOMAIN t,
         t[i] \in Openers, t[j] = Closer(t[i]),
         j = i + 1 \/ <<t[i], i + 1, j - 1>> \in S
  PROVE  <<"value", i, j>> \in S
BY Rules DEF IsPhrase

LEMMA FirstRule ==
  ASSUME NEW t, NEW S, ClosedUnderRules(t, S), NEW k \in Openers,
         NEW i \in DOMAIN t, NEW j \in DOMAIN t, Elements(t, S, k, i, j)
  PROVE  <<k, i, j>> \in S
BY Rules DEF IsPhrase

LEMMA NextRule ==
  ASSUME NEW t, NEW S, ClosedUnderRules(t, S), NEW k \in Openers,
         NEW i \in DOMAIN t, NEW j \in DOMAIN t, NEW m \in DOMAIN t,
         <<k, i, m>> \in S, t[m + 1] = Comma, Elements(t, S, k, m + 2, j)
  PROVE  <<k, i, j>> \in S
BY Rules DEF IsPhrase

LEMMA DoneAt ==
  ASSUME IInv, ListsInv, PlaceInv, pc = "done", NEW x \in Items
  PROVE  /\ Len(text) \in Nat /\ x \in Nat /\ x \in 1..2 * MaxTokens
         /\ place[x].from \in Nat \ {0} /\ place[x].to \in 1..(Len(text) - 1)
         /\ ValueAt(x) \in Nat \ {0} /\ place[x].from <= ValueAt(x)
<1>1. PlaceTypes /\ HeapInv /\ TextInv /\ place[x].to # 0
  BY DonePlaces DEF Ended
<1>2. /\ Len(text) \in Nat /\ place[x].from \in Nat \ {0}
      /\ place[x].to \in 0..(Len(text) - 1)
      /\ ValueAt(x) \in {place[x].from, place[x].from + 2} /\ ValueAt(x) \in Nat \ {0}
  BY <1>1, PlaceAt
<1>3. x \in 1..2 * MaxTokens /\ x \in Nat
  BY <1>1, ItemFields, BoundsAssumption DEF Addresses
<1>4. place[x].to \in 1..(Len(text) - 1)
  BY <1>1, <1>2
<1>5. QED
  BY <1>2, <1>3, <1>4

\* All of a list up to one of its elements, if the values of the elements are known.
LEMMA ListReads ==
  ASSUME IInv, ListsInv, PlaceInv, pc = "done", NEW t, NEW S, ClosedUnderRules(t, S),
         DOMAIN t = 1..(Len(text) - 1), \A i \in DOMAIN t : t[i] = text[i],
         NEW x \in Items,
         \A y \in Items : place[y].in = x =>
           <<"value", ValueAt(y), place[y].to>> \in S /\ ValueAt(y) <= place[y].to,
         NEW z \in Items, place[z].in = x
  PROVE  <<text[ValueAt(x)], ValueAt(x) + 1, place[z].to>> \in S
<1> DEFINE k == text[ValueAt(x)]
           i == ValueAt(x) + 1
           Bad == {y \in Items : place[y].in = x /\ <<k, i, place[y].to>> \notin S}
<1>1. /\ PlaceTypes /\ ParentsInv /\ ValuesInv /\ NextInv /\ HeapInv /\ TextInv
      /\ \A y \in Items : Ended(y)
  BY DonePlaces
<1>2. /\ Len(text) \in Nat
      /\ \A y \in Items : /\ place[y].from \in Nat \ {0} /\ y \in Nat
                          /\ ValueAt(y) \in Nat \ {0} /\ place[y].to \in DOMAIN t
                          /\ place[y].from <= ValueAt(y)
  BY DoneAt, DonePlaces DEF TextInv
<1>3. SUFFICES ASSUME Bad # {} PROVE FALSE
  OBVIOUS
<1>4. PICK y \in Bad : \A w \in Bad : y <= w
  BY <1>2, <1>3, LeastAddress
<1>5. /\ y \in Items /\ place[y].in = x /\ <<k, i, place[y].to>> \notin S
      /\ <<"value", ValueAt(y), place[y].to>> \in S /\ ValueAt(y) <= place[y].to
  BY <1>4
<1>6. Elements(t, S, k, place[y].from, place[y].to)
  BY <1>5, ElementReads
<1>7. k \in Openers
  <2>1. x # NULL
    BY <1>1, ItemFields DEF Addresses, NULL
  <2>2. QED
    BY <1>1, <1>5, <2>1 DEF ParentsInv
<1>8. ValueAt(x) < place[y].from
  <2>1. x # NULL
    BY <1>1, ItemFields DEF Addresses, NULL
  <2>2. QED
    BY <1>1, <1>5, <2>1 DEF ParentsInv
<1>9. i \in DOMAIN t /\ place[y].to \in DOMAIN t
  <2>1. /\ Len(text) \in Nat /\ place[y].to \in 1..(Len(text) - 1) /\ ValueAt(y) \in Nat
        /\ place[y].from \in Nat /\ place[y].from <= ValueAt(y) /\ ValueAt(x) \in Nat \ {0}
    BY <1>5, DoneAt
  <2>2. ValueAt(x) + 1 \in 1..(Len(text) - 1)
    BY <1>5, <1>8, <2>1
  <2>3. QED
    BY <2>1, <2>2
<1> HIDE DEF k, i
<1>10. CASE heap[x].child = y
  <2>1. y # NULL
    BY <1>1, <1>5, ItemFields DEF Addresses, NULL
  <2>2. place[y].from = i
    BY <1>1, <1>10, <2>1 DEF ValuesInv, ScalarPlace, ListPlace, i
  <2>3. QED
    BY <1>5, <1>6, <1>7, <1>9, <2>2, FirstRule
<1>11. CASE \E w \in Items : heap[w].next = y /\ w < y
  <2>1. PICK w \in Items : heap[w].next = y /\ w < y
    BY <1>11
  <2>2. y # NULL
    BY <1>1, <1>5, ItemFields DEF Addresses, NULL
  <2>3. /\ text[place[w].to + 1] = Comma /\ place[y].from = place[w].to + 2
        /\ place[w].in = x
    BY <1>1, <1>5, <2>1, <2>2 DEF NextInv, NextPlace
  <2>4. <<k, i, place[w].to>> \in S
    <3>1. w \in Nat /\ y \in Nat /\ ~(y <= w)
      BY <1>2, <1>5, <2>1
    <3>2. w \notin Bad
      BY <1>4, <3>1
    <3>3. QED
      BY <2>1, <2>3, <3>2
  <2>5. place[w].to \in DOMAIN t /\ place[w].to + 1 \in DOMAIN t
    <3>1. /\ place[w].to \in 1..(Len(text) - 1) /\ place[y].to \in 1..(Len(text) - 1)
          /\ ValueAt(y) \in Nat /\ place[y].from <= ValueAt(y)
      BY <1>2, <1>5, <2>1
    <3>2. Len(text) \in Nat /\ place[y].from = place[w].to + 2 /\ ValueAt(y) <= place[y].to
      BY <1>2, <1>5, <2>3
    <3>3. place[w].to + 1 \in 1..(Len(text) - 1)
      BY <3>1, <3>2
    <3>4. QED
      BY <3>1, <3>3
  <2>6. t[place[w].to + 1] = Comma
    BY <2>3, <2>5
  <2>7. QED
    <3>1. Elements(t, S, k, place[w].to + 2, place[y].to)
      BY <1>6, <2>3
    <3>2. <<k, i, place[y].to>> \in S
      BY <1>7, <1>9, <2>4, <2>5, <2>6, <3>1, NextRule
    <3>3. QED
      BY <1>5, <3>2
<1>12. QED
  BY <1>5, <1>10, <1>11, FirstOrNext

\* Every item stands where a value does.
LEMMA ItemReads ==
  ASSUME IInv, ListsInv, PlaceInv, pc = "done", NEW t, NEW S, ClosedUnderRules(t, S),
         DOMAIN t = 1..(Len(text) - 1), \A i \in DOMAIN t : t[i] = text[i],
         NEW x \in Items
  PROVE  <<"value", ValueAt(x), place[x].to>> \in S /\ ValueAt(x) <= place[x].to
<1> DEFINE Good(y) == <<"value", ValueAt(y), place[y].to>> \in S /\ ValueAt(y) <= place[y].to
           Bad == {n \in Nat : \E y \in Items : n = 2 * MaxTokens - y /\ ~Good(y)}
<1>1. /\ PlaceTypes /\ ParentsInv /\ ValuesInv /\ NextInv /\ HeapInv /\ TextInv /\ StringsInv
      /\ \A y \in Items : Ended(y)
  BY DonePlaces
<1>2. /\ Len(text) \in Nat
      /\ \A y \in Items : /\ ValueAt(y) \in Nat \ {0} /\ place[y].to \in DOMAIN t
                          /\ y \in 1..2 * MaxTokens
  BY DoneAt, DonePlaces DEF TextInv
<1>3. SUFFICES ASSUME ~Good(x) PROVE FALSE
  OBVIOUS
<1>4. PICK y \in Items : ~Good(y) /\ \A w \in Items : ~Good(w) => w <= y
  <2>1. 2 * MaxTokens - x \in Bad
    BY <1>2, <1>3, BoundsAssumption
  <2>2. PICK n \in Bad : \A m \in Bad : n <= m
    BY <2>1, LeastAddress
  <2>3. PICK y \in Items : n = 2 * MaxTokens - y /\ ~Good(y)
    BY <2>2
  <2>4. ASSUME NEW w \in Items, ~Good(w) PROVE w <= y
    <3>1. 2 * MaxTokens - w \in Bad
      <4>1. 2 * MaxTokens - w \in Nat
        BY <1>2, BoundsAssumption
      <4>2. QED
        BY <2>4, <4>1
    <3>2. n <= 2 * MaxTokens - w
      BY <2>2, <3>1
    <3>3. QED
      BY <1>2, <2>3, <3>2, BoundsAssumption
  <2>5. QED
    BY <2>3, <2>4
<1>5. ASSUME NEW z \in Items, place[z].in = y PROVE Good(z)
  <2>1. y < z /\ y \in Nat /\ z \in Nat
    <3>1. y # NULL
      BY <1>2 DEF NULL
    <3>2. QED
      BY <1>1, <1>2, <1>5, <3>1, BoundsAssumption DEF ParentsInv
  <2>2. QED
    BY <1>4, <2>1
<1>6. CASE ScalarPlace(y)
  <2>1. place[y].to = ValueAt(y) /\ text[ValueAt(y)] \in Scalars
    BY <1>1, <1>6, SaidIsScalar DEF ScalarPlace, SaysScalar
  <2>2. ValueAt(y) \in DOMAIN t /\ ValueAt(y) \in Nat
    BY <1>2, <2>1
  <2>4. t[ValueAt(y)] \in Scalars
    BY <2>1, <2>2
  <2>5. <<"value", ValueAt(y), ValueAt(y)>> \in S
    BY <2>2, <2>4, ScalarRule
  <2>3. QED
    BY <1>4, <2>1, <2>2, <2>5
<1>7. CASE ListPlace(y)
  <2> DEFINE k == text[ValueAt(y)]
             i == ValueAt(y)
             j == place[y].to
  <2>1. k \in Openers /\ text[j] = Closer(k) /\ i < j
    BY <1>7 DEF ListPlace, Openers
  <2>2. i \in DOMAIN t /\ j \in DOMAIN t
    BY <1>2, <2>1
  <2>3. j = i + 1 \/ <<k, i + 1, j - 1>> \in S
    <3>1. CASE heap[y].child = NULL
      BY <1>7, <3>1 DEF ListPlace
    <3>2. CASE heap[y].child # NULL
      <4> DEFINE z == heap[heap[y].child].prev
      <4>1. z \in Items /\ place[z].in = y /\ place[z].to = j - 1
        BY <3>2, TailPlace
      <4> HIDE DEF z
      <4>2. <<k, i + 1, place[z].to>> \in S
        BY <1>5, <4>1, ListReads
      <4>3. QED
        BY <4>1, <4>2
    <3>3. QED
      BY <3>1, <3>2
  <2>4. t[i] = k /\ t[j] = Closer(k)
    BY <2>1, <2>2
  <2>5. <<"value", i, j>> \in S
    BY <2>1, <2>2, <2>3, <2>4, BracketRule
  <2>6. i <= j
    BY <2>1, DoneAt
  <2>7. QED
    BY <1>4, <2>5, <2>6
<1>8. QED
  BY <1>1, <1>4, <1>6, <1>7 DEF ValuesInv

LEMMA PlacesParse ==
  ASSUME IInv, ListsInv, PlaceInv, pc = "done"
  PROVE  IsJson(SubSeq(text, 1, Len(text) - 1))
<1>1. /\ PlaceTypes /\ ParentsInv /\ AtInv /\ HeapInv /\ TextInv
      /\ item \in Items /\ RootItem = item /\ Ended(item)
  BY DonePlaces
<1>2. heap[item].string = NULL /\ place[item].from = 1
  BY <1>1, RootPlace
<1>3. ValueAt(item) = 1 /\ place[item].to = Len(text) - 1 /\ Len(text) - 1 \in Nat \ {0}
  <2>1. place[item].to + 1 = Len(text) /\ ValueAt(item) = 1
    BY <1>1, <1>2 DEF ValueAt, AtInv
  <2>2. Len(text) \in Nat \ {0} /\ place[item].to \in Nat \ {0}
    BY <1>1, PlaceAt DEF Ended
  <2>3. \A m \in Nat \ {0}, l \in Nat :
          m + 1 = l => m = l - 1 /\ l - 1 \in Nat \ {0}
    OBVIOUS
  <2>4. QED
    BY <2>1, <2>2, <2>3
<1>4. PICK t : t = SubSeq(text, 1, Len(text) - 1)
  OBVIOUS
<1>5. PICK n \in Nat \ {0} : n = Len(text) - 1
  BY <1>3
<1>6. Len(t) = n /\ DOMAIN t = 1..n /\ \A i \in DOMAIN t : t[i] = text[i]
  <2>1. text \in Seq(Tokens) /\ Len(text) \in Nat /\ 1..n \subseteq 1..Len(text)
    BY <1>1, <1>5 DEF TextInv
  <2>2. \A i \in 1..n : text[i] \in Tokens
    BY <2>1
  <2>3. t = SubSeq(text, 1, n)
    BY <1>4, <1>5
  <2>4. /\ t \in Seq(Tokens)
        /\ Len(t) = IF 1 <= n THEN n - 1 + 1 ELSE 0
        /\ \A i \in 1..(n - 1 + 1) : t[i] = text[1 + i - 1]
    BY <2>2, <2>3, SubSeqProperties
  <2>5. QED
    BY <2>4
<1>7. <<"value", 1, n>> \in Phrases(t)
  BY <1>6 DEF Phrases
<1>8. ASSUME NEW S \in SUBSET Phrases(t), ClosedUnderRules(t, S)
      PROVE  <<"value", 1, n>> \in S
  BY <1>1, <1>3, <1>5, <1>6, <1>8, ItemReads
<1>9. QED
  BY <1>4, <1>6, <1>7, <1>8 DEF IsJson, Parses
-----------------------------------------------------------------------------
(* What is refused is no JSON *)

\* Why a text is refused, when no allocation fails and it does not lie too deep.
Refused ==
  \/ pc = "value" /\ Look \notin Scalars \cup Openers
  \/ pc = "name" /\ Look \notin Strings
  \/ pc = "colon" /\ Look # ":"
  \/ pc = "after" /\ stack # <<>> /\ Look # Comma /\ Look # Top.closer

\* What could still be a phrase of a text that begins with what has been read: a value
\* begins with a scalar or a bracket and ends where the item does that was made of it;
\* the inside of a list ends behind an element.
ValueFits(t, i, j) ==
  /\ t[i] \in Scalars \cup Openers
  /\ \A x \in Items : ~AtItem(x) /\ ValueAt(x) = i => Ended(x) /\ j = place[x].to
ListFits(k, i, j) ==
  \A x \in Items : ~AtItem(x) /\ ValueAt(x) + 1 = i /\ text[ValueAt(x)] = k =>
    \E y \in Items : place[y].in = x /\ Ended(y) /\ j = place[y].to
Fits(t) ==
  {p \in Phrases(t) : IF p[1] = "value" THEN ValueFits(t, p[2], p[3])
                      ELSE ListFits(p[1], p[2], p[3])}

\* A text that what has been read is the beginning of.
Extends(t) ==
  /\ \E n \in Nat : DOMAIN t = 1..n /\ Len(text) <= n
  /\ \A i \in 1..Len(text) : t[i] = text[i]

LEMMA TokensDiffer ==
  /\ Scalars \cap (Openers \cup Closers) = {} /\ Openers \cap Closers = {}
  /\ "value" \notin Openers /\ Comma \notin Closers
  /\ (Closers \cup {BadNumber, BadString, Junk, Comma, ":", "end"})
       \cap (Scalars \cup Openers) = {}
  /\ EndArray \notin Strings /\ EndObject \notin Strings
<1>1. /\ Strings \cap (Openers \cup Closers \cup {Comma, ":"}) = {}
      /\ Strings \cap {BadNumber, BadString, Junk, "end"} = {}
  BY StringsAssumption DEF Marks
<1>2. /\ (Words \cup {Number}) \cap (Openers \cup Closers \cup {Comma, ":"}) = {}
      /\ (Words \cup {Number}) \cap {BadNumber, BadString, Junk, "end"} = {}
  BY Zenon DEF Words, Number, Openers, Closers, Comma, BadNumber, BadString, Junk,
               BeginArray, BeginObject, EndArray, EndObject
<1>3. Openers \cap (Closers \cup {BadNumber, BadString, Junk, Comma, ":", "end"}) = {}
  BY Zenon DEF Openers, Closers, Comma, BadNumber, BadString, Junk,
               BeginArray, BeginObject, EndArray, EndObject
<1>4. "value" \notin Openers /\ Comma \notin Closers
  BY Zenon DEF Openers, Closers, Comma, BeginArray, BeginObject, EndArray, EndObject
<1>5. EndArray \in Closers /\ EndObject \in Closers
  BY DEF Closers
<1>6. QED
  BY <1>1, <1>2, <1>3, <1>4, <1>5 DEF Scalars

LEMMA RefusedPlaces ==
  ASSUME IInv, PlaceInv, Refused
  PROVE  /\ OpenInv /\ PlaceTypes /\ StringsInv /\ ParentsInv /\ NamesInv /\ NextInv
         /\ ValuesInv /\ FramesInv /\ AtInv
         /\ TextInv /\ HeapInv /\ StackTypes /\ StackInv /\ Len(text) \in Nat \ {0}
         /\ Working /\ item \in Items /\ item \notin FrameItems /\ item # NULL
         /\ pc \in {"value", "name", "colon", "after"}
         /\ stack # <<>> => item = Top.current
         /\ pc # "value" => stack # <<>>
<1>1. pc \in {"value", "name", "colon", "after"} /\ Working
  BY DEF Refused, Working
<1>2. /\ OpenInv /\ PlaceTypes /\ StringsInv /\ ParentsInv /\ NamesInv /\ NextInv
      /\ ValuesInv /\ FramesInv /\ AtInv
      /\ TextInv /\ HeapInv /\ StackTypes /\ StackInv /\ ItemInv
  BY <1>1, AtPlaces, AtWork
<1>3. item \in Items /\ item \notin FrameItems /\ item # NULL
  BY <1>1, <1>2, AtNoFrame, ItemFields DEF Addresses, NULL
<1>4. /\ stack # <<>> => item = Top.current
      /\ pc # "value" => stack # <<>>
  BY <1>1, <1>2 DEF ItemInv, Refused
<1>5. QED
  BY <1>1, <1>2, <1>3, <1>4 DEF TextInv

LEMMA ListOf ==
  ASSUME HeapInv, StringsInv, ValuesInv, NEW x \in Items, Ended(x),
         text[ValueAt(x)] \in Openers
  PROVE  ListPlace(x)
BY SaidIsScalar, TokensDiffer DEF ValuesInv, ScalarPlace

\* The item that a list in progress is being built for.
LEMMA OpenList ==
  ASSUME IInv, PlaceInv, Refused, NEW x \in Items, ~Ended(x), ~AtItem(x)
  PROVE  \E i \in 1..Len(stack) :
           /\ stack[i].item = x /\ FrameInv(stack[i]) /\ FramePlace(stack[i])
           /\ stack[i].head # NULL /\ stack[i].current # NULL
           /\ stack[i].current = item \/ stack[i].current \in FrameItems
           /\ stack[i].current = item => stack[i] = Top /\ stack # <<>>
<1>1. /\ OpenInv /\ FramesInv /\ StackTypes /\ StackInv
      /\ item # NULL /\ item \notin FrameItems
      /\ stack # <<>> => item = Top.current
  BY RefusedPlaces
<1>2. PICK i \in 1..Len(stack) : stack[i].item = x
  BY <1>1 DEF OpenInv, FrameItems, Frames
<1>3. FrameInv(stack[i]) /\ FramePlace(stack[i])
  BY <1>1 DEF StackInv, FramesInv, Frames
<1>4. stack # <<>> /\ Len(stack) \in Nat /\ Top = stack[Len(stack)]
  <2>1. stack # <<>>
    BY <1>2, EmptySeq
  <2>2. QED
    BY <1>1, <2>1, TopFrame
<1>5. CASE i = Len(stack)
  BY <1>1, <1>2, <1>3, <1>4, <1>5 DEF FrameInv
<1>6. CASE i # Len(stack)
  <2>1. i + 1 \in 1..Len(stack) /\ i < i + 1
    BY <1>4, <1>6
  <2>2. stack[i].current # NULL /\ stack[i + 1].item = stack[i].current
    BY <1>1, <2>1 DEF StackInv
  <2>3. stack[i].current \in FrameItems
    BY <2>1, <2>2 DEF FrameItems, Frames
  <2>4. QED
    BY <1>1, <1>2, <1>3, <2>2, <2>3 DEF FrameInv
<1>7. QED
  BY <1>5, <1>6

\* What is there of an item begins in the text.
LEMMA ValueInText ==
  ASSUME IInv, PlaceInv, Refused, NEW x \in Items, ~AtItem(x)
  PROVE  ValueAt(x) \in 1..Len(text)
<1>1. /\ PlaceTypes /\ StringsInv /\ ValuesInv
      /\ TextInv /\ HeapInv /\ Len(text) \in Nat
  BY RefusedPlaces
<1>2. ValueAt(x) \in Nat \ {0} /\ place[x].to \in 0..(Len(text) - 1)
  BY <1>1, PlaceAt
<1>3. CASE Ended(x)
  <2>1. ScalarPlace(x) => place[x].to = ValueAt(x)
    BY DEF ScalarPlace, SaysScalar
  <2>2. ListPlace(x) => ValueAt(x) < place[x].to
    BY DEF ListPlace
  <2>3. ScalarPlace(x) \/ ListPlace(x)
    BY <1>1, <1>3 DEF ValuesInv
  <2>4. QED
    BY <1>1, <1>2, <2>1, <2>2, <2>3
<1>4. CASE ~Ended(x)
  <2>1. PICK i \in 1..Len(stack) : stack[i].item = x /\ FramePlace(stack[i])
    BY <1>4, OpenList
  <2>2. ValueAt(x) < Len(text)
    BY <2>1 DEF FramePlace
  <2>3. QED
    BY <1>1, <1>2, <2>2
<1>5. QED
  BY <1>3, <1>4

\* What stands behind an element tells whether the list goes on.
LEMMA Behind ==
  ASSUME IInv, PlaceInv, Refused, NEW x \in Items, NEW y \in Items,
         place[y].in = x, Ended(y)
  PROVE  /\ place[y].to + 1 \in 1..Len(text) /\ place[y].to \in Nat
         /\ text[place[y].to + 1] = Comma => heap[y].next # NULL
         /\ text[place[y].to + 1] = Closer(text[ValueAt(x)]) =>
              Ended(x) /\ place[x].to = place[y].to + 1
<1>1. /\ OpenInv /\ PlaceTypes /\ StringsInv /\ ParentsInv /\ NextInv /\ ValuesInv
      /\ AtInv /\ TextInv /\ HeapInv /\ Len(text) \in Nat
  BY RefusedPlaces
<1>2. /\ place[y].to \in 0..(Len(text) - 1) /\ place[x].to \in 0..(Len(text) - 1)
      /\ place[y].to + 1 \in 1..Len(text)
  BY <1>1, PlaceAt
<1>3. x # NULL
  BY <1>1, ItemFields DEF Addresses, NULL
<1>4. text[ValueAt(x)] \in Openers /\ (Ended(x) \/ x \in FrameItems)
  BY <1>1, <1>3 DEF ParentsInv
<1>5. Closer(text[ValueAt(x)]) \in Closers
  BY DEF Closer, Closers
<1>6. CASE heap[y].next # NULL
  <2>1. text[place[y].to + 1] = Comma
    BY <1>1, <1>6 DEF NextInv, NextPlace
  <2>2. QED
    BY <1>2, <1>5, <1>6, <2>1, TokensDiffer
<1>7. CASE heap[y].next = NULL /\ Ended(x)
  <2>1. ListPlace(x)
    BY <1>1, <1>4, <1>7, ListOf
  <2>2. /\ place[y].to = place[x].to - 1
        /\ text[place[x].to] = Closer(text[ValueAt(x)])
    BY <1>7, <2>1 DEF ListPlace
  <2>3. place[x].to = place[y].to + 1
    BY <1>2, <2>2
  <2>4. text[place[y].to + 1] # Comma
    BY <1>5, <2>2, <2>3, TokensDiffer
  <2>5. QED
    BY <1>2, <1>7, <2>3, <2>4
<1>8. CASE heap[y].next = NULL /\ ~Ended(x)
  <2>1. ~AtItem(x)
    BY <1>1, <1>4, <1>8, RefusedPlaces DEF AtItem
  <2>2. PICK i \in 1..Len(stack) :
          /\ stack[i].item = x /\ FramePlace(stack[i])
          /\ stack[i].current = item \/ stack[i].current \in FrameItems
          /\ stack[i].current = item => stack[i] = Top /\ stack # <<>>
    BY <1>8, <2>1, OpenList
  <2>3. y = stack[i].current
    BY <1>8, <2>2 DEF FramePlace
  <2>4. y = item /\ stack[i] = Top
    BY <1>1, <2>2, <2>3 DEF OpenInv
  <2>5. pc = "after"
    <3>1. ~AtItem(y)
      BY <1>1 DEF OpenInv
    <3>2. QED
      BY <2>4, <3>1, RefusedPlaces DEF AtItem
  <2>6. place[y].to + 1 = Len(text) /\ Look # Comma /\ Look # Top.closer
    BY <1>1, <2>4, <2>5 DEF AtInv, Refused
  <2>7. Top.closer = Closer(text[ValueAt(x)])
    BY <2>2, <2>4 DEF FramePlace
  <2>8. QED
    BY <1>2, <2>6, <2>7 DEF Look
<1>9. QED
  BY <1>6, <1>7, <1>8

\* What stands behind a bracket tells whether there is an element.
LEMMA BehindBracket ==
  ASSUME IInv, PlaceInv, Refused, NEW x \in Items, ~AtItem(x),
         text[ValueAt(x)] \in Openers
  PROVE  /\ ValueAt(x) + 1 \in 1..Len(text)
         /\ \/ /\ Ended(x) /\ place[x].to = ValueAt(x) + 1
               /\ text[ValueAt(x) + 1] = Closer(text[ValueAt(x)])
            \/ /\ text[ValueAt(x) + 1] # Closer(text[ValueAt(x)])
               /\ \E h \in Items : place[h].in = x /\ place[h].from = ValueAt(x) + 1
<1>1. /\ OpenInv /\ PlaceTypes /\ StringsInv /\ ValuesInv
      /\ TextInv /\ HeapInv /\ Len(text) \in Nat
  BY RefusedPlaces
<1>2. ValueAt(x) \in Nat \ {0} /\ place[x].to \in 0..(Len(text) - 1)
  BY <1>1, PlaceAt
<1>3. CASE Ended(x)
  <2>1. ListPlace(x)
    BY <1>1, <1>3, ListOf
  <2>2. ValueAt(x) + 1 \in 1..Len(text)
    BY <1>1, <1>2, <2>1 DEF ListPlace
  <2>3. CASE heap[x].child = NULL
    BY <1>3, <2>1, <2>2, <2>3 DEF ListPlace
  <2>4. CASE heap[x].child # NULL
    BY <2>1, <2>2, <2>4 DEF ListPlace
  <2>5. QED
    BY <2>3, <2>4
<1>4. CASE ~Ended(x)
  <2>1. PICK i \in 1..Len(stack) :
          /\ stack[i].item = x /\ FrameInv(stack[i]) /\ FramePlace(stack[i])
          /\ stack[i].head # NULL /\ stack[i].current # NULL
    BY <1>4, OpenList
  <2>2. /\ stack[i].head \in Items /\ place[stack[i].head].in = x
        /\ place[stack[i].head].from = ValueAt(x) + 1
        /\ text[ValueAt(x) + 1] # Closer(text[ValueAt(x)])
        /\ ValueAt(x) < Len(text)
    BY <2>1 DEF FrameInv, FramePlace
  <2>3. QED
    BY <1>1, <1>2, <2>2
<1>5. QED
  BY <1>3, <1>4

\* An item that is an element of a list, in the text, is complete and ends there.
LEMMA ElementFits ==
  ASSUME IInv, PlaceInv, Refused, NEW t, Extends(t), NEW j,
         NEW x \in Items, NEW y \in Items, place[y].in = x,
         Elements(t, Fits(t), text[ValueAt(x)], place[y].from, j)
  PROVE  Ended(y) /\ j = place[y].to
<1>1. /\ OpenInv /\ PlaceTypes /\ ParentsInv /\ FramesInv /\ AtInv
      /\ TextInv /\ HeapInv /\ StackTypes /\ StackInv /\ Len(text) \in Nat \ {0}
      /\ item # NULL /\ (stack # <<>> => item = Top.current)
      /\ (pc # "value" => stack # <<>>)
  BY RefusedPlaces
<1>2. x # NULL /\ text[ValueAt(x)] \in Openers
  <2>1. x # NULL
    BY <1>1, ItemFields DEF Addresses, NULL
  <2>2. QED
    BY <1>1, <2>1 DEF ParentsInv
<1>3. t[Len(text)] = Look
  BY <1>1 DEF Extends, Look
<1>4. ASSUME Unnamed(y) PROVE text[ValueAt(x)] # BeginArray
  <2>1. stack # <<>> /\ y = Top.current /\ y = item /\ pc = "name"
    BY <1>1, <1>4 DEF Unnamed
  <2>2. Top \in Frames /\ FrameInv(Top)
    BY <1>1, <2>1, TopFrame DEF Frames
  <2>3. Top.item = x /\ EndObject = Closer(text[ValueAt(x)])
    BY <1>1, <2>1, <2>2 DEF FramesInv, FramePlace, FrameInv, AtInv
  <2>4. QED
    BY <2>3 DEF Closer, EndArray, EndObject
<1>5. ~Unnamed(y) => (heap[y].string # NULL <=> text[ValueAt(x)] = BeginObject)
  BY <1>1, <1>2 DEF ParentsInv
<1>6. BeginArray # BeginObject /\ text[ValueAt(x)] \in {BeginArray, BeginObject}
  BY <1>2 DEF BeginArray, BeginObject, Openers
<1>7. ~Unnamed(y) /\ <<"value", ValueAt(y), j>> \in Fits(t) /\ ~(AtItem(y) /\ pc = "colon")
  <2>1. CASE text[ValueAt(x)] = BeginArray
    <3>1. ~Unnamed(y) /\ heap[y].string = NULL
      BY <1>4, <1>5, <1>6, <2>1
    <3>2. ValueAt(y) = place[y].from
      BY <1>1, <3>1, PlaceAt DEF ValueAt
    <3>3. ~(AtItem(y) /\ pc = "colon")
      BY <1>1, <3>1 DEF AtInv, AtItem
    <3>4. QED
      BY <2>1, <3>1, <3>2, <3>3 DEF Elements
  <2>2. CASE text[ValueAt(x)] = BeginObject
    <3>1. /\ <<"value", place[y].from + 2, j>> \in Fits(t)
          /\ t[place[y].from] \in Strings /\ t[place[y].from + 1] = ":"
      BY <1>6, <2>2 DEF Elements
    <3>2. ~Unnamed(y)
      BY <1>1, <1>3, <3>1 DEF Unnamed, AtInv, Refused
    <3>3. ~(AtItem(y) /\ pc = "colon")
      BY <1>1, <1>3, <3>1 DEF AtItem, AtInv, Refused
    <3>4. heap[y].string # NULL
      BY <1>5, <2>2, <3>2
    <3>5. ValueAt(y) = place[y].from + 2
      BY <3>4 DEF ValueAt
    <3>6. QED
      BY <3>1, <3>2, <3>3, <3>5
  <2>3. QED
    BY <1>6, <2>1, <2>2
<1>8. ValueFits(t, ValueAt(y), j)
  BY <1>7 DEF Fits
<1>9. ~AtItem(y)
  <2>1. ASSUME AtItem(y) PROVE FALSE
    <3>1. pc = "value" /\ y = item
      BY <1>7, <2>1 DEF AtItem, Unnamed
    <3>2. ValueAt(y) = Len(text)
      BY <1>1, <3>1 DEF AtInv
    <3>3. Look \in Scalars \cup Openers
      BY <1>3, <1>8, <3>2 DEF ValueFits
    <3>4. QED
      BY <3>1, <3>3 DEF Refused
  <2>2. QED
    BY <2>1
<1>10. QED
  BY <1>8, <1>9 DEF ValueFits

\* Values and lists that are built from what fits fit themselves.
LEMMA ValuesFit ==
  ASSUME IInv, PlaceInv, Refused, NEW t, Extends(t), NEW i \in DOMAIN t, NEW j \in DOMAIN t,
         IsPhrase(t, Fits(t), "value", i, j)
  PROVE  ValueFits(t, i, j)
<1>1. "value" \notin Openers
  BY TokensDiffer
<1>2. \/ i = j /\ t[i] \in Scalars
      \/ /\ t[i] \in Openers /\ t[j] = Closer(t[i])
         /\ j = i + 1 \/ <<t[i], i + 1, j - 1>> \in Fits(t)
  BY <1>1 DEF IsPhrase
<1>3. /\ OpenInv /\ PlaceTypes /\ StringsInv /\ ValuesInv /\ FramesInv
      /\ TextInv /\ HeapInv /\ StackTypes /\ StackInv /\ Len(text) \in Nat \ {0}
  BY RefusedPlaces
<1>4. \A m \in 1..Len(text) : t[m] = text[m]
  BY DEF Extends
<1>5. j \in Nat /\ i \in Nat
  BY DEF Extends
<1>6. ASSUME NEW x \in Items, ~AtItem(x), ValueAt(x) = i, i = j, t[i] \in Scalars
      PROVE  Ended(x) /\ j = place[x].to
  <2>1. ValueAt(x) \in 1..Len(text) /\ text[ValueAt(x)] \notin Openers
    <3>1. ValueAt(x) \in 1..Len(text)
      BY <1>6, ValueInText
    <3>2. QED
      BY <1>4, <1>6, <3>1, TokensDiffer
  <2>2. Ended(x)
    <3>1. ~Ended(x) => text[ValueAt(x)] \in Openers
      BY <1>6, OpenList DEF FramePlace
    <3>2. QED
      BY <2>1, <3>1
  <2>3. ~ListPlace(x)
    BY <2>1 DEF ListPlace, Openers
  <2>4. QED
    BY <1>3, <1>6, <2>2, <2>3 DEF ValuesInv, ScalarPlace, SaysScalar
<1>7. ASSUME NEW x \in Items, ~AtItem(x), ValueAt(x) = i, t[i] \in Openers, t[j] = Closer(t[i]),
             j = i + 1 \/ <<t[i], i + 1, j - 1>> \in Fits(t)
      PROVE  Ended(x) /\ j = place[x].to
  <2>1. ValueAt(x) \in 1..Len(text) /\ text[ValueAt(x)] = t[i]
    <3>1. ValueAt(x) \in 1..Len(text)
      BY <1>7, ValueInText
    <3>2. QED
      BY <1>4, <1>7, <3>1
  <2>2. CASE j = i + 1
    <3>1. i + 1 \in 1..Len(text)
      BY <1>7, <2>1, BehindBracket
    <3>2. text[i + 1] = Closer(text[ValueAt(x)])
      BY <1>4, <1>7, <2>1, <2>2, <3>1
    <3>3. QED
      BY <1>7, <2>1, <2>2, <3>2, BehindBracket
  <2>3. CASE <<t[i], i + 1, j - 1>> \in Fits(t)
    <3>1. ListFits(t[i], i + 1, j - 1)
      BY <1>1, <1>7, <2>3 DEF Fits
    <3>2. PICK y \in Items : place[y].in = x /\ Ended(y) /\ j - 1 = place[y].to
      BY <1>7, <2>1, <3>1 DEF ListFits
    <3>3. j = place[y].to + 1 /\ place[y].to + 1 \in 1..Len(text)
      BY <1>5, <3>2, Behind
    <3>4. text[place[y].to + 1] = Closer(text[ValueAt(x)])
      BY <1>4, <1>7, <2>1, <3>3
    <3>5. QED
      BY <3>2, <3>3, <3>4, Behind
  <2>4. QED
    BY <1>7, <2>2, <2>3
<1>8. t[i] \in Scalars \cup Openers
  BY <1>2
<1>9. QED
  BY <1>2, <1>6, <1>7, <1>8 DEF ValueFits

LEMMA ListsFit ==
  ASSUME IInv, PlaceInv, Refused, NEW t, Extends(t), NEW k \in Openers,
         NEW i \in DOMAIN t, NEW j \in DOMAIN t, IsPhrase(t, Fits(t), k, i, j)
  PROVE  ListFits(k, i, j)
<1>1. k # "value"
  BY TokensDiffer
<1>2. \/ Elements(t, Fits(t), k, i, j)
      \/ \E m \in DOMAIN t : /\ <<k, i, m>> \in Fits(t) /\ t[m + 1] = Comma
                             /\ Elements(t, Fits(t), k, m + 2, j)
  BY <1>1 DEF IsPhrase
<1>3. \A m \in 1..Len(text) : t[m] = text[m]
  BY DEF Extends
<1>4. ASSUME NEW x \in Items, ~AtItem(x), ValueAt(x) + 1 = i, text[ValueAt(x)] = k
      PROVE  \E y \in Items : place[y].in = x /\ Ended(y) /\ j = place[y].to
  <2>1. CASE Elements(t, Fits(t), k, i, j)
    <3>1. i \in 1..Len(text)
      BY <1>4, BehindBracket
    <3>2. text[i] # Closer(k)
      <4>1. t[i] \in Scalars \cup Openers
        BY <2>1 DEF Elements, Fits, ValueFits, Scalars
      <4>2. Closer(k) \in Closers
        BY DEF Closer, Closers
      <4>3. QED
        BY <1>3, <3>1, <4>1, <4>2, TokensDiffer
    <3>3. PICK h \in Items : place[h].in = x /\ place[h].from = i
      BY <1>4, <3>2, BehindBracket
    <3>4. Ended(h) /\ j = place[h].to
      BY <1>4, <2>1, <3>3, ElementFits
    <3>5. QED
      BY <3>3, <3>4
  <2>2. ASSUME NEW m \in DOMAIN t, <<k, i, m>> \in Fits(t), t[m + 1] = Comma,
               Elements(t, Fits(t), k, m + 2, j)
        PROVE  \E y \in Items : place[y].in = x /\ Ended(y) /\ j = place[y].to
    <3>1. ListFits(k, i, m)
      BY <1>1, <2>2 DEF Fits
    <3>2. PICK w \in Items : place[w].in = x /\ Ended(w) /\ m = place[w].to
      BY <1>4, <3>1 DEF ListFits
    <3>3. place[w].to + 1 \in 1..Len(text)
      BY <3>2, Behind
    <3>4. text[place[w].to + 1] = Comma
      BY <1>3, <2>2, <3>2, <3>3
    <3>5. heap[w].next # NULL
      BY <3>2, <3>4, Behind
    <3>6. /\ heap[w].next \in Items /\ place[heap[w].next].from = m + 2
          /\ place[heap[w].next].in = x
      BY <3>2, <3>5, RefusedPlaces DEF NextInv, NextPlace
    <3>7. Ended(heap[w].next) /\ j = place[heap[w].next].to
      BY <1>4, <2>2, <3>6, ElementFits
    <3>8. QED
      BY <3>6, <3>7
  <2>3. QED
    BY <1>2, <2>1, <2>2
<1>5. QED
  BY <1>4 DEF ListFits

\* The whole text does not fit.
LEMMA RootMisfits ==
  ASSUME IInv, PlaceInv, Refused, NEW t, Extends(t), NEW j
  PROVE  ~ValueFits(t, 1, j)
<1>1. /\ OpenInv /\ PlaceTypes /\ ParentsInv /\ AtInv /\ TextInv /\ HeapInv
      /\ StackTypes /\ StackInv /\ Len(text) \in Nat \ {0}
      /\ item \in Items /\ item \notin FrameItems
      /\ pc \in {"value", "name", "colon", "after"}
      /\ (pc # "value" => stack # <<>>)
  BY RefusedPlaces
<1>2. /\ RootItem \in Items /\ place[RootItem].from = 1 /\ heap[RootItem].string = NULL
  BY <1>1, RootPlace
<1>3. ValueAt(RootItem) = 1
  BY <1>2 DEF ValueAt
<1>4. CASE stack = <<>>
  <2>1. pc = "value" /\ RootItem = item
    BY <1>1, <1>4 DEF RootItem
  <2>2. Len(text) = 1
    BY <1>1, <1>3, <2>1 DEF AtInv
  <2>3. t[1] = Look
    BY <2>2 DEF Extends, Look
  <2>4. QED
    BY <2>1, <2>3 DEF Refused, ValueFits
<1>5. CASE stack # <<>>
  <2>1. RootItem \in FrameItems
    <3>1. 1 \in 1..Len(stack)
      BY <1>1, <1>5, TopFrame
    <3>2. RootItem = stack[1].item
      BY <1>5 DEF RootItem
    <3>3. QED
      BY <3>1, <3>2 DEF FrameItems, Frames
  <2>2. ~Ended(RootItem) /\ ~AtItem(RootItem)
    BY <1>1, <1>2, <2>1 DEF OpenInv, AtItem
  <2>3. QED
    BY <1>2, <1>3, <2>2 DEF ValueFits
<1>6. QED
  BY <1>4, <1>5

LEMMA RefusedIsNoJson ==
  ASSUME IInv, PlaceInv, Refused
  PROVE  \A u \in Seq(Tokens) : ~IsJson(text \o u)
<1> SUFFICES ASSUME NEW u \in Seq(Tokens), NEW t, t = text \o u, IsJson(t) PROVE FALSE
  OBVIOUS
<1>1. text \in Seq(Tokens) /\ Len(text) \in Nat
  BY RefusedPlaces DEF TextInv
<1>2. /\ t \in Seq(Tokens) /\ Len(t) = Len(text) + Len(u) /\ Len(u) \in Nat
      /\ \A i \in 1..Len(text) : t[i] = text[i]
  <2>1. /\ t \in Seq(Tokens) /\ Len(t) = Len(text) + Len(u)
        /\ \A i \in 1..(Len(text) + Len(u)) : t[i] = IF i <= Len(text) THEN text[i]
                                                     ELSE u[i - Len(text)]
    BY <1>1, ConcatProperties
  <2>2. Len(u) \in Nat
    OBVIOUS
  <2>3. QED
    BY <1>1, <2>1, <2>2
<1>3. Extends(t)
  <2>1. DOMAIN t = 1..Len(t) /\ Len(t) \in Nat /\ Len(text) <= Len(t)
    BY <1>1, <1>2
  <2>2. QED
    BY <1>2, <2>1 DEF Extends
<1>4. ClosedUnderRules(t, Fits(t))
  <2>1. ASSUME NEW p \in Phrases(t), IsPhrase(t, Fits(t), p[1], p[2], p[3])
        PROVE  p \in Fits(t)
    <3>1. p[1] \in {"value"} \cup Openers /\ p[2] \in DOMAIN t /\ p[3] \in DOMAIN t
      BY DEF Phrases
    <3>2. CASE p[1] = "value"
      BY <1>3, <2>1, <3>1, <3>2, ValuesFit DEF Fits
    <3>3. CASE p[1] \in Openers
      BY <1>3, <2>1, <3>1, <3>3, ListsFit, TokensDiffer DEF Fits
    <3>4. QED
      BY <3>1, <3>2, <3>3
  <2>2. QED
    BY <2>1 DEF ClosedUnderRules
<1>5. Fits(t) \in SUBSET Phrases(t)
  BY DEF Fits
<1>6. <<"value", 1, Len(t)>> \in Fits(t)
  BY <1>4, <1>5 DEF IsJson, Parses
<1>7. ValueFits(t, 1, Len(t))
  BY <1>6 DEF Fits
<1>8. QED
  BY <1>3, <1>7, RootMisfits

\* What has been refused, for another reason than the lack of memory or the depth, is the
\* beginning of no JSON text.
RefuseInv ==
  pc \in {"fail", "failed"} /\ ~oom /\ ~deep =>
    \A u \in Seq(Tokens) : ~IsJson(text \o u)

LEMMA StepRefuses == IInv /\ PlaceInv /\ RefuseInv /\ [Next]_vars => RefuseInv'
<1> SUFFICES ASSUME IInv, PlaceInv, RefuseInv, [Next]_vars,
                    pc' \in {"fail", "failed"}, ~oom', ~deep'
             PROVE  \A u \in Seq(Tokens) : ~IsJson(text' \o u)
  BY DEF RefuseInv
<1>1. CASE Refused /\ text' = text
  BY <1>1, RefusedIsNoJson
<1>2. CASE UNCHANGED <<text, oom, deep>> /\ pc \in {"fail", "failed"}
  BY <1>2 DEF RefuseInv
<1>3. CASE NewRoot \/ ParseWord \/ ParseNumber \/ ParseString \/ TooDeep
  BY <1>3 DEF NewRoot, ParseWord, ParseNumber, ParseString, TooDeep, Return, OutOfMemory
<1>4. CASE ParseNothing
  <2>1. Reject /\ Look \notin Scalars \cup Openers
    BY <1>4, TokensDiffer DEF ParseNothing, OutOfMemory
  <2>2. QED
    BY <1>1, <1>4, <2>1 DEF ParseNothing, Reject, Fail, Refused
<1>5. CASE OpenArray \/ OpenObject \/ Element \/ Name \/ Close
  BY <1>5 DEF OpenArray, OpenObject, Open, Element, Name, Close, OutOfMemory
<1>6. CASE NoName
  BY <1>1, <1>6 DEF NoName, Reject, OutOfMemory, Fail, Refused
<1>7. CASE Colon
  BY <1>1, <1>7 DEF Colon, Reject, Fail, Refused
<1>8. CASE After
  BY <1>1, <1>8 DEF After, Continues, EndsList, Reject, Fail, Refused
<1>9. CASE Unwind \/ GiveUp \/ Release
  BY <1>2, <1>9 DEF Unwind, GiveUp, Release
<1>10. CASE UNCHANGED vars
  BY <1>2, <1>10 DEF vars
<1>11. QED
  BY <1>3, <1>4, <1>5, <1>6, <1>7, <1>8, <1>9, <1>10 DEF Next

LEMMA InitRefuses == Init => RefuseInv
BY DEF Init, RefuseInv
-----------------------------------------------------------------------------
(* The theorems *)

LEMMA InitIInv == Init => IInv
<1> SUFFICES ASSUME Init PROVE IInv
  OBVIOUS
<1>1. PICK t \in Tokens : text = <<t>>
  BY DEF Init
<1>2. heap = <<>> /\ stack = <<>> /\ item = NULL /\ pc = "root" /\ DOMAIN heap = {}
  BY DEF Init
<1>3. Items = {}
  BY <1>2 DEF Items
<1>4. TextInv
  BY <1>1, BoundsAssumption DEF TextInv, Look
<1>5. HeapInv
  BY <1>2, <1>3 DEF HeapInv
<1>6. StackTypes
  BY <1>2, EmptySeq, BoundsAssumption DEF StackTypes
<1>7. RoomInv
  <2>1. 0 \in Nat /\ DOMAIN heap = 1..0 /\ 0 <= Room
    BY <1>2, RoomAt
  <2>2. QED
    BY <2>1 DEF RoomInv
<1>8. 1..Len(stack) = {}
  BY <1>2, EmptySeq
<1>9. StackInv
  BY <1>8 DEF StackInv
<1>10. ItemInv
  BY <1>2 DEF ItemInv
<1>11. EndInv
  BY <1>2 DEF EndInv, Pointers
<1>12. OwnInv
  <2>1. \A a \in Nat, f \in Roles : Refs[a][f] = NULL
    <3>1. RootItem = NULL
      BY <1>2 DEF RootItem
    <3>2. QED
      BY <1>3, <1>8, <3>1, RefCases DEF Roles
  <2>2. QED
    BY <1>2, <2>1 DEF OwnInv, Owned
<1>13. QED
  BY <1>4, <1>5, <1>6, <1>7, <1>9, <1>10, <1>11, <1>12 DEF IInv, WorkInv

LEMMA StepIInv == IInv /\ [Next]_vars => IInv'
<1> SUFFICES ASSUME IInv, [Next]_vars PROVE IInv'
  OBVIOUS
<1>1. CASE NewRoot
  BY <1>1, RootStep
<1>2. CASE ParseWord \/ ParseNumber
  BY <1>2, WordStep
<1>3. CASE ParseString
  BY <1>3, StringStep
<1>4. CASE ParseNothing \/ TooDeep \/ NoName
  BY <1>4, RefusedStep
<1>5. CASE OpenArray \/ OpenObject
  <2>1. PICK opener \in Openers : Open(opener)
    BY <1>5 DEF OpenArray, OpenObject, Openers
  <2>2. QED
    BY <2>1, OpenStep
<1>6. CASE Element
  BY <1>6, ElementStep
<1>7. CASE Name
  BY <1>7, NameStep
<1>8. CASE Colon
  BY <1>8, ColonStep
<1>9. CASE After
  BY <1>9, AfterStep
<1>10. CASE Close
  BY <1>10, CloseStep
<1>11. CASE Unwind
  BY <1>11, UnwindStep
<1>12. CASE GiveUp \/ Release
  BY <1>12, LastStep
<1>13. CASE UNCHANGED vars
  <2>1. UNCHANGED <<text, heap, stack, item, pc>>
    BY <1>13 DEF vars
  <2>2. TextInv' /\ HeapInv' /\ StackTypes' /\ EndInv'
    BY <2>1 DEF IInv, TextInv, Look, HeapInv, Items, IsItem, StackTypes, EndInv
  <2>3. OwnInv'
    BY <2>1, SameRefs DEF IInv, RootItem
  <2>4. CASE Working
    <3>1. RoomInv /\ StackInv /\ ItemInv
      BY <2>4 DEF IInv, WorkInv
    <3>2. Items' = Items
      BY <2>1 DEF Items, IsItem
    <3>3. RoomInv' /\ StackInv' /\ ItemInv'
      BY <2>1, <3>1, <3>2, FramesKept DEF RoomInv, Room, ItemInv, Top, Look
    <3>4. QED
      BY <2>2, <2>3, <3>3 DEF IInv, WorkInv
  <2>5. CASE ~Working
    <3>1. ~Working'
      BY <2>1, <2>5 DEF Working
    <3>2. QED
      BY <2>2, <2>3, <3>1 DEF IInv, WorkInv
  <2>6. QED
    BY <2>4, <2>5
<1>14. QED
  BY <1>1, <1>2, <1>3, <1>4, <1>5, <1>6, <1>7, <1>8, <1>9, <1>10, <1>11, <1>12, <1>13
  DEF Next

LEMMA IInvTypes == IInv => TypeOK
<1> SUFFICES ASSUME IInv PROVE TypeOK
  OBVIOUS
<1>1. TextInv /\ HeapInv /\ StackTypes /\ EndInv
  BY DEF IInv
<1>2. \A i \in DOMAIN text : text[i] \in Tokens
  BY <1>1 DEF TextInv
<1>3. ASSUME NEW x \in DOMAIN heap, IsItem(heap, x)
      PROVE  {heap[x].child, heap[x].next, heap[x].prev, heap[x].string,
              heap[x].valuestring} \subseteq Pointers
  <2>1. heap[x] \in ItemRec
    BY <1>1, <1>3, ItemFields DEF Items
  <2>2. QED
    BY <2>1 DEF ItemRec
<1>4. QED
  BY <1>1, <1>2, <1>3 DEF TypeOK, HeapInv, StackTypes, EndInv

LEMMA IInvOwners == IInv => OneOwner
<1> SUFFICES ASSUME IInv PROVE OneOwner
  OBVIOUS
<1>1. HeapInv /\ StackTypes /\ EndInv /\ OwnInv
  BY DEF IInv
<1>2. ASSUME NEW x \in DOMAIN heap PROVE Cardinality(Owners(x)) = 1
  <2>1. PICK a \in Nat, f \in Roles : Refs[a][f] = x
    BY <1>1 DEF OwnInv, Owned
  <2>2. x # NULL
    BY <1>1 DEF OwnInv, Owned
  <2>3. \A b \in Nat, g \in Roles : Refs[b][g] = x => b = a /\ g = f
    BY <1>1, <2>1, <2>2 DEF OwnInv, Owned
  <2>4. DOMAIN stack = 1..Len(stack) /\ Len(stack) \in Nat
    BY <1>1, LenProperties DEF StackTypes
  <2>5. "head" \in Roles /\ "root" \in Roles /\ Links \subseteq Roles /\ NULL \in Nat
    BY DEF Roles, NULL
  <2>6. <<a, f>> \in Owners(x)
    <3>1. CASE f \in Links
      <4>1. a \in Items /\ heap[a][f] = x
        BY <2>1, <2>2, <3>1, RefCases
      <4>2. QED
        BY <3>1, <4>1 DEF Owners
    <3>2. CASE f = "head"
      <4>1. a \in DOMAIN stack /\ stack[a].head = x
        BY <2>1, <2>2, <2>4, <3>2, RefCases
      <4>2. QED
        BY <3>2, <4>1 DEF Owners
    <3>3. CASE f = "root"
      <4>1. a = NULL /\ RootItem = x
        BY <2>1, <2>2, <3>3, RefCases
      <4>2. QED
        BY <3>3, <4>1 DEF Owners
    <3>4. QED
      BY <3>1, <3>2, <3>3 DEF Roles
  <2>7. ASSUME NEW o \in Owners(x) PROVE o = <<a, f>>
    <3>1. CASE o \in {p \in Items \X Links : heap[p[1]][p[2]] = x}
      <4>1. PICK b \in Items, g \in Links : o = <<b, g>> /\ heap[b][g] = x
        BY <3>1
      <4>2. b \in Nat
        BY <1>1, <4>1, ItemFields, BoundsAssumption DEF Addresses
      <4>3. Refs[b][g] = x
        BY <4>1, <4>2, RefCases
      <4>4. QED
        BY <2>3, <2>5, <4>1, <4>2, <4>3
    <3>2. CASE o \in {<<i, "head">> : i \in {j \in DOMAIN stack : stack[j].head = x}}
      <4>1. PICK i \in DOMAIN stack : o = <<i, "head">> /\ stack[i].head = x
        BY <3>2
      <4>2. i \in Nat /\ Refs[i]["head"] = x
        BY <2>4, <4>1, RefCases
      <4>3. QED
        BY <2>3, <2>5, <4>1, <4>2
    <3>3. CASE o = <<NULL, "root">> /\ RootItem = x
      <4>1. Refs[NULL]["root"] = x
        BY <2>5, <3>3, RefCases
      <4>2. QED
        BY <2>3, <2>5, <3>3, <4>1
    <3>4. QED
      BY <3>1, <3>2, <3>3 DEF Owners
  <2>8. Owners(x) = {<<a, f>>}
    BY <2>6, <2>7
  <2>9. QED
    BY <2>8, FS_Singleton
<1>3. QED
  BY <1>1, <1>2 DEF OneOwner, EndInv

LEMMA SpecIInv == Spec => []IInv
BY InitIInv, StepIInv, PTL DEF Spec

\* What the parser reads, allocates and links has its type: no address lies outside the
\* two that each token can take up, and no list is opened deeper than the limit
\* (parse_array and parse_object test input_buffer->depth before they count it up).
THEOREM ParserTypeCorrect == Spec => []TypeOK
BY SpecIInv, IInvTypes, PTL

\* Whatever the text, however deep, and whichever allocation fails: everything
\* allocated is owned by exactly one link, list under construction or caller, so that
\* cJSON_Delete frees it once, and when the parse has failed or the loader has dropped
\* the tree nothing is left.
THEOREM NothingLostOrShared == Spec => []OneOwner
BY SpecIInv, IInvOwners, PTL

\* Whatever was allocated in between: when the parse is done, every item's successor
\* points back to it, and the prev of each list's head is its tail, which parse_array and
\* parse_object set only when they close the list.
THEOREM ListsStayLinked == Spec => []ListsLinked
<1>1. IInv /\ ListsInv /\ [Next]_vars => (IInv /\ ListsInv)'
  BY StepIInv, StepLists
<1>2. Spec => [](IInv /\ ListsInv)
  BY <1>1, InitIInv, InitLists, PTL DEF Spec
<1>3. QED
  BY <1>2, ListsInvLinked, PTL

LEMMA SpecPlaces == Spec => [](IInv /\ ListsInv /\ PlaceInv /\ RefuseInv)
<1>1. Init => IInv /\ ListsInv /\ PlaceInv /\ RefuseInv
  BY InitIInv, InitLists, InitPlaces, InitRefuses
<1>2. /\ IInv /\ ListsInv /\ PlaceInv /\ RefuseInv
      /\ [Next]_vars
      => (IInv /\ ListsInv /\ PlaceInv /\ RefuseInv)'
  BY StepIInv, StepLists, StepPlaces, StepRefuses
<1>3. QED
  BY <1>1, <1>2, PTL DEF Spec

\* Whatever the text, the tree that cJSON_Parse returns says token by token what it read:
\* each item what stands in its place, in a list from bracket to bracket, with the names
\* and commas where the grammar has them.
THEOREM TreeSaysText == Spec => []ReadsInPlace
BY SpecPlaces, PlacesRead, PTL

\* cJSON_Parse accepts nothing but JSON: what it has read when it returns a tree is a
\* value of the grammar.
THEOREM AcceptsOnlyJson ==
  Spec => [](pc = "done" => IsJson(SubSeq(text, 1, Len(text) - 1)))
<1>1. IInv /\ ListsInv /\ PlaceInv
      => (pc = "done" => IsJson(SubSeq(text, 1, Len(text) - 1)))
  BY PlacesParse
<1>2. QED
  BY <1>1, SpecPlaces, PTL

\* cJSON_Parse refuses nothing but what is no JSON, lies too deep or finds no memory:
\* otherwise no continuation of what it has read is a value of the grammar.
THEOREM RefusesOnlyBadText ==
  Spec => [](pc = "failed" /\ ~oom /\ ~deep => \A u \in Seq(Tokens) : ~IsJson(text \o u))
<1>1. RefuseInv => (pc = "failed" /\ ~oom /\ ~deep
                      => \A u \in Seq(Tokens) : ~IsJson(text \o u))
  BY DEF RefuseInv
<1>2. QED
  BY <1>1, SpecPlaces, PTL
=============================================================================
