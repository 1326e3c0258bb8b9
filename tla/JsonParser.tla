------------------------------ MODULE JsonParser ------------------------------
(***************************************************************************)
(* The parser of cJSON.c, as the configuration loader uses it: a text is   *)
(* turned into a tree of linked lists, one allocation at a time, any of    *)
(* which can fail, and a text that is no JSON, or lies too deep, leaves    *)
(* nothing behind.  What the tree says is in JsonReading and JsonText.     *)
(*                                                                         *)
(* A text is a sequence of tokens, read from left to right: the six marks  *)
(* of JSON, strings, numbers, words, and three tokens on which parse_value *)
(* fails.  "end" is the terminating NUL, which is never skipped.  The text *)
(* is arbitrary: what follows is chosen when the parser moves on.          *)
(***************************************************************************)
EXTENDS Integers, Sequences, FiniteSets

CONSTANTS
  Strings,     \* string literals that parse_string accepts
  MaxTokens,   \* bound on the length of a text
  NestLimit    \* CJSON_NESTING_LIMIT

ASSUME BoundsAssumption == MaxTokens \in Nat \ {0} /\ NestLimit \in Nat

BeginArray  == "["
EndArray    == "]"
BeginObject == "{"
EndObject   == "}"
Comma       == ","
Openers == {BeginArray, BeginObject}
Closers == {EndArray, EndObject}
Marks   == Openers \cup Closers \cup {Comma, ":"}
Number  == "1"
Words   == {"null", "true", "false"}
BadNumber == "-"   \* begins like a number, strtod takes nothing of it
BadString == "\\"  \* begins like a string: an unknown escape or no closing quote
Junk      == "?"   \* begins like nothing
Tokens == Marks \cup Strings \cup {Number, "true"} \cup {BadNumber, BadString, Junk, "end"}

\* A string literal is no other token.
ASSUME StringsAssumption ==
  Strings \cap (Marks \cup Words
                  \cup {Number, BadNumber, BadString, Junk, "end"}) = {}

VARIABLES
  text,    \* the tokens read so far, the last one is at input_buffer->offset
  heap,    \* what is allocated: items and strings, by address
  stack,   \* the calls of parse_array and parse_object in progress, outermost first
  item,    \* the item that parse_value is called on, 0 if none
  pc,      \* what comes next
  oom,     \* history: an allocation failed
  deep,    \* history: the nesting limit was met
  place    \* history: for each item the tokens that it was made of

vars == <<text, heap, stack, item, pc, oom, deep, place>>

NULL == 0
NewItem == [type |-> "Invalid", child |-> NULL, next |-> NULL, prev |-> NULL,
            string |-> NULL, valuestring |-> NULL]
Str(t) == [type |-> "Chars", text |-> t]

IsItem(h, x) == h[x].type # "Chars"
Addresses == 1..2 * MaxTokens
Fresh == CHOOSE x \in Addresses : x \notin DOMAIN heap /\ (x = 1 \/ x - 1 \in DOMAIN heap)

With(h, x, obj) == [y \in DOMAIN h \cup {x} |-> IF y = x THEN obj ELSE h[y]]
Without(h, S) == [y \in DOMAIN h \ S |-> h[y]]

Look == text[Len(text)]
Top  == stack[Len(stack)]
Pop  == SubSeq(stack, 1, Len(stack) - 1)
SetTop(f) == Append(Pop, f)

Init ==
  /\ \E t \in Tokens : text = <<t>>
  /\ heap = <<>> /\ stack = <<>> /\ item = NULL
  /\ pc = "root" /\ oom = FALSE /\ deep = FALSE /\ place = <<>>
-----------------------------------------------------------------------------
(* Parts of a step *)

\* The offset moves past the current token and the white space behind it.
Advance ==
  \E t \in Tokens :
    /\ Len(text) >= MaxTokens => t = "end"
    /\ text' = Append(text, t)

\* What an item is made of: from its name, in an object, to the end of its value,
\* which is 0 until the value is complete; and the item whose list it is in.
Begin(x, list) == place' = With(place, x, [in |-> list, from |-> Len(text), to |-> 0])
End(x) == place' = [place EXCEPT ![x].to = Len(text)]

\* A parse function returns false: its callers clean up one after another.
Fail == pc' = "fail" /\ UNCHANGED <<text, heap, stack, item, place>>

Reject == Fail /\ UNCHANGED <<oom, deep>>
OutOfMemory == Fail /\ oom' = TRUE /\ UNCHANGED deep

\* parse_value returns true.
Return == pc' = "after" /\ End(item) /\ UNCHANGED <<stack, item, oom, deep>>
-----------------------------------------------------------------------------
(* cJSON_ParseWithLengthOpts: the root item *)

NewRoot ==
  /\ pc = "root"
  /\ \/ /\ heap' = With(heap, Fresh, NewItem)
        /\ item' = Fresh /\ pc' = "value" /\ Begin(Fresh, NULL)
        /\ UNCHANGED <<text, stack, oom, deep>>
     \/ OutOfMemory
-----------------------------------------------------------------------------
(* parse_value *)

ParseWord ==
  /\ pc = "value" /\ Look \in Words
  /\ heap' = [heap EXCEPT ![item].type = Look]
  /\ Advance /\ Return

\* The copy that strtod works on is freed on either way out.
ParseNumber ==
  /\ pc = "value" /\ Look = Number
  /\ \/ heap' = [heap EXCEPT ![item].type = "Number"] /\ Advance /\ Return
     \/ OutOfMemory

ParseString ==
  /\ pc = "value" /\ Look \in Strings
  /\ \/ /\ heap' = With([heap EXCEPT ![item].type = "String",
                                     ![item].valuestring = Fresh], Fresh, Str(Look))
        /\ Advance /\ Return
     \/ OutOfMemory

\* A bad number or string has its buffer allocated and freed before it is refused.
ParseNothing ==
  /\ pc = "value" /\ Look \in Closers \cup {BadNumber, BadString, Junk, Comma, ":", "end"}
  /\ \/ Reject
     \/ Look \in {BadNumber, BadString} /\ OutOfMemory

DeeperThanLimit == Len(stack) > NestLimit   \* mutant

\* The test of the depth, before it is counted up.
AtLimit == Len(stack) >= NestLimit

TooDeep ==
  /\ pc = "value" /\ Look \in Openers /\ AtLimit
  /\ Fail /\ deep' = TRUE /\ UNCHANGED oom

Closer(opener) == IF opener = BeginArray THEN EndArray ELSE EndObject

\* Up to the first element, which there is unless the list closes at once.
Open(opener) ==
  /\ pc = "value" /\ Look = opener /\ ~AtLimit
  /\ stack' = Append(stack, [item |-> item, head |-> NULL, current |-> NULL,
                             closer |-> Closer(opener)])
  /\ Advance
  /\ item' = NULL
  /\ pc' = IF text'[Len(text')] = Closer(opener) THEN "close" ELSE "element"
  /\ UNCHANGED <<heap, oom, deep, place>>

OpenArray  == Open(BeginArray)
OpenObject == Open(BeginObject)
-----------------------------------------------------------------------------
(* The loop of parse_array and parse_object *)

\* The next item is attached to the list before it is parsed.
Element ==
  /\ pc = "element"
  /\ \/ LET x == Fresh
            linked == IF Top.head = NULL THEN heap
                      ELSE [heap EXCEPT ![Top.current].next = x]
        IN /\ heap' = With(linked, x, [NewItem EXCEPT !.prev = Top.current])
           /\ stack' = SetTop([Top EXCEPT !.head = IF @ = NULL THEN x ELSE @,
                                          !.current = x])
           /\ item' = x /\ Begin(x, Top.item)
           /\ pc' = IF Top.closer = EndObject THEN "name" ELSE "value"
           /\ UNCHANGED <<text, oom, deep>>
     \/ OutOfMemory

NameKeptAsValue ==   \* mutant
  /\ pc = "name" /\ Look \in Strings
  /\ \/ /\ heap' = With([heap EXCEPT ![item].type = "String", ![item].string = Fresh,
                                     ![item].valuestring = Fresh], Fresh, Str(Look))
        /\ pc' = "colon" /\ Advance
        /\ UNCHANGED <<stack, item, oom, deep, place>>
     \/ OutOfMemory

\* parse_string leaves the name in valuestring, from where it is moved to string.
Name ==
  /\ pc = "name" /\ Look \in Strings
  /\ \/ /\ heap' = With([heap EXCEPT ![item].type = "String", ![item].string = Fresh],
                        Fresh, Str(Look))
        /\ pc' = "colon" /\ Advance
        /\ UNCHANGED <<stack, item, oom, deep, place>>
     \/ OutOfMemory

NoName ==
  /\ pc = "name" /\ Look \notin Strings
  /\ Reject \/ (Look = BadString /\ OutOfMemory)

ColonNotTested ==   \* mutant
  /\ pc = "colon" /\ pc' = "value" /\ Advance
  /\ UNCHANGED <<heap, stack, item, oom, deep, place>>

Colon ==
  /\ pc = "colon"
  /\ IF Look = ":" THEN /\ pc' = "value" /\ Advance
                        /\ UNCHANGED <<heap, stack, item, oom, deep, place>>
                   ELSE Reject

AnyCloser(mark) == mark \in Closers   \* mutant
NoCommaInObject(mark) == mark = Comma /\ Top.closer = EndArray   \* mutant

EndsList(mark) == mark = Top.closer
Continues(mark) == mark = Comma

\* Behind a value: the next element, the end of the list, or neither.
After ==
  /\ pc = "after"
  /\ \/ /\ stack = <<>>
        /\ pc' = "done" /\ UNCHANGED <<text, heap, stack, item, oom, deep, place>>
     \/ /\ stack # <<>> /\ Continues(Look)
        /\ pc' = "element" /\ Advance
        /\ UNCHANGED <<heap, stack, item, oom, deep, place>>
     \/ /\ stack # <<>> /\ EndsList(Look)
        /\ pc' = "close" /\ UNCHANGED <<text, heap, stack, item, oom, deep, place>>
     \/ /\ stack # <<>> /\ ~Continues(Look) /\ ~EndsList(Look)
        /\ Reject

CloseOneWay ==   \* mutant
  /\ pc = "close"
  /\ heap' = [heap EXCEPT
       ![Top.item].type = IF Top.closer = EndArray THEN "Array" ELSE "Object",
       ![Top.item].child = Top.head]
  /\ stack' = Pop /\ item' = Top.item /\ End(Top.item)
  /\ Advance /\ pc' = "after"
  /\ UNCHANGED <<oom, deep>>

\* The head's prev points to the tail.
Close ==
  /\ pc = "close"
  /\ LET closed == IF Top.head = NULL THEN heap
                   ELSE [heap EXCEPT ![Top.head].prev = Top.current]
     IN heap' = [closed EXCEPT
          ![Top.item].type = IF Top.closer = EndArray THEN "Array" ELSE "Object",
          ![Top.item].child = Top.head]
  /\ stack' = Pop /\ item' = Top.item /\ End(Top.item)
  /\ Advance /\ pc' = "after"
  /\ UNCHANGED <<oom, deep>>
-----------------------------------------------------------------------------
(* Cleaning up, and the caller *)

\* What cJSON_Delete frees: the item and whatever it leads to, which are its strings,
\* its children and its later siblings.
Links == {"child", "next", "string", "valuestring"}

\* What is reached from x along the links F: the least set that has x and is closed
\* under them.
Closed(h, S, F) ==
  \A y \in S : IsItem(h, y) => \A f \in F : h[y][f] \in S \cup {NULL}

Reached(h, x, F) ==
  LET closed == {S \in SUBSET DOMAIN h : x \in S /\ Closed(h, S, F)}
  IN {y \in DOMAIN h : \A S \in closed : y \in S}

Deleted(h, x) == IF x = NULL THEN {} ELSE Reached(h, x, Links)

Delete(x) == heap' = Without(heap, Deleted(heap, x))

\* The fail label of parse_array or parse_object.
Unwind ==
  /\ pc = "fail" /\ stack # <<>>
  /\ Delete(Top.head)
  /\ stack' = Pop /\ item' = Top.item
  /\ UNCHANGED <<text, pc, oom, deep, place>>

\* The fail label of cJSON_ParseWithLengthOpts; item is the root, or NULL.
GiveUp ==
  /\ pc = "fail" /\ stack = <<>>
  /\ Delete(item)
  /\ item' = NULL /\ pc' = "failed"
  /\ UNCHANGED <<text, stack, oom, deep, place>>

\* config_load_file has copied what it looked up and drops the tree.
Release ==
  /\ pc = "done"
  /\ Delete(item)
  /\ item' = NULL /\ pc' = "released"
  /\ UNCHANGED <<text, stack, oom, deep, place>>

Next ==
  \/ NewRoot \/ ParseWord \/ ParseNumber \/ ParseString \/ ParseNothing \/ TooDeep
  \/ OpenArray \/ OpenObject \/ Element \/ Name \/ NoName \/ Colon \/ After \/ Close
  \/ Unwind \/ GiveUp \/ Release

Spec == Init /\ [][Next]_vars
-----------------------------------------------------------------------------
(* Properties *)

Pointers == {NULL} \cup Addresses

TypeOK ==
  /\ \A i \in DOMAIN text : text[i] \in Tokens
  /\ DOMAIN heap \subseteq Addresses
  /\ \A x \in DOMAIN heap : IsItem(heap, x) =>
       {heap[x].child, heap[x].next, heap[x].prev, heap[x].string,
        heap[x].valuestring} \subseteq Pointers
  /\ Len(stack) <= NestLimit
  /\ item \in Pointers
  /\ pc \in {"root", "value", "element", "name", "colon", "after", "close", "fail",
             "done", "failed", "released"}

Items == {x \in DOMAIN heap : IsItem(heap, x)}
RootItem == IF stack = <<>> THEN item ELSE stack[1].item

\* Who frees x: an item that points to it, a list under construction, the caller.
Owners(x) ==
  {o \in Items \X Links : heap[o[1]][o[2]] = x}
    \cup {<<i, "head">> : i \in {j \in DOMAIN stack : stack[j].head = x}}
    \cup (IF RootItem = x THEN {<<NULL, "root">>} ELSE {})

\* Whatever fails and whenever, everything allocated has exactly one owner, so that
\* cleaning up frees it once; and nothing is left when the parse has failed or the
\* loader is through with the tree.
OneOwner ==
  /\ \A x \in DOMAIN heap : Cardinality(Owners(x)) = 1
  /\ pc \in {"failed", "released"} => DOMAIN heap = {}

Siblings(x) == Reached(heap, x, {"next"})

\* In a finished tree every list can be walked both ways, and its head's prev is its
\* tail, which is where cJSON appends.
ListsLinked ==
  pc = "done" => \A x \in Items :
    /\ heap[x].next # NULL => heap[heap[x].next].prev = x
    /\ heap[x].child # NULL =>
         LET tail == heap[heap[x].child].prev
         IN tail \in Siblings(heap[x].child) /\ heap[tail].next = NULL
=============================================================================
