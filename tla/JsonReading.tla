------------------------------ MODULE JsonReading ------------------------------
(***************************************************************************)
(* What JsonParser ought to accept, and what its trees ought to say.       *)
(* place tells for each item the tokens that it was made of; the tree says *)
(* what was read if each item says what stands in its place and the places *)
(* follow each other in the text as the items do in the tree.              *)
(***************************************************************************)
EXTENDS JsonParser

Scalars == Strings \cup Words \cup {Number}

\* Where the value of an item begins: behind its name and the colon, if it has one.
ValueAt(x) == place[x].from + (IF heap[x].string = NULL THEN 0 ELSE 2)

\* What a scalar item says, as a token.
Said(x) ==
  IF heap[x].type = "String" THEN heap[heap[x].valuestring].text
  ELSE IF heap[x].type = "Number" THEN Number
  ELSE heap[x].type

SaysScalar(x) ==
  /\ heap[x].type \in Words \cup {"Number", "String"}
  /\ heap[x].type = "String" => heap[x].valuestring # NULL
  /\ text[ValueAt(x)] = Said(x) /\ place[x].to = ValueAt(x)

\* The list of an item fills what is between its brackets.
SaysList(x) ==
  /\ \/ heap[x].type = "Array" /\ text[ValueAt(x)] = BeginArray
     \/ heap[x].type = "Object" /\ text[ValueAt(x)] = BeginObject
  /\ text[place[x].to] = Closer(text[ValueAt(x)])
  /\ IF heap[x].child = NULL
       THEN place[x].to = ValueAt(x) + 1
       ELSE LET head == heap[x].child
            IN /\ place[head].from = ValueAt(x) + 1
               /\ (heap[head].string # NULL) <=> (heap[x].type = "Object")
               /\ place[heap[head].prev].to = place[x].to - 1

SaysName(x) ==
  heap[x].string # NULL => /\ text[place[x].from] = heap[heap[x].string].text
                           /\ text[place[x].from + 1] = ":"

\* An item and the next one in its list are a comma apart, and both have names or none.
FollowedBy(x, y) ==
  /\ text[place[x].to + 1] = Comma /\ place[y].from = place[x].to + 2
  /\ (heap[x].string = NULL) <=> (heap[y].string = NULL)

\* A finished tree says token by token what was read.  What stands behind it is not
\* looked at.
ReadsInPlace ==
  pc = "done" =>
    /\ item \in Items /\ heap[item].string = NULL
    /\ place[item].from = 1 /\ place[item].to = Len(text) - 1
    /\ \A x \in Items :
         /\ SaysScalar(x) \/ SaysList(x)
         /\ SaysName(x)
         /\ heap[x].next # NULL => FollowedBy(x, heap[x].next)
-----------------------------------------------------------------------------
(* The grammar of JSON *)

\* A phrase is a part of a text that is a value or the inside of an array or object.
Phrases(t) == ({"value"} \cup Openers) \X (DOMAIN t) \X (DOMAIN t)

\* An element of a list, of which the values are known.
Elements(t, S, opener, i, j) ==
  IF opener = BeginArray THEN <<"value", i, j>> \in S
  ELSE <<"value", i + 2, j>> \in S /\ t[i] \in Strings /\ t[i + 1] = ":"

\* The rules: what is a phrase if those in S are.
IsPhrase(t, S, kind, i, j) ==
  \/ kind = "value" /\ i = j /\ t[i] \in Scalars
  \/ /\ kind = "value" /\ t[i] \in Openers /\ t[j] = Closer(t[i])
     /\ j = i + 1 \/ <<t[i], i + 1, j - 1>> \in S
  \/ kind \in Openers /\ Elements(t, S, kind, i, j)
  \/ /\ kind \in Openers
     /\ \E k \in DOMAIN t : /\ <<kind, i, k>> \in S /\ Elements(t, S, kind, k + 2, j)
                            /\ t[k + 1] = Comma

ClosedUnderRules(t, S) == \A p \in Phrases(t) : IsPhrase(t, S, p[1], p[2], p[3]) => p \in S

\* The least set that satisfies the rules.
Parses(t) ==
  {p \in Phrases(t) : \A S \in SUBSET Phrases(t) : ClosedUnderRules(t, S) => p \in S}

IsJson(t) == <<"value", 1, Len(t)>> \in Parses(t)
=============================================================================
