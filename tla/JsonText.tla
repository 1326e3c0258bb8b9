------------------------------- MODULE JsonText -------------------------------
(***************************************************************************)
(* What the tree of JsonParser says: the printer of cJSON.c and the        *)
(* grammar of JSON, by which the parser is measured.                       *)
(***************************************************************************)
EXTENDS JsonReading
-----------------------------------------------------------------------------
(* print_value, print_array and print_object, unformatted *)

RECURSIVE PrintValue(_, _), PrintArray(_, _), PrintObject(_, _)

PrintValue(h, x) ==
  CASE h[x].type = "String" -> <<h[h[x].valuestring].text>>
    [] h[x].type = "Number" -> <<Number>>
    [] h[x].type = "Array"  -> <<BeginArray>> \o PrintArray(h, h[x].child) \o <<EndArray>>
    [] h[x].type = "Object" -> <<BeginObject>> \o PrintObject(h, h[x].child) \o <<EndObject>>
    [] OTHER -> <<h[x].type>>

PrintArray(h, x) ==
  IF x = NULL THEN <<>>
  ELSE PrintValue(h, x)
         \o (IF h[x].next = NULL THEN <<>> ELSE <<Comma>> \o PrintArray(h, h[x].next))

PrintObject(h, x) ==
  IF x = NULL THEN <<>>
  ELSE <<h[h[x].string].text, ":">> \o PrintValue(h, x)
         \o (IF h[x].next = NULL THEN <<>> ELSE <<Comma>> \o PrintObject(h, h[x].next))
-----------------------------------------------------------------------------
(* The grammar of JSON, by recursive descent *)

RECURSIVE IsValue(_), IsList(_, _)

IsElement(t, inObject) ==
  IF inObject
    THEN Len(t) > 2 /\ t[1] \in Strings /\ t[2] = ":" /\ IsValue(SubSeq(t, 3, Len(t)))
    ELSE IsValue(t)

IsList(t, inObject) ==
  \E k \in 1..Len(t) :
    /\ IsElement(SubSeq(t, 1, k), inObject)
    /\ k = Len(t) \/ (t[k + 1] = Comma /\ IsList(SubSeq(t, k + 2, Len(t)), inObject))

IsValue(t) ==
  \/ Len(t) = 1 /\ t[1] \in Strings \cup Words \cup {Number}
  \/ /\ Len(t) > 1 /\ t[1] \in Openers /\ t[Len(t)] = Closer(t[1])
     /\ Len(t) = 2 \/ IsList(SubSeq(t, 2, Len(t) - 1), t[1] = BeginObject)

\* It is the grammar of JsonReading, whose phrases are derived here rule after rule.
RECURSIVE Derived(_, _)
Derived(t, S) ==
  LET more == {p \in Phrases(t) : IsPhrase(t, S, p[1], p[2], p[3])}
  IN IF more = S THEN S ELSE Derived(t, more)

ShortTexts == UNION {[1..n -> Marks \cup Strings] : n \in 1..5}
ASSUME GrammarsAgree ==
  \A t \in ShortTexts : IsValue(t) <=> <<"value", 1, Len(t)>> \in Derived(t, {})

\* The closing marks that a text still lacks.
RECURSIVE Missing(_)
Missing(t) ==
  IF t = <<>> THEN <<>>
  ELSE LET before == Missing(SubSeq(t, 1, Len(t) - 1))
           mark == t[Len(t)]
       IN IF mark \in Openers THEN <<Closer(mark)>> \o before
          ELSE IF mark \in Closers /\ before # <<>> THEN Tail(before)
          ELSE before

\* What can be missing in front of the closing marks.
Rests == {<<>>, <<Number>>, <<":", Number>>} \cup {<<s, ":", Number>> : s \in Strings}

BeginsValue(t) == \E rest \in Rests : IsValue(t \o rest \o Missing(t))
-----------------------------------------------------------------------------
(* Properties *)

\* The tree says what was read: printed, it is the text that was parsed, and that
\* text is a JSON value.  What stands behind it is not looked at.
ReadsTheText ==
  pc = "done" =>
    LET read == SubSeq(text, 1, Len(text) - 1)
    IN PrintValue(heap, item) = read /\ IsValue(read)

\* A text is refused only if no JSON value begins with it, if it is nested too deep
\* or memory ran out.
RejectsOnlyBadText == pc = "failed" /\ ~oom /\ ~deep => ~BeginsValue(text)
=============================================================================
