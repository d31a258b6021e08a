---------------------- MODULE SequentialParser_proofs ----------------------
(* The stack of contexts of the parser: whatever the article, the handlers *)
(* find the contexts they pop without looking.  Then the sections they     *)
(* build: each has one owner, and none is freed twice.                     *)
EXTENDS SequentialParser, SequenceTheorems, FiniteSetTheorems, WellFoundedInduction, TLAPS

-----------------------------------------------------------------------------
(* A stack that is nested, and the two ways in which handlers change it:   *)
(* they take contexts off its end, and put one on.                         *)

Nested(s) ==
  /\ s \in Seq(Context)
  /\ Len(s) > 0 => s[1] = "ROOT"
  /\ \A d \in 2 .. Len(s) : s[d - 1] \in Under(s[d])
Below(s, n) == SubSeq(s, 1, Len(s) - n)
Takes(s, type) == Len(s) > 0 /\ type \in Context \ {"ROOT"} /\ s[Len(s)] \in Under(type)

LEMMA BelowIsPrefix ==
  ASSUME NEW S, NEW s \in Seq(S), NEW n \in 0 .. Len(s)
  PROVE  /\ Below(s, n) \in Seq(S) /\ Len(Below(s, n)) = Len(s) - n
         /\ \A d \in 1 .. Len(s) - n : Below(s, n)[d] = s[d]
<1>1. Len(s) \in Nat /\ Len(s) - n \in Nat /\ Len(s) - n <= Len(s)
  OBVIOUS
<1>2. \A d \in 1 .. Len(s) - n : s[d] \in S
  BY <1>1
<1>3. QED
  BY <1>1, <1>2, SubSeqProperties DEF Below

LEMMA BelowIsNested ==
  ASSUME NEW s, Nested(s), NEW n \in 0 .. Len(s)
  PROVE  Nested(Below(s, n))
<1> DEFINE b == Below(s, n)
           k == Len(s) - n
<1>1. s \in Seq(Context) /\ Len(s) \in Nat
  BY DEF Nested
<1>2. b \in Seq(Context) /\ Len(b) = k /\ \A d \in 1 .. k : b[d] = s[d]
  BY <1>1, BelowIsPrefix
<1>3. k \in Nat /\ k <= Len(s)
  BY <1>1
<1>4. Len(b) > 0 => b[1] = "ROOT"
  BY <1>2, <1>3 DEF Nested
<1>5. \A d \in 2 .. k : d - 1 \in 1 .. k /\ d \in 1 .. k /\ d \in 2 .. Len(s)
  BY <1>1, <1>3
<1>6. \A d \in 2 .. k : b[d - 1] \in Under(b[d])
  <2>1. TAKE d \in 2 .. k
  <2>2. b[d - 1] = s[d - 1] /\ b[d] = s[d]
    BY <1>2, <1>5
  <2>3. s[d - 1] \in Under(s[d])
    BY <1>5 DEF Nested
  <2>4. QED
    BY <2>2, <2>3
<1>7. QED
  BY <1>2, <1>4, <1>6 DEF Nested

LEMMA PushIsNested ==
  ASSUME NEW s, NEW type, Nested(s), Takes(s, type)
  PROVE  /\ Nested(Append(s, type)) /\ Len(Append(s, type)) = Len(s) + 1
         /\ Append(s, type)[Len(s) + 1] = type
<1> DEFINE a == Append(s, type)
<1>1. s \in Seq(Context) /\ type \in Context /\ Len(s) \in Nat /\ Len(s) > 0
  BY DEF Nested, Takes
<1>2. a \in Seq(Context) /\ Len(a) = Len(s) + 1 /\ a[Len(s) + 1] = type
  BY <1>1
<1>3. \A d \in 1 .. Len(s) : a[d] = s[d]
  BY <1>1
<1>4. a[1] = "ROOT"
  BY <1>1, <1>3 DEF Nested
<1>5. ASSUME NEW d \in 2 .. Len(s) + 1 PROVE a[d - 1] \in Under(a[d])
  <2>1. d - 1 \in 1 .. Len(s)
    BY <1>1
  <2>2. CASE d = Len(s) + 1
    <3>1. d - 1 = Len(s)
      BY <1>1, <2>2
    <3>2. QED
      BY <1>2, <1>3, <2>1, <2>2, <3>1 DEF Takes
  <2>3. CASE d # Len(s) + 1
    <3>1. d \in 2 .. Len(s) /\ d \in 1 .. Len(s)
      BY <1>1, <2>3
    <3>2. s[d - 1] \in Under(s[d])
      BY <3>1 DEF Nested
    <3>3. QED
      BY <1>3, <2>1, <3>1, <3>2
  <2>4. QED
    BY <2>2, <2>3
<1>6. QED
  BY <1>2, <1>4, <1>5 DEF Nested

(* Only the root is at the bottom, so a handler that finds another context *)
(* on top finds the one it expects below it.                               *)
LEMMA RestsOn ==
  ASSUME NEW s, Nested(s), NEW n \in 1 .. Len(s), s[n] # "ROOT"
  PROVE  n - 1 \in 1 .. Len(s) /\ s[n - 1] \in Under(s[n])
<1>1. Len(s) \in Nat /\ Len(s) > 0
  BY DEF Nested
<1>2. n # 1
  BY <1>1 DEF Nested
<1>3. n \in 2 .. Len(s) /\ n - 1 \in 1 .. Len(s)
  BY <1>1, <1>2
<1>4. QED
  BY <1>3 DEF Nested

-----------------------------------------------------------------------------
(* What a change under way does to the stack.                              *)

IsSequence(f) == \E S : f \in Seq(S)
Shape(m, s) ==
  /\ m = [heap |-> m.heap, stack |-> s, frames |-> m.frames]
  /\ Nested(s)
  /\ IsSequence(m.frames) /\ Len(m.frames) = Len(s)

LEMMA OneField ==
  ASSUME NEW m, NEW x, m = [heap |-> m.heap, stack |-> m.stack, frames |-> m.frames]
  PROVE  /\ [m EXCEPT !.stack = x] = [heap |-> m.heap, stack |-> x, frames |-> m.frames]
         /\ [m EXCEPT !.frames = x] = [heap |-> m.heap, stack |-> m.stack, frames |-> x]
OBVIOUS

LEMMA TwoFields ==
  ASSUME NEW m, NEW t, NEW g, m = [heap |-> m.heap, stack |-> m.stack, frames |-> m.frames]
  PROVE  [m EXCEPT !.stack = t, !.frames = g] = [heap |-> m.heap, stack |-> t, frames |-> g]
<1>1. PICK o : o = [m EXCEPT !.stack = t]
  OBVIOUS
<1>2. o = [heap |-> m.heap, stack |-> t, frames |-> m.frames]
  BY <1>1, OneField
<1>3. o.heap = m.heap /\ o.stack = t /\ o.frames = m.frames
  BY <1>2
<1>4. o = [heap |-> o.heap, stack |-> o.stack, frames |-> o.frames]
  BY <1>2, <1>3, Zenon
<1>5. [o EXCEPT !.frames = g] = [heap |-> o.heap, stack |-> o.stack, frames |-> g]
  BY <1>4, OneField
<1>6. [m EXCEPT !.stack = t, !.frames = g] = [o EXCEPT !.frames = g]
  BY <1>1, Zenon
<1>7. QED
  BY <1>3, <1>5, <1>6, Zenon

LEMMA HeapShape ==
  ASSUME NEW m, NEW s, NEW h, Shape(m, s)
  PROVE  Shape([m EXCEPT !.heap = h], s)
BY DEF Shape

LEMMA SetTopShape ==
  ASSUME NEW m, NEW s, NEW field, NEW value, Shape(m, s), Len(s) > 0
  PROVE  Shape(SetTop(m, field, value), s)
<1> DEFINE f == m.frames
           x == [f[Len(f)] EXCEPT ![field] = value]
           g == [f EXCEPT ![Len(f)] = x]
<1>1. PICK S : f \in Seq(S)
  BY DEF Shape, IsSequence
<1>2. f \in Seq(S \cup {x}) /\ Len(f) \in Nat /\ Len(f) = Len(s)
  BY <1>1 DEF Shape
<1>3. Len(f) \in 1 .. Len(f)
  BY <1>2
<1>4. g \in Seq(S \cup {x}) /\ Len(g) = Len(f)
  BY <1>2, <1>3, ExceptSeq
<1>5. SetTop(m, field, value) = [heap |-> m.heap, stack |-> s, frames |-> g]
  BY DEF Shape, SetTop
<1>6. QED
  BY <1>2, <1>4, <1>5 DEF Shape, IsSequence

LEMMA PopShape ==
  ASSUME NEW m, NEW s, NEW n \in 0 .. Len(s), Shape(m, s)
  PROVE  Shape(Pop(m, n), Below(s, n)) /\ Len(Below(s, n)) = Len(s) - n
<1> DEFINE f == m.frames
           b == Below(s, n)
<1>1. PICK S : f \in Seq(S)
  BY DEF Shape, IsSequence
<1>2. s \in Seq(Context) /\ Len(f) = Len(s)
  BY DEF Shape, Nested
<1>3. b \in Seq(Context) /\ Len(b) = Len(s) - n /\ Nested(b)
  BY <1>2, BelowIsPrefix, BelowIsNested DEF Shape
<1>4. Below(f, n) \in Seq(S) /\ Len(Below(f, n)) = Len(s) - n
  BY <1>1, <1>2, BelowIsPrefix
<1>5. Pop(m, n) = [heap |-> m.heap, stack |-> b, frames |-> Below(f, n)]
  <2>1. m.stack = s /\ m = [heap |-> m.heap, stack |-> m.stack, frames |-> m.frames]
    BY DEF Shape
  <2>2. Pop(m, n) = [m EXCEPT !.stack = b, !.frames = Below(f, n)]
    BY <2>1, Zenon DEF Pop, Below
  <2>3. QED
    BY <2>1, <2>2, TwoFields
<1>6. QED
  BY <1>3, <1>4, <1>5 DEF Shape, IsSequence

LEMMA PushShape ==
  ASSUME NEW m, NEW s, NEW type, NEW sec, NEW list, Shape(m, s), Takes(s, type)
  PROVE  Shape(Push(m, type, sec, list), Append(s, type))
<1> DEFINE f == m.frames
           a == Append(s, type)
           x == [section |-> sec, list |-> list, start |-> pos + 1,
                 stop |-> None, tok |-> pos, params |-> 0, newline |-> FALSE]
<1>1. PICK S : f \in Seq(S)
  BY DEF Shape, IsSequence
<1>2. f \in Seq(S \cup {x}) /\ Len(f) = Len(s)
  BY <1>1 DEF Shape
<1>3. Nested(a) /\ Len(a) = Len(s) + 1
  BY PushIsNested DEF Shape
<1>4. Append(f, x) \in Seq(S \cup {x}) /\ Len(Append(f, x)) = Len(f) + 1
  BY <1>2
<1>5. Push(m, type, sec, list) = [heap |-> m.heap, stack |-> a, frames |-> Append(f, x)]
  <2>1. m.stack = s /\ m = [heap |-> m.heap, stack |-> m.stack, frames |-> m.frames]
    BY DEF Shape
  <2>2. Push(m, type, sec, list) = [m EXCEPT !.stack = a, !.frames = Append(f, x)]
    BY <2>1, Zenon DEF Push
  <2>3. QED
    BY <2>1, <2>2, TwoFields
<1>6. QED
  BY <1>2, <1>3, <1>4, <1>5 DEF Shape, IsSequence
-----------------------------------------------------------------------------
(* The helpers of the handlers.                                            *)

LEMMA TextSoFarShape ==
  ASSUME NEW m, NEW s, Shape(m, s)
  PROVE  Shape(TextSoFar(m), s)
BY HeapShape DEF TextSoFar

LEMMA FlushShape ==
  ASSUME NEW m, NEW s, Shape(m, s), Len(s) > 0
  PROVE  Shape(Flush(m), s) /\ Shape(FlushText(m), s)
<1>1. Shape(SetTop(m, "stop", pos), s)
  BY SetTopShape
<1>2. Shape(Flush(m), s)
  BY <1>1, TextSoFarShape DEF Flush
<1>3. QED
  BY <1>2 DEF FlushText

LEMMA WithTextShape ==
  ASSUME NEW m, NEW s, NEW text, Shape(m, s)
  PROVE  Shape(WithText(m, text), s)
BY HeapShape DEF WithText

LEMMA AppendToShape ==
  ASSUME NEW m, NEW s, NEW sec, Shape(m, s)
  PROVE  Shape(AppendTo(m, sec), s)
BY HeapShape DEF AppendTo

LEMMA ResumeShape ==
  ASSUME NEW m, NEW s, Shape(m, s), Len(s) > 0
  PROVE  Shape(Resume(m), s)
BY SetTopShape DEF Resume

LEMMA FinishedShape ==
  ASSUME NEW m, NEW s, Shape(m, s), Len(s) > 1
  PROVE  Shape(Finished(m), Below(s, 1)) /\ Len(Below(s, 1)) = Len(s) - 1
<1>1. Len(s) \in Nat /\ 1 \in 0 .. Len(s) /\ Len(s) - 1 > 0
  BY DEF Shape, Nested
<1>2. Shape(Pop(m, 1), Below(s, 1)) /\ Len(Below(s, 1)) = Len(s) - 1
  BY <1>1, PopShape
<1>3. Len(Below(s, 1)) > 0
  BY <1>1, <1>2
<1>4. Shape(AppendTo(Pop(m, 1), TopOf(m).section), Below(s, 1))
  BY <1>2, AppendToShape
<1>5. QED
  BY <1>2, <1>3, <1>4, ResumeShape DEF Finished

LEMMA OpenShape ==
  ASSUME NEW m, NEW s, NEW type, NEW section, Shape(m, s), Takes(s, type)
  PROVE  Shape(Open(m, type, section), Append(s, type))
<1>1. PICK o : o = [m EXCEPT !.heap = Build(m.heap, section)]
  OBVIOUS
<1>2. Shape(o, s)
  BY <1>1, HeapShape
<1>3. PICK sec, list : Open(m, type, section) = Push(o, type, sec, list)
  BY <1>1, Zenon DEF Open
<1>4. QED
  BY <1>2, <1>3, PushShape

LEMMA NextParameterShape ==
  ASSUME NEW m, NEW s, Shape(m, s), Takes(s, "PARAMETER")
  PROVE  Shape(NextParameter(m), Append(s, "PARAMETER"))
<1>1. PICK h, kv : NextParameter(m) = Push([m EXCEPT !.heap = h], "PARAMETER", kv, kv)
  BY Zenon DEF NextParameter
<1>2. PICK o : o = [m EXCEPT !.heap = h]
  OBVIOUS
<1>3. Shape(o, s)
  BY <1>2, HeapShape
<1>4. QED
  BY <1>1, <1>2, <1>3, PushShape

LEMMA AppendLinkShape ==
  ASSUME NEW m, NEW s, NEW sec, Shape(m, s)
  PROVE  Shape(AppendLink(m, sec), s) /\ Shape(AppendRedirect(m, sec), s)
<1>1. PICK h : AppendLink(m, sec) = AppendTo([m EXCEPT !.heap = h], sec)
  BY Zenon DEF AppendLink
<1>2. PICK o : o = [m EXCEPT !.heap = h]
  OBVIOUS
<1>3. Shape(AppendLink(m, sec), s)
  BY <1>1, <1>2, HeapShape, AppendToShape
<1>4. PICK g, red : AppendRedirect(m, sec) = AppendTo([m EXCEPT !.heap = g], red)
  BY Zenon DEF AppendRedirect
<1>5. Shape([m EXCEPT !.heap = g], s)
  BY HeapShape
<1>6. QED
  BY <1>3, <1>4, <1>5, AppendToShape

(* Two or one contexts are closed, and a section put into the list of the  *)
(* one below.                                                              *)
LEMMA CloseIntoBelowShape ==
  ASSUME NEW m, NEW s, Shape(m, s), Len(s) > 0
  PROVE  Shape(CloseIntoBelow(m), Below(s, 1)) /\ Len(Below(s, 1)) = Len(s) - 1
<1>1. Len(s) \in Nat /\ 1 \in 0 .. Len(s)
  BY DEF Shape, Nested
<1>2. Shape(Pop(m, 1), Below(s, 1)) /\ Len(Below(s, 1)) = Len(s) - 1
  BY <1>1, PopShape
<1>3. PICK o : o = Pop(m, 1)
  OBVIOUS
<1>4. PICK h : CloseIntoBelow(m) = [o EXCEPT !.heap = h]
  BY <1>3, Zenon DEF CloseIntoBelow
<1>5. PICK t : t = Below(s, 1)
  OBVIOUS
<1>6. Shape(o, t)
  BY <1>2, <1>3, <1>5, Zenon
<1>7. Shape(CloseIntoBelow(m), t)
  BY <1>4, <1>6, HeapShape
<1>8. QED
  BY <1>2, <1>5, <1>7, Zenon

-----------------------------------------------------------------------------
(* The invariant, and where a token counts.                                *)

StackInv ==
  /\ Shape(Now, stack)
  /\ phase \in {"scan", "crashed"} => Depth > 0
  /\ error \in {"", "Empty content after preprocessing",
                "Parent is not a TEMPLATE inside of parse_template_end_in_value",
                "NULL context inside of parse_source_end"}

LEMMA Nesting ==
  ASSUME StackInv
  PROVE  ContextsNest
<1>1. Nested(stack) /\ Len(frames) = Depth
  BY DEF StackInv, Shape, Now, Depth
<1>2. QED
  BY <1>1 DEF StackInv, ContextsNest, Nested, Depth

(* Every step but the last ones leaves a nested stack with its frames.     *)
LEMMA BecomeKeeps ==
  ASSUME NEW m, NEW s, Shape(m, s), Become(m)
  PROVE  Shape(Now, stack)' /\ stack' = s
<1>1. m.stack = s /\ stack' = s
  BY DEF Shape, Become
<1>2. IsSequence(frames') /\ Len(frames') = Len(s) /\ Nested(s)
  BY DEF Shape, Become
<1>3. QED
  BY <1>1, <1>2 DEF Shape, Now, Become
LEMMA Basics ==
  ASSUME StackInv
  PROVE  /\ Nested(stack) /\ Shape(Now, stack)
         /\ Depth \in Nat /\ Len(stack) = Depth /\ stack[Depth] = Top
<1>1. Nested(stack) /\ Shape(Now, stack)
  BY DEF StackInv, Shape
<1>2. Depth \in Nat /\ Len(stack) = Depth /\ stack[Depth] = Top
  BY <1>1 DEF Nested, Depth, Top
<1>3. QED
  BY <1>1, <1>2

LEMMA OnTop ==
  ASSUME StackInv, NEW tok, On(tok)
  PROVE  /\ phase = "scan" /\ Tok \in tok /\ Top \in HandledIn(Tok)
         /\ Depth \in Nat /\ Depth > 0 /\ Len(stack) = Depth /\ stack[Depth] = Top
         /\ Nested(stack) /\ Shape(Now, stack)
<1>1. phase = "scan" /\ Tok \in tok /\ Top \in HandledIn(Tok)
  BY DEF On, Scanning
<1>2. Depth > 0
  BY <1>1 DEF StackInv
<1>3. QED
  BY <1>1, <1>2, Basics

(* A handler that only changes sections and contexts.                      *)
LEMMA OnlyContexts ==
  ASSUME StackInv, phase = "scan", NEW m, NEW s, Shape(m, s), Len(s) > 0, Become(m),
         UNCHANGED <<error, phase>>
  PROVE  StackInv'
<1>1. Shape(Now, stack)' /\ stack' = s
  BY BecomeKeeps
<1>2. phase' = "scan" /\ error' = error
  OBVIOUS
<1>3. QED
  BY <1>1, <1>2 DEF StackInv, Depth

(* A handler that leaves them alone.                                       *)
LEMMA SameContexts ==
  ASSUME StackInv, UNCHANGED <<stack, frames, heap>>, phase' \notin {"scan", "crashed"} \/ Depth > 0,
         error' \in {error, "NULL context inside of parse_source_end"}
  PROVE  StackInv'
<1>1. Shape(Now, stack)' /\ Depth' = Depth
  BY DEF StackInv, Shape, Now, Depth
<1>2. QED
  BY <1>1 DEF StackInv

LEMMA TokensHandled ==
  /\ \A tok \in TakenAnywhere : HandledIn(tok) = Anywhere
  /\ HandledIn("{{") = TemplateBeginIn /\ HandledIn("</ref>") = {"REF"}
  /\ HandledIn(" ") = SpaceIn /\ HandledIn("|+") = {"TABLE"} /\ HandledIn("!") = {"TABLE_ROW"}
BY DEF HandledIn, TakenAnywhere, Begins, TemplateEnd, HeadingMark, FormattingMark

LEMMA TakenTokens ==
  HeadingMark \cup FormattingMark
  \cup {"[[", "[[Image:", "[http://", "[[Category:", "[[de:", "<ref>", "<ref/>", "{|",
        "<nowiki>", "<pre>", "<math>", "<source>", "<gallery>"} \subseteq TakenAnywhere
BY DEF TakenAnywhere, Begins, HeadingMark, FormattingMark

LEMMA OnAnywhere ==
  ASSUME StackInv, NEW tok, On(tok), tok \subseteq TakenAnywhere
  PROVE  Top \in Anywhere
<1>1. Tok \in TakenAnywhere /\ Top \in HandledIn(Tok)
  BY OnTop
<1>2. QED
  BY <1>1, TokensHandled

(* What a context may be put on.                                           *)
LEMMA UnderEach ==
  /\ \A type \in {"IMAGE", "EXTERNAL_LINK", "REF", "HEADING", "CATEGORY_LINK", "LANGUAGE_LINK",
                  "PRE", "MATH", "SOURCE", "GALLERY", "TABLE"} :
       type \in Context \ {"ROOT"} /\ Under(type) = Anywhere
  /\ Under("VALUE") = {"PARAMETER"} /\ Under("PARAMETER") = {"TEMPLATE", "IMAGE"}
  /\ Under("INTERNAL_LINK_ANCHOR_TEXT") = {"INTERNAL_LINK"}
  /\ Under("EXTERNAL_LINK_VALUE") = {"EXTERNAL_LINK"}
  /\ Under("TABLE_CAPTION") = {"TABLE"} /\ Under("TABLE_ROW") = {"TABLE"}
  /\ Under("TABLE_CELL") = {"TABLE_ROW"}
  /\ Under("TEMPLATE") = {"ROOT", "PARAMETER", "VALUE", "REF"}
  /\ Under("INTERNAL_LINK") =
       Anywhere \ {"INTERNAL_LINK", "INTERNAL_LINK_ANCHOR_TEXT", "EXTERNAL_LINK"}
  /\ Under("NOWIKI") = Anywhere \ {"EXTERNAL_LINK"}
  /\ {"VALUE", "PARAMETER", "INTERNAL_LINK_ANCHOR_TEXT", "EXTERNAL_LINK_VALUE", "TABLE_CAPTION",
      "TABLE_ROW", "TABLE_CELL", "TEMPLATE", "INTERNAL_LINK", "NOWIKI"} \subseteq Context \ {"ROOT"}
BY DEF Under, Context, Raw

LEMMA TakesBelow ==
  ASSUME NEW s, Nested(s), NEW n \in 0 .. Len(s), Len(s) - n > 0,
         NEW type \in Context \ {"ROOT"}, s[Len(s) - n] \in Under(type)
  PROVE  Takes(Below(s, n), type)
<1>1. s \in Seq(Context) /\ Len(s) \in Nat
  BY DEF Nested
<1>2. Len(s) - n \in 1 .. Len(s) - n
  BY <1>1
<1>3. Len(Below(s, n)) = Len(s) - n /\ Below(s, n)[Len(s) - n] = s[Len(s) - n]
  BY <1>1, <1>2, BelowIsPrefix
<1>4. QED
  BY <1>3 DEF Takes

(* The contexts that are taken for granted below one.                      *)
LEMMA BelowTop ==
  ASSUME NEW s, Nested(s), Len(s) > 0
  PROVE  /\ s[Len(s)] # "ROOT" => Len(s) > 1 /\ s[Len(s) - 1] \in Under(s[Len(s)])
         /\ s[Len(s)] = "VALUE" =>
              /\ Len(s) > 2 /\ s[Len(s) - 1] = "PARAMETER"
              /\ s[Len(s) - 2] \in {"TEMPLATE", "IMAGE"}
         /\ s[Len(s)] = "INTERNAL_LINK_ANCHOR_TEXT" =>
              /\ Len(s) > 2 /\ s[Len(s) - 1] = "INTERNAL_LINK"
              /\ s[Len(s) - 2] \in Under("INTERNAL_LINK")
         /\ s[Len(s)] = "TABLE_CELL" =>
              Len(s) > 2 /\ s[Len(s) - 1] = "TABLE_ROW" /\ s[Len(s) - 2] = "TABLE"
<1> DEFINE d == Len(s)
<1>1. d \in Nat /\ d \in 1 .. d
  BY DEF Nested
<1>2. ASSUME s[d] # "ROOT"
      PROVE  d > 1 /\ d - 1 \in 1 .. d /\ s[d - 1] \in Under(s[d])
  <2>1. d - 1 \in 1 .. d /\ s[d - 1] \in Under(s[d])
    BY <1>1, <1>2, RestsOn
  <2>2. QED
    BY <1>1, <2>1
<1>3. ASSUME s[d] # "ROOT", s[d - 1] # "ROOT"
      PROVE  d > 2 /\ s[d - 2] \in Under(s[d - 1])
  <2>1. PICK n \in 1 .. d : n = d - 1
    BY <1>2, <1>3
  <2>2. n - 1 \in 1 .. d /\ s[n - 1] \in Under(s[n])
    BY <1>3, <2>1, RestsOn
  <2>3. n - 1 = d - 2 /\ d > 2
    BY <1>1, <2>1, <2>2
  <2>4. QED
    BY <2>1, <2>2, <2>3
<1>4. ASSUME s[d] = "VALUE"
      PROVE  d > 2 /\ s[d - 1] = "PARAMETER" /\ s[d - 2] \in {"TEMPLATE", "IMAGE"}
  BY <1>2, <1>3, <1>4, UnderEach
<1>5. ASSUME s[d] = "TABLE_CELL"
      PROVE  d > 2 /\ s[d - 1] = "TABLE_ROW" /\ s[d - 2] = "TABLE"
  BY <1>2, <1>3, <1>5, UnderEach
<1>6. ASSUME s[d] = "INTERNAL_LINK_ANCHOR_TEXT"
      PROVE  d > 2 /\ s[d - 1] = "INTERNAL_LINK" /\ s[d - 2] \in Under("INTERNAL_LINK")
  BY <1>2, <1>3, <1>6, UnderEach
<1>7. QED
  BY <1>2, <1>4, <1>5, <1>6

LEMMA TakesOnTop ==
  ASSUME StackInv, NEW tok, On(tok), NEW type \in Context \ {"ROOT"}, Top \in Under(type)
  PROVE  Takes(stack, type)
BY OnTop DEF Takes

(* Opening a context on the one on top.                                    *)
LEMMA OpensOnTop ==
  ASSUME StackInv, NEW tok, On(tok), NEW type, Takes(stack, type), NEW section, NEW m,
         Shape(m, stack), Become(Open(m, type, section)), UNCHANGED <<error, phase>>
  PROVE  StackInv'
<1>1. phase = "scan" /\ Nested(stack)
  BY OnTop
<1>2. Shape(Open(m, type, section), Append(stack, type))
  BY OpenShape
<1>3. Len(Append(stack, type)) > 0
  BY <1>1 DEF Nested, Takes
<1>4. QED
  BY <1>1, <1>2, <1>3, OnlyContexts

(* Finishing the section on top.                                           *)
LEMMA FinishesTop ==
  ASSUME StackInv, phase = "scan", NEW m, NEW s, Shape(m, s), Len(s) > 1, Become(Finished(m)),
         UNCHANGED <<error, phase>>
  PROVE  StackInv'
<1>1. Shape(Finished(m), Below(s, 1)) /\ Len(Below(s, 1)) = Len(s) - 1
  BY FinishedShape
<1>2. Len(Below(s, 1)) > 0
  BY <1>1 DEF Shape, Nested
<1>3. QED
  BY <1>1, <1>2, OnlyContexts
-----------------------------------------------------------------------------
(* The handlers, in the order of the specification.                        *)

LEMMA AddressEndsShape ==
  ASSUME StackInv, NEW tok, On(tok), Top = "EXTERNAL_LINK"
  PROVE  /\ Shape(AddressEnds, Append(stack, "EXTERNAL_LINK_VALUE"))
         /\ Len(Append(stack, "EXTERNAL_LINK_VALUE")) = Depth + 1
         /\ Append(stack, "EXTERNAL_LINK_VALUE")[Depth + 1] = "EXTERNAL_LINK_VALUE"
<1>1. Takes(stack, "EXTERNAL_LINK_VALUE")
  BY TakesOnTop, UnderEach
<1>2. Nested(stack) /\ Len(stack) = Depth /\ Shape(WithText(Now, GenerateHref), stack)
  BY OnTop, WithTextShape
<1>3. QED
  BY <1>1, <1>2, PushShape, PushIsNested DEF AddressEnds

LEMMA BackToTextShape ==
  ASSUME StackInv, NEW n \in 0 .. Depth
  PROVE  Shape(BackToText(n), Below(stack, n)) /\ Len(Below(stack, n)) = Depth - n
<1>1. PICK h : BackToText(n) = Pop([Now EXCEPT !.heap = h], n)
  BY Zenon DEF BackToText
<1>2. Shape([Now EXCEPT !.heap = h], stack)
  BY HeapShape DEF StackInv
<1>3. QED
  BY <1>1, <1>2, PopShape DEF Depth

LEMMA LinkBeginKeeps ==
  ASSUME StackInv, LinkBegin
  PROVE  StackInv'
<1> DEFINE a == Append(stack, "EXTERNAL_LINK_VALUE")
<1>1. PICK tok : tok = {"[["} /\ On(tok)
  BY DEF LinkBegin
<1>2. /\ phase = "scan" /\ Depth \in Nat /\ Depth > 0 /\ Len(stack) = Depth /\ Shape(Now, stack)
      /\ Top \in Anywhere
  BY <1>1, OnTop, OnAnywhere, TakenTokens
<1>3. UNCHANGED <<error, phase>>
  BY DEF LinkBegin, rest
<1>4. CASE Top = "EXTERNAL_LINK"
  <2>1. Shape(AddressEnds, a) /\ Len(a) = Depth + 1 /\ a[Depth + 1] = "EXTERNAL_LINK_VALUE"
    BY <1>1, <1>4, AddressEndsShape
  <2>2. "EXTERNAL_LINK_VALUE" \in Under("INTERNAL_LINK")
    BY UnderEach DEF Anywhere, Context, Raw
  <2>3. Takes(a, "INTERNAL_LINK")
    BY <1>2, <2>1, <2>2, UnderEach DEF Takes
  <2>4. Shape(Open(AddressEnds, "INTERNAL_LINK", ""), Append(a, "INTERNAL_LINK"))
    BY <2>1, <2>3, OpenShape
  <2>5. Nested(a) /\ Len(Append(a, "INTERNAL_LINK")) > 0
    BY <2>1, <2>3, PushIsNested DEF Shape, Nested, Takes
  <2>6. Become(Open(AddressEnds, "INTERNAL_LINK", ""))
    BY <1>4 DEF LinkBegin
  <2>7. QED
    BY <1>2, <1>3, <2>4, <2>5, <2>6, OnlyContexts
<1>5. CASE Top # "EXTERNAL_LINK"
  <2>1. Takes(stack, "INTERNAL_LINK")
    BY <1>1, <1>2, <1>5, TakesOnTop, UnderEach DEF LinkBegin
  <2>2. PICK m : m \in {Now, FlushText(Now)} /\ Become(Open(m, "INTERNAL_LINK", ""))
    BY <1>5 DEF LinkBegin
  <2>3. Shape(m, stack)
    BY <1>2, <2>2, FlushShape
  <2>4. QED
    BY <1>1, <1>3, <2>1, <2>2, <2>3, OpensOnTop
<1>6. QED
  BY <1>4, <1>5

LEMMA LinkBeginInLinkKeeps ==
  ASSUME StackInv, LinkBeginInLink
  PROVE  StackInv'
<1>1. PICK tok : tok = {"[["} /\ On(tok)
  BY DEF LinkBeginInLink
<1>2. /\ phase = "scan" /\ Depth \in Nat /\ Depth > 0 /\ Len(stack) = Depth /\ Nested(stack)
      /\ stack[Depth] = Top
  BY <1>1, OnTop
<1>3. PICK n \in {1, 2} : /\ n = IF Top = "INTERNAL_LINK" THEN 1 ELSE 2
                          /\ Become(Open(BackToText(n), "INTERNAL_LINK", ""))
  BY DEF LinkBeginInLink
<1>4. Depth - n > 0 /\ stack[Depth - n] \in Under("INTERNAL_LINK")
  <2>1. CASE Top = "INTERNAL_LINK"
    <3>1. n = 1 /\ stack[Depth] = "INTERNAL_LINK"
      BY <1>2, <1>3, <2>1
    <3>2. Depth - 1 > 0 /\ stack[Depth - 1] \in Under("INTERNAL_LINK")
      BY <1>2, <3>1, BelowTop
    <3>3. QED
      BY <3>1, <3>2
  <2>2. CASE Top = "INTERNAL_LINK_ANCHOR_TEXT"
    <3>1. n = 2 /\ stack[Depth] = "INTERNAL_LINK_ANCHOR_TEXT"
      BY <1>2, <1>3, <2>2
    <3>2. Depth - 2 > 0 /\ stack[Depth - 2] \in Under("INTERNAL_LINK")
      BY <1>2, <3>1, BelowTop
    <3>3. QED
      BY <3>1, <3>2
  <2>3. QED
    BY <2>1, <2>2 DEF LinkBeginInLink
<1>5. n \in 0 .. Depth
  <2>1. n \in Nat /\ Depth - n > 0
    BY <1>3, <1>4
  <2>2. QED
    BY <1>2, <2>1
<1>6. Takes(Below(stack, n), "INTERNAL_LINK")
  BY <1>2, <1>4, <1>5, TakesBelow, UnderEach
<1>7. Shape(BackToText(n), Below(stack, n))
  BY <1>5, BackToTextShape
<1>8. Shape(Open(BackToText(n), "INTERNAL_LINK", ""), Append(Below(stack, n), "INTERNAL_LINK"))
  BY <1>6, <1>7, OpenShape
<1>9. Len(Append(Below(stack, n), "INTERNAL_LINK")) > 0
  BY <1>6, <1>7 DEF Shape, Nested, Takes
<1>10. QED
  BY <1>2, <1>3, <1>8, <1>9, OnlyContexts DEF LinkBeginInLink

LEMMA LinksKeep ==
  ASSUME StackInv
  PROVE  /\ NewlineInInternalLink \/ SeparatorInInternalLink => StackInv'
         /\ LinkEndInInternalLink \/ LinkEndInAnchorText => StackInv'
<1>1. ASSUME NewlineInInternalLink PROVE StackInv'
  <2>1. PICK tok : tok = {"nl"} /\ On(tok)
    BY <1>1 DEF NewlineInInternalLink
  <2>2. phase = "scan" /\ Depth \in Nat /\ Depth > 1
    BY <1>1, <2>1, OnTop, BelowTop DEF NewlineInInternalLink
  <2>3. 1 \in 0 .. Depth /\ Depth - 1 > 0
    BY <2>2
  <2>4. Shape(BackToText(1), Below(stack, 1)) /\ Len(Below(stack, 1)) > 0
    BY <2>3, BackToTextShape
  <2>5. Shape(SetTop(BackToText(1), "start", pos), Below(stack, 1))
    BY <2>4, SetTopShape
  <2>6. QED
    BY <1>1, <2>2, <2>4, <2>5, OnlyContexts DEF NewlineInInternalLink
<1>2. ASSUME SeparatorInInternalLink PROVE StackInv'
  <2> DEFINE a == Append(stack, "INTERNAL_LINK_ANCHOR_TEXT")
             m == WithText(Now, Str(F.tok + 1, pos))
  <2>1. PICK tok : tok = {"|"} /\ On(tok)
    BY <1>2 DEF SeparatorInInternalLink
  <2>2. phase = "scan" /\ Nested(stack) /\ Shape(m, stack)
    BY <2>1, OnTop, WithTextShape
  <2>3. Takes(stack, "INTERNAL_LINK_ANCHOR_TEXT")
    BY <1>2, <2>1, TakesOnTop, UnderEach DEF SeparatorInInternalLink
  <2>4. Shape(Push(m, "INTERNAL_LINK_ANCHOR_TEXT", None, F.list), a)
    BY <2>2, <2>3, PushShape
  <2>5. Len(a) > 0
    BY <2>2, <2>3 DEF Nested, Takes
  <2>6. QED
    BY <1>2, <2>2, <2>4, <2>5, OnlyContexts DEF SeparatorInInternalLink, rest
<1>3. ASSUME LinkEndInInternalLink PROVE StackInv'
  <2>1. PICK tok : tok = {"]]"} /\ On(tok)
    BY <1>3 DEF LinkEndInInternalLink
  <2>2. phase = "scan" /\ Depth \in Nat /\ Depth > 1 /\ Len(stack) = Depth
    BY <1>3, <2>1, OnTop, BelowTop DEF LinkEndInInternalLink
  <2>3. Shape(WithText(Now, Str(F.tok + 1, pos)), stack)
    BY <2>1, OnTop, WithTextShape
  <2>4. PICK m : Shape(m, stack) /\ Become(Resume(Pop(m, 1)))
    BY <1>3, <2>3, AppendLinkShape DEF LinkEndInInternalLink
  <2>5. 1 \in 0 .. Len(stack) /\ Len(stack) - 1 > 0
    BY <2>2
  <2>6. Shape(Pop(m, 1), Below(stack, 1)) /\ Len(Below(stack, 1)) > 0
    BY <2>4, <2>5, PopShape
  <2>7. Shape(Resume(Pop(m, 1)), Below(stack, 1))
    BY <2>6, ResumeShape
  <2>8. QED
    BY <1>3, <2>2, <2>4, <2>6, <2>7, OnlyContexts DEF LinkEndInInternalLink, rest
<1>4. ASSUME LinkEndInAnchorText PROVE StackInv'
  <2>1. PICK tok : tok = {"]]"} /\ On(tok)
    BY <1>4 DEF LinkEndInAnchorText
  <2>2. phase = "scan" /\ Depth \in Nat /\ Depth > 2 /\ Len(stack) = Depth
    BY <1>4, <2>1, OnTop, BelowTop DEF LinkEndInAnchorText
  <2>3. PICK h, link : Become(Resume(Pop(AppendLink([Now EXCEPT !.heap = h], link), 2)))
    BY <1>4, Zenon DEF LinkEndInAnchorText
  <2>4. PICK m : m = AppendLink([Now EXCEPT !.heap = h], link)
    OBVIOUS
  <2>5. Shape([Now EXCEPT !.heap = h], stack)
    BY <2>1, OnTop, HeapShape
  <2>6. Shape(m, stack)
    BY <2>4, <2>5, AppendLinkShape
  <2>7. 2 \in 0 .. Len(stack) /\ Len(stack) - 2 > 0
    BY <2>2
  <2>8. Shape(Pop(m, 2), Below(stack, 2)) /\ Len(Below(stack, 2)) > 0
    BY <2>6, <2>7, PopShape
  <2>9. Shape(Resume(Pop(m, 2)), Below(stack, 2))
    BY <2>8, ResumeShape
  <2>10. UNCHANGED <<error, phase>>
    BY <1>4 DEF LinkEndInAnchorText, rest
  <2>11. QED
    BY <2>2, <2>3, <2>4, <2>8, <2>9, <2>10, OnlyContexts
<1>5. QED
  BY <1>1, <1>2, <1>3, <1>4
(* The contexts that may be opened anywhere.                               *)
LEMMA OpensAnywhere ==
  ASSUME StackInv, NEW tok, On(tok), tok \subseteq TakenAnywhere,
         NEW type \in {"IMAGE", "EXTERNAL_LINK", "REF", "HEADING", "CATEGORY_LINK",
                       "LANGUAGE_LINK", "PRE", "MATH", "SOURCE", "GALLERY", "TABLE"},
         NEW m \in {Now, Flush(Now), FlushText(Now), TextSoFar(Now)}
  PROVE  /\ Takes(stack, type) /\ Shape(m, stack)
         /\ \A section : Become(Open(m, type, section)) /\ UNCHANGED <<error, phase>> => StackInv'
<1>1. Top \in Anywhere /\ Shape(Now, stack) /\ Len(stack) > 0
  BY OnTop, OnAnywhere
<1>2. Takes(stack, type)
  BY <1>1, TakesOnTop, UnderEach
<1>3. Shape(m, stack)
  BY <1>1, FlushShape, TextSoFarShape
<1>4. QED
  BY <1>2, <1>3, OpensOnTop

(* The end of a section that has only its own text.                        *)
LEMMA FinishesWithText ==
  ASSUME StackInv, phase = "scan", Depth > 0, Top # "ROOT", NEW text,
         Become(Finished(WithText(Now, text))), UNCHANGED <<error, phase>>
  PROVE  StackInv'
<1>1. Nested(stack) /\ Shape(Now, stack) /\ Len(stack) > 0 /\ stack[Len(stack)] # "ROOT"
  BY Basics
<1>2. Len(stack) > 1
  BY <1>1, BelowTop
<1>3. Shape(WithText(Now, text), stack)
  BY <1>1, WithTextShape
<1>4. QED
  BY <1>2, <1>3, FinishesTop

LEMMA SpecialLinksKeep ==
  ASSUME StackInv
  PROVE  /\ CategoryLinkBegin => StackInv'
         /\ LanguageLinkBegin => StackInv'
         /\ LinkEndInCategory \/ LinkEndInLanguageLink => StackInv'
<1>1. ASSUME CategoryLinkBegin PROVE StackInv'
  <2>1. PICK tok : tok = {"[[Category:"} /\ On(tok)
    BY <1>1 DEF CategoryLinkBegin
  <2>2. PICK m \in {Now, FlushText(Now)} : Become(Open(m, "CATEGORY_LINK", "category"))
    BY <1>1 DEF CategoryLinkBegin, OpenSpecial
  <2>3. tok \subseteq TakenAnywhere /\ UNCHANGED <<error, phase>>
    BY <1>1, <2>1, TakenTokens DEF CategoryLinkBegin, rest
  <2>4. QED
    BY <2>1, <2>2, <2>3, OpensAnywhere
<1>2. ASSUME LanguageLinkBegin PROVE StackInv'
  <2>1. PICK tok : tok = {"[[de:"} /\ On(tok)
    BY <1>2 DEF LanguageLinkBegin
  <2>2. PICK o, h : o = OpenSpecial("LANGUAGE_LINK", "language_link") /\ Become([o EXCEPT !.heap = h])
    BY <1>2, Zenon DEF LanguageLinkBegin
  <2>3. PICK m \in {Now, FlushText(Now)} : o = Open(m, "LANGUAGE_LINK", "language_link")
    BY <2>2 DEF OpenSpecial
  <2>4. tok \subseteq TakenAnywhere /\ UNCHANGED <<error, phase>>
    BY <1>2, <2>1, TakenTokens DEF LanguageLinkBegin, rest
  <2>5. Takes(stack, "LANGUAGE_LINK") /\ Shape(m, stack)
    BY <2>1, <2>3, <2>4, OpensAnywhere
  <2>6. Shape(o, Append(stack, "LANGUAGE_LINK"))
    BY <2>3, <2>5, OpenShape
  <2>7. Shape([o EXCEPT !.heap = h], Append(stack, "LANGUAGE_LINK"))
    BY <2>6, HeapShape
  <2>8. phase = "scan" /\ Nested(stack)
    BY <2>1, OnTop
  <2>9. Len(Append(stack, "LANGUAGE_LINK")) > 0
    BY <2>5, <2>8 DEF Nested, Takes
  <2>10. QED
    BY <2>2, <2>4, <2>7, <2>8, <2>9, OnlyContexts
<1>3. ASSUME LinkEndInCategory \/ LinkEndInLanguageLink PROVE StackInv'
  <2>1. PICK tok : tok = {"]]"} /\ On(tok)
    BY <1>3 DEF LinkEndInCategory, LinkEndInLanguageLink
  <2>2. phase = "scan" /\ Depth > 0
    BY <2>1, OnTop
  <2>3. Top # "ROOT" /\ Become(Finished(WithText(Now, Str(F.start, pos)))) /\ UNCHANGED <<error, phase>>
    BY <1>3 DEF LinkEndInCategory, LinkEndInLanguageLink, CloseSpecial, rest
  <2>4. QED
    BY <2>2, <2>3, FinishesWithText
<1>4. QED
  BY <1>1, <1>2, <1>3

-----------------------------------------------------------------------------
(* Templates, images and their parameters.                                 *)

LEMMA CloseParameterShape ==
  ASSUME StackInv, Depth > 0, Top = "PARAMETER"
  PROVE  /\ Shape(CloseParameter, Below(stack, 1))
         /\ Len(Below(stack, 1)) = Depth - 1 /\ Depth > 1
         /\ Takes(Below(stack, 1), "PARAMETER")
<1>1. /\ Nested(stack) /\ Shape(Now, stack) /\ Len(stack) = Depth /\ Depth \in Nat
      /\ stack[Depth] = "PARAMETER"
  BY Basics
<1>2. Depth > 1 /\ stack[Depth - 1] \in Under("PARAMETER")
  BY <1>1, BelowTop
<1>3. 1 \in 0 .. Len(stack) /\ Len(stack) - 1 > 0
  BY <1>1, <1>2
<1>4. Shape(Pop(TextSoFar(Now), 1), Below(stack, 1)) /\ Len(Below(stack, 1)) = Depth - 1
  BY <1>1, <1>3, TextSoFarShape, PopShape
<1>5. Len(Below(stack, 1)) > 0
  BY <1>1, <1>2, <1>4
<1>6. PICK m : m = CountParameter(Pop(TextSoFar(Now), 1))
  OBVIOUS
<1>7. Shape(m, Below(stack, 1))
  BY <1>4, <1>5, <1>6, SetTopShape DEF CountParameter
<1>8. PICK h : CloseParameter = [m EXCEPT !.heap = h]
  BY <1>6, Zenon DEF CloseParameter
<1>9. Takes(Below(stack, 1), "PARAMETER")
  BY <1>1, <1>2, <1>3, TakesBelow, UnderEach
<1>10. QED
  BY <1>2, <1>4, <1>7, <1>8, <1>9, HeapShape

LEMMA CloseValueShape ==
  ASSUME StackInv, Depth > 0, Top = "VALUE"
  PROVE  /\ Shape(CloseValue, Below(stack, 2))
         /\ Len(Below(stack, 2)) = Depth - 2 /\ Depth > 2
         /\ Takes(Below(stack, 2), "PARAMETER")
<1>1. /\ Nested(stack) /\ Shape(Now, stack) /\ Len(stack) = Depth /\ Depth \in Nat
      /\ stack[Depth] = "VALUE"
  BY Basics
<1>2. Depth > 2 /\ stack[Depth - 2] \in Under("PARAMETER")
  BY <1>1, BelowTop, UnderEach
<1>3. 2 \in 0 .. Len(stack) /\ Len(stack) - 2 > 0
  BY <1>1, <1>2
<1>4. Shape(CloseValue, Below(stack, 2)) /\ Len(Below(stack, 2)) = Depth - 2
  BY <1>1, <1>3, TextSoFarShape, PopShape DEF CloseValue
<1>5. Takes(Below(stack, 2), "PARAMETER")
  BY <1>1, <1>2, <1>3, TakesBelow, UnderEach
<1>6. QED
  BY <1>2, <1>4, <1>5

(* The next parameter is put on a template or an image.                    *)
LEMMA NextParameterKeeps ==
  ASSUME StackInv, phase = "scan", NEW m, NEW s, Shape(m, s), Takes(s, "PARAMETER"),
         Become(NextParameter(m)), UNCHANGED <<error, phase>>
  PROVE  StackInv'
<1>1. Shape(NextParameter(m), Append(s, "PARAMETER"))
  BY NextParameterShape
<1>2. Len(Append(s, "PARAMETER")) > 0
  BY DEF Shape, Nested, Takes
<1>3. QED
  BY <1>1, <1>2, OnlyContexts

LEMMA TemplatesOpen ==
  ASSUME StackInv
  PROVE  /\ ImageBegin => StackInv'
         /\ TemplateBegin => StackInv'
         /\ SeparatorInTemplate \/ SeparatorInImage => StackInv'
         /\ EqualsInParameter => StackInv'
<1>1. ASSUME ImageBegin PROVE StackInv'
  <2>1. PICK tok : tok = {"[[Image:"} /\ On(tok)
    BY <1>1 DEF ImageBegin
  <2>2. PICK m \in {Now, Flush(Now)} : Become(Open(m, "IMAGE", "image"))
    BY <1>1 DEF ImageBegin
  <2>3. tok \subseteq TakenAnywhere /\ UNCHANGED <<error, phase>>
    BY <1>1, <2>1, TakenTokens DEF ImageBegin, rest
  <2>4. QED
    BY <2>1, <2>2, <2>3, OpensAnywhere
<1>2. ASSUME TemplateBegin PROVE StackInv'
  <2>1. PICK tok : tok = {"{{"} /\ On(tok)
    BY <1>2 DEF TemplateBegin
  <2>2. Top \in TemplateBeginIn /\ Shape(Flush(Now), stack)
    <3>1. Tok \in {"{{"} /\ Top \in HandledIn(Tok) /\ Shape(Now, stack) /\ Len(stack) > 0
      BY <2>1, OnTop
    <3>2. HandledIn(Tok) = TemplateBeginIn
      BY <3>1, TokensHandled
    <3>3. QED
      BY <3>1, <3>2, FlushShape
  <2>3. Takes(stack, "TEMPLATE")
    BY <2>1, <2>2, TakesOnTop, UnderEach DEF TemplateBeginIn
  <2>4. Become(Open(Flush(Now), "TEMPLATE", "template")) /\ UNCHANGED <<error, phase>>
    BY <1>2 DEF TemplateBegin, rest
  <2>5. QED
    BY <2>1, <2>2, <2>3, <2>4, OpensOnTop
<1>3. ASSUME SeparatorInTemplate \/ SeparatorInImage PROVE StackInv'
  <2>1. PICK tok : tok = {"|"} /\ On(tok)
    BY <1>3 DEF SeparatorInTemplate, SeparatorInImage
  <2>2. phase = "scan" /\ Shape(SetTop(Now, "stop", pos), stack)
    BY <2>1, OnTop, SetTopShape
  <2>3. PICK text : Become(NextParameter(WithText(SetTop(Now, "stop", pos), text)))
    BY <1>3 DEF SeparatorInTemplate, SeparatorInImage
  <2>4. Shape(WithText(SetTop(Now, "stop", pos), text), stack)
    BY <2>2, WithTextShape
  <2>5. Takes(stack, "PARAMETER")
    BY <1>3, <2>1, TakesOnTop, UnderEach DEF SeparatorInTemplate, SeparatorInImage
  <2>6. UNCHANGED <<error, phase>>
    BY <1>3 DEF SeparatorInTemplate, SeparatorInImage, rest
  <2>7. QED
    BY <2>2, <2>3, <2>4, <2>5, <2>6, NextParameterKeeps
<1>4. ASSUME EqualsInParameter PROVE StackInv'
  <2> DEFINE m == WithText(SetTop(Now, "stop", pos), Strip(Str(F.start, pos)))
  <2>1. PICK tok : tok = {"="} /\ On(tok)
    BY <1>4 DEF EqualsInParameter
  <2>2. phase = "scan" /\ Nested(stack) /\ Shape(SetTop(Now, "stop", pos), stack)
    BY <2>1, OnTop, SetTopShape
  <2>3. Shape(m, stack)
    BY <2>2, WithTextShape
  <2>4. Takes(stack, "VALUE")
    BY <1>4, <2>1, TakesOnTop, UnderEach DEF EqualsInParameter
  <2>5. Shape(Push(m, "VALUE", None, F.section), Append(stack, "VALUE"))
    BY <2>3, <2>4, PushShape
  <2>6. Len(Append(stack, "VALUE")) > 0
    BY <2>2, <2>4 DEF Nested, Takes
  <2>7. QED
    BY <1>4, <2>2, <2>5, <2>6, OnlyContexts DEF EqualsInParameter, rest
<1>5. QED
  BY <1>1, <1>2, <1>3, <1>4

LEMMA ParametersEnd ==
  ASSUME StackInv
  PROVE  /\ SeparatorInParameter \/ SeparatorInValue => StackInv'
         /\ TemplateEndInParameter \/ LinkEndInParameter => StackInv'
         /\ TemplateEndInValue \/ LinkEndInValue => StackInv'
         /\ TemplateEndInImageValue => StackInv'
<1>1. ASSUME SeparatorInParameter \/ SeparatorInValue PROVE StackInv'
  <2>1. PICK tok : tok = {"|"} /\ On(tok)
    BY <1>1 DEF SeparatorInParameter, SeparatorInValue
  <2>2. phase = "scan" /\ Depth > 0
    BY <2>1, OnTop
  <2>3. PICK m, s : Shape(m, s) /\ Takes(s, "PARAMETER") /\ Become(NextParameter(m))
    <3>1. CASE SeparatorInParameter
      BY <2>2, <3>1, CloseParameterShape DEF SeparatorInParameter
    <3>2. CASE SeparatorInValue
      BY <2>2, <3>2, CloseValueShape DEF SeparatorInValue
    <3>3. QED
      BY <1>1, <3>1, <3>2
  <2>4. UNCHANGED <<error, phase>>
    BY <1>1 DEF SeparatorInParameter, SeparatorInValue, rest
  <2>5. QED
    BY <2>2, <2>3, <2>4, NextParameterKeeps
<1>2. ASSUME TemplateEndInParameter \/ LinkEndInParameter PROVE StackInv'
  <2>1. PICK tok : On(tok)
    BY <1>2 DEF TemplateEndInParameter, LinkEndInParameter
  <2>2. phase = "scan" /\ Depth > 0 /\ Depth \in Nat
    BY <2>1, OnTop
  <2>3. Top = "PARAMETER" /\ Become(Finished(CloseParameter)) /\ UNCHANGED <<error, phase>>
    BY <1>2 DEF TemplateEndInParameter, LinkEndInParameter, rest
  <2>4. Shape(CloseParameter, Below(stack, 1)) /\ Len(Below(stack, 1)) = Depth - 1
    BY <2>2, <2>3, CloseParameterShape
  <2>5. Depth - 1 > 1
    <3>1. Nested(stack) /\ Len(stack) = Depth /\ stack[Depth] = Top
      BY Basics
    <3>2. stack[Depth - 1] # "ROOT" /\ Depth - 1 > 0
      BY <2>2, <2>3, <3>1, BelowTop, UnderEach
    <3>3. stack[1] = "ROOT"
      BY <2>2, <3>1 DEF Nested
    <3>4. QED
      BY <2>2, <3>2, <3>3
  <2>6. QED
    BY <2>2, <2>3, <2>4, <2>5, FinishesTop
<1>3. ASSUME TemplateEndInValue \/ LinkEndInValue PROVE StackInv'
  <2>1. PICK tok : On(tok)
    BY <1>3 DEF TemplateEndInValue, LinkEndInValue
  <2>2. phase = "scan" /\ Depth > 0 /\ Depth \in Nat
    BY <2>1, OnTop
  <2>3. Top = "VALUE" /\ Become(Finished(CloseValue)) /\ UNCHANGED <<error, phase>>
    BY <1>3 DEF TemplateEndInValue, LinkEndInValue, rest
  <2>4. Shape(CloseValue, Below(stack, 2)) /\ Len(Below(stack, 2)) = Depth - 2
    BY <2>2, <2>3, CloseValueShape
  <2>5. Depth - 2 > 1
    <3>1. Nested(stack) /\ Len(stack) = Depth /\ stack[Depth] = Top
      BY Basics
    <3>2. stack[Depth - 2] # "ROOT" /\ Depth - 2 > 0
      BY <2>2, <2>3, <3>1, BelowTop
    <3>3. stack[1] = "ROOT"
      BY <2>2, <3>1 DEF Nested
    <3>4. QED
      BY <2>2, <3>2, <3>3
  <2>6. QED
    BY <2>2, <2>3, <2>4, <2>5, FinishesTop
<1>4. ASSUME TemplateEndInImageValue PROVE StackInv'
  <2>1. PICK tok : On(tok)
    BY <1>4 DEF TemplateEndInImageValue
  <2>2. phase = "scan" /\ Depth > 0 /\ Top = "VALUE"
    BY <1>4, <2>1, OnTop DEF TemplateEndInImageValue
  <2>3. Shape(CloseValue, Below(stack, 2))
    BY <2>2, CloseValueShape
  <2>4. Become(CloseValue)
    BY <1>4 DEF TemplateEndInImageValue
  <2>5. Shape(Now, stack)'
    BY <2>3, <2>4, BecomeKeeps
  <2>6. /\ error' = "Parent is not a TEMPLATE inside of parse_template_end_in_value"
        /\ phase' = "cleanup"
    BY <1>4 DEF TemplateEndInImageValue, SetError
  <2>7. QED
    BY <2>5, <2>6 DEF StackInv
<1>5. QED
  BY <1>1, <1>2, <1>3, <1>4

LEMMA TemplatesEnd ==
  ASSUME StackInv
  PROVE  TemplateEndInTemplate \/ LinkEndInImage => StackInv'
<1>1. ASSUME TemplateEndInTemplate PROVE StackInv'
  <2>1. PICK tok : On(tok)
    BY <1>1 DEF TemplateEndInTemplate
  <2>2. phase = "scan" /\ Depth > 0
    BY <2>1, OnTop
  <2>3. Top # "ROOT" /\ Become(Finished(WithText(Now, Str(F.tok + 1, pos)))) /\ UNCHANGED <<error, phase>>
    BY <1>1 DEF TemplateEndInTemplate, rest
  <2>4. QED
    BY <2>2, <2>3, FinishesWithText
<1>2. ASSUME LinkEndInImage PROVE StackInv'
  <2>1. PICK tok : On(tok)
    BY <1>2 DEF LinkEndInImage
  <2>2. phase = "scan" /\ Shape(Now, stack) /\ Len(stack) > 1
    BY <1>2, <2>1, OnTop, BelowTop DEF LinkEndInImage
  <2>3. PICK m \in {Now, WithText(Now, Str(F.start, pos))} : Become(Finished(m))
    BY <1>2 DEF LinkEndInImage
  <2>4. Shape(m, stack)
    BY <2>2, <2>3, WithTextShape
  <2>5. QED
    BY <1>2, <2>2, <2>3, <2>4, FinishesTop DEF LinkEndInImage, rest
<1>3. QED
  BY <1>1, <1>2
-----------------------------------------------------------------------------
(* Text that is not parsed, references, external links and headings.       *)

LEMMA RawBegins ==
  ASSUME StackInv
  PROVE  /\ NowikiBegin => StackInv'
         /\ PreBegin \/ MathBegin \/ SourceBegin \/ GalleryBegin => StackInv'
<1>1. ASSUME NowikiBegin PROVE StackInv'
  <2> DEFINE a == Append(stack, "EXTERNAL_LINK_VALUE")
  <2>1. PICK tok : tok = {"<nowiki>"} /\ On(tok)
    BY <1>1 DEF NowikiBegin
  <2>2. phase = "scan" /\ Depth \in Nat /\ Len(stack) > 0 /\ Shape(Now, stack) /\ Top \in Anywhere
    BY <2>1, OnTop, OnAnywhere, TakenTokens
  <2>3. UNCHANGED <<error, phase>>
    BY <1>1 DEF NowikiBegin, rest
  <2>4. CASE Top = "EXTERNAL_LINK"
    <3>1. Shape(AddressEnds, a) /\ Len(a) = Depth + 1 /\ a[Depth + 1] = "EXTERNAL_LINK_VALUE"
      BY <2>1, <2>4, AddressEndsShape
    <3>2. "EXTERNAL_LINK_VALUE" \in Under("NOWIKI")
      BY UnderEach DEF Anywhere, Context, Raw
    <3>3. Takes(a, "NOWIKI")
      BY <2>2, <3>1, <3>2, UnderEach DEF Takes
    <3>4. Shape(Open(AddressEnds, "NOWIKI", "text"), Append(a, "NOWIKI"))
      BY <3>1, <3>3, OpenShape
    <3>5. Len(Append(a, "NOWIKI")) > 0
      BY <3>1, <3>3 DEF Shape, Nested, Takes
    <3>6. Become(Open(AddressEnds, "NOWIKI", "text"))
      BY <1>1, <2>4 DEF NowikiBegin
    <3>7. QED
      BY <2>2, <2>3, <3>4, <3>5, <3>6, OnlyContexts
  <2>5. CASE Top # "EXTERNAL_LINK"
    <3>1. Takes(stack, "NOWIKI")
      BY <2>1, <2>2, <2>5, TakesOnTop, UnderEach
    <3>2. Become(Open(FlushText(Now), "NOWIKI", "text"))
      BY <1>1, <2>5 DEF NowikiBegin
    <3>3. Shape(FlushText(Now), stack)
      BY <2>2, FlushShape
    <3>4. QED
      BY <2>1, <2>3, <3>1, <3>2, <3>3, OpensOnTop
  <2>6. QED
    BY <2>4, <2>5
<1>2. ASSUME PreBegin \/ MathBegin \/ SourceBegin \/ GalleryBegin PROVE StackInv'
  <2>1. PICK tok, type, section : /\ tok \in TakenAnywhere /\ On({tok})
                                 /\ type \in {"PRE", "MATH", "SOURCE", "GALLERY"}
                                 /\ OpenRaw(type, section)
    BY <1>2, TakenTokens DEF PreBegin, MathBegin, SourceBegin, GalleryBegin
  <2>2. PICK toks : toks = {tok} /\ On(toks) /\ toks \subseteq TakenAnywhere
    BY <2>1
  <2>3. Become(Open(Flush(Now), type, section)) /\ UNCHANGED <<error, phase>>
    BY <2>1 DEF OpenRaw, rest
  <2>4. QED
    BY <2>1, <2>2, <2>3, OpensAnywhere
<1>3. QED
  BY <1>1, <1>2

LEMMA RawEnds ==
  ASSUME StackInv
  PROVE  /\ NowikiEnd => StackInv'
         /\ PreEnd \/ MathEnd \/ SourceEnd \/ GalleryEnd => StackInv'
         /\ SourceEndElsewhere => StackInv'
<1>1. ASSUME NEW tok, NEW type \in Raw, OnRaw(tok, type)
      PROVE  phase = "scan" /\ Depth > 0 /\ Top # "ROOT"
  <2>1. phase = "scan" /\ Top \in Raw
    BY <1>1 DEF OnRaw, Scanning
  <2>2. QED
    BY <2>1 DEF StackInv, Raw
<1>2. ASSUME NEW tok, NEW type \in Raw, OnRaw(tok, type), CloseRaw
      PROVE  StackInv'
  <2>1. Become(Finished(WithText(Now, Str(F.start, pos)))) /\ UNCHANGED <<error, phase>>
    BY <1>2 DEF CloseRaw, rest
  <2>2. QED
    BY <1>1, <1>2, <2>1, FinishesWithText
<1>3. ASSUME NowikiEnd PROVE StackInv'
  <2>1. PICK tok, type : type \in Raw /\ OnRaw(tok, type)
    BY <1>3 DEF NowikiEnd, Raw
  <2>2. CASE CloseRaw
    BY <1>2, <2>1, <2>2
  <2>3. CASE Become(Resume(Pop(Now, 1))) /\ UNCHANGED rest
    <3>1. phase = "scan" /\ Depth > 0 /\ Top # "ROOT"
      BY <1>1, <2>1
    <3>2. Shape(Now, stack) /\ Len(stack) \in Nat /\ Len(stack) > 1
      BY <3>1, Basics, BelowTop
    <3>3. 1 \in 0 .. Len(stack) /\ Len(stack) - 1 > 0
      BY <3>2
    <3>4. Shape(Pop(Now, 1), Below(stack, 1)) /\ Len(Below(stack, 1)) > 0
      BY <3>2, <3>3, PopShape
    <3>5. Shape(Resume(Pop(Now, 1)), Below(stack, 1))
      BY <3>4, ResumeShape
    <3>6. QED
      BY <2>3, <3>1, <3>4, <3>5, OnlyContexts DEF rest
  <2>4. QED
    BY <1>3, <2>2, <2>3 DEF NowikiEnd
<1>4. ASSUME PreEnd \/ MathEnd \/ SourceEnd \/ GalleryEnd PROVE StackInv'
  <2>1. PICK tok, type : type \in Raw /\ OnRaw(tok, type) /\ CloseRaw
    BY <1>4 DEF PreEnd, MathEnd, SourceEnd, GalleryEnd, Raw
  <2>2. QED
    BY <1>2, <2>1
<1>5. ASSUME SourceEndElsewhere PROVE StackInv'
  <2>1. /\ UNCHANGED <<stack, frames, heap>> /\ phase' = "cleanup"
        /\ error' = "NULL context inside of parse_source_end"
    BY <1>5 DEF SourceEndElsewhere, SetError
  <2>2. QED
    BY <2>1, SameContexts
<1>6. QED
  BY <1>3, <1>4, <1>5

LEMMA ReferencesKeep ==
  ASSUME StackInv
  PROVE  /\ Ref => StackInv'
         /\ RefBegin => StackInv'
         /\ RefEnd => StackInv'
<1>1. ASSUME Ref PROVE StackInv'
  <2>1. PICK tok : On(tok)
    BY <1>1 DEF Ref
  <2>2. phase = "scan" /\ Len(stack) > 0 /\ Shape(Flush(Now), stack)
    BY <2>1, OnTop, FlushShape
  <2>3. PICK m, h, sec : m = Flush(Now) /\ Become(Resume(AppendTo([m EXCEPT !.heap = h], sec)))
    BY <1>1, Zenon DEF Ref
  <2>4. Shape([m EXCEPT !.heap = h], stack)
    BY <2>2, <2>3, HeapShape
  <2>5. Shape(AppendTo([m EXCEPT !.heap = h], sec), stack)
    BY <2>4, AppendToShape
  <2>6. Shape(Resume(AppendTo([m EXCEPT !.heap = h], sec)), stack)
    BY <2>2, <2>5, ResumeShape
  <2>7. UNCHANGED <<error, phase>>
    BY <1>1 DEF Ref, rest
  <2>8. QED
    BY <2>2, <2>3, <2>6, <2>7, OnlyContexts
<1>2. ASSUME RefBegin PROVE StackInv'
  <2>1. PICK tok : tok = {"<ref>"} /\ On(tok)
    BY <1>2 DEF RefBegin
  <2>2. tok \subseteq TakenAnywhere /\ UNCHANGED <<error, phase>>
    BY <1>2, <2>1, TakenTokens DEF RefBegin, rest
  <2>3. Become(Open(Flush(Now), "REF", "ref"))
    BY <1>2 DEF RefBegin
  <2>4. QED
    BY <2>1, <2>2, <2>3, OpensAnywhere
<1>3. ASSUME RefEnd PROVE StackInv'
  <2>1. PICK tok : tok = {"</ref>"} /\ On(tok)
    BY <1>3 DEF RefEnd
  <2>2. Tok \in tok /\ Top \in HandledIn(Tok)
    BY <2>1, OnTop
  <2>3. Top = "REF"
    BY <2>1, <2>2, TokensHandled
  <2>4. phase = "scan" /\ Depth > 0 /\ Shape(Now, stack) /\ Len(stack) > 1
    BY <2>1, <2>3, OnTop, BelowTop
  <2>5. CASE phase' = "crashed" /\ UNCHANGED <<stack, frames, heap>>
    BY <1>3, <2>4, <2>5, SameContexts DEF RefEnd
  <2>6. CASE ~(phase' = "crashed" /\ UNCHANGED <<stack, frames, heap>>)
    <3>1. PICK h : Become(Finished([Now EXCEPT !.heap = h])) /\ phase' = phase /\ error' = error
      BY <1>3, <2>6, Zenon DEF RefEnd
    <3>2. Shape([Now EXCEPT !.heap = h], stack)
      BY <2>4, HeapShape
    <3>3. QED
      BY <2>4, <3>1, <3>2, FinishesTop
  <2>7. QED
    BY <2>5, <2>6
<1>4. QED
  BY <1>1, <1>2, <1>3

LEMMA ExternalLinksKeep ==
  ASSUME StackInv
  PROVE  /\ ExternalLinkBegin => StackInv'
         /\ SpaceInExternalLink => StackInv'
         /\ ExternalLinkEndInExternalLink => StackInv'
         /\ ExternalLinkEndInValue => StackInv'
<1>1. ASSUME ExternalLinkBegin PROVE StackInv'
  <2>1. PICK tok : tok = {"[http://"} /\ On(tok)
    BY <1>1 DEF ExternalLinkBegin
  <2>2. tok \subseteq TakenAnywhere /\ UNCHANGED <<error, phase>>
    BY <1>1, <2>1, TakenTokens DEF ExternalLinkBegin, rest
  <2>3. Become(Open(Flush(Now), "EXTERNAL_LINK", "external_link"))
    BY <1>1 DEF ExternalLinkBegin
  <2>4. QED
    BY <2>1, <2>2, <2>3, OpensAnywhere
<1>2. ASSUME SpaceInExternalLink PROVE StackInv'
  <2>1. PICK tok : tok = {" "} /\ On(tok)
    BY <1>2 DEF SpaceInExternalLink
  <2>2. Tok \in tok /\ Top \in HandledIn(Tok) /\ phase = "scan" /\ Depth \in Nat
    BY <2>1, OnTop
  <2>3. Top = "EXTERNAL_LINK"
    BY <2>1, <2>2, TokensHandled DEF SpaceIn
  <2>4. /\ Shape(AddressEnds, Append(stack, "EXTERNAL_LINK_VALUE"))
        /\ Len(Append(stack, "EXTERNAL_LINK_VALUE")) > 0
    <3>1. /\ Shape(AddressEnds, Append(stack, "EXTERNAL_LINK_VALUE"))
          /\ Len(Append(stack, "EXTERNAL_LINK_VALUE")) = Depth + 1
      BY <2>1, <2>3, AddressEndsShape
    <3>2. QED
      BY <2>2, <3>1
  <2>5. Become(AddressEnds) /\ UNCHANGED <<error, phase>>
    BY <1>2 DEF SpaceInExternalLink, rest
  <2>6. QED
    BY <2>2, <2>4, <2>5, OnlyContexts
<1>3. ASSUME ExternalLinkEndInExternalLink PROVE StackInv'
  <2>1. PICK tok : On(tok)
    BY <1>3 DEF ExternalLinkEndInExternalLink
  <2>2. /\ Top # "ROOT" /\ Become(Finished(WithText(Now, GenerateHref)))
        /\ UNCHANGED <<error, phase>>
    BY <1>3 DEF ExternalLinkEndInExternalLink, rest
  <2>3. QED
    BY <2>1, <2>2, OnTop, FinishesWithText
<1>4. ASSUME ExternalLinkEndInValue PROVE StackInv'
  <2>1. PICK tok : On(tok)
    BY <1>4 DEF ExternalLinkEndInValue
  <2>2. /\ phase = "scan" /\ Nested(stack) /\ Shape(TextSoFar(Now), stack)
        /\ Len(stack) = Depth /\ Depth \in Nat
    BY <2>1, OnTop, TextSoFarShape
  <2>3. Depth > 1 /\ stack[Depth - 1] = "EXTERNAL_LINK"
    BY <1>4, <2>1, <2>2, OnTop, BelowTop, UnderEach DEF ExternalLinkEndInValue
  <2>4. stack[1] = "ROOT"
    BY <2>2, <2>3 DEF Nested
  <2>5. Depth - 1 > 1 /\ 1 \in 0 .. Len(stack)
    BY <2>2, <2>3, <2>4
  <2>6. Shape(Pop(TextSoFar(Now), 1), Below(stack, 1)) /\ Len(Below(stack, 1)) > 1
    BY <2>2, <2>5, PopShape
  <2>7. Become(Finished(Pop(TextSoFar(Now), 1))) /\ UNCHANGED <<error, phase>>
    BY <1>4 DEF ExternalLinkEndInValue, rest
  <2>8. QED
    BY <2>2, <2>6, <2>7, FinishesTop
<1>5. QED
  BY <1>1, <1>2, <1>3, <1>4

LEMMA HeadingsKeep ==
  ASSUME StackInv
  PROVE  Heading \/ Formatting => StackInv'
<1>1. ASSUME Heading PROVE StackInv'
  <2>1. PICK tok : tok = HeadingMark /\ On(tok)
    BY <1>1 DEF Heading
  <2>2. phase = "scan" /\ Shape(TextSoFar(Now), stack)
    BY <2>1, OnTop, TextSoFarShape
  <2>3. tok \subseteq TakenAnywhere /\ UNCHANGED <<error, phase>>
    BY <1>1, <2>1, TakenTokens DEF Heading, rest
  <2>4. CASE Top = "HEADING"
    <3>1. Len(stack) > 1
      BY <2>1, <2>4, OnTop, BelowTop
    <3>2. Become(Finished(TextSoFar(Now)))
      BY <1>1, <2>4 DEF Heading
    <3>3. QED
      BY <2>2, <2>3, <3>1, <3>2, FinishesTop
  <2>5. CASE Top # "HEADING"
    <3>1. Become(Open(TextSoFar(Now), "HEADING", "heading"))
      BY <1>1, <2>5 DEF Heading
    <3>2. QED
      BY <2>1, <2>3, <3>1, OpensAnywhere
  <2>6. QED
    BY <2>4, <2>5
<1>2. ASSUME Formatting PROVE StackInv'
  <2>1. PICK tok : On(tok)
    BY <1>2 DEF Formatting
  <2>2. phase = "scan" /\ Shape(Now, stack) /\ Shape(TextSoFar(Now), stack) /\ Len(stack) > 0
    BY <2>1, OnTop, TextSoFarShape
  <2>3. PICK m \in {Now, TextSoFar(Now)} : Become(Resume(m))
    BY <1>2 DEF Formatting
  <2>4. Shape(Resume(m), stack)
    BY <2>2, <2>3, ResumeShape
  <2>5. UNCHANGED <<error, phase>>
    BY <1>2 DEF Formatting, rest
  <2>6. QED
    BY <2>2, <2>3, <2>4, <2>5, OnlyContexts
<1>3. QED
  BY <1>1, <1>2
-----------------------------------------------------------------------------
(* Tables.                                                                 *)

LEMMA FirstLineShape ==
  ASSUME StackInv, Depth > 0
  PROVE  Shape(FirstLine, stack)
<1>1. Shape(Now, stack) /\ Len(stack) > 0
  BY Basics
<1>2. Shape(WithText(Now, Strip(Str(F.start, pos))), stack)
  BY <1>1, WithTextShape
<1>3. Shape(SetTop(WithText(Now, Strip(Str(F.start, pos))), "newline", TRUE), stack)
  BY <1>1, <1>2, SetTopShape
<1>4. QED
  BY <1>1, <1>3 DEF FirstLine

LEMMA TablesBegin ==
  ASSUME StackInv
  PROVE  /\ TableBegin => StackInv'
         /\ NewlineInTable \/ NewlineInTableRow => StackInv'
         /\ TableCaptionBegin => StackInv'
         /\ SeparatorInTableCaption => StackInv'
         /\ TableRowBeginInTable => StackInv'
<1>1. ASSUME TableBegin PROVE StackInv'
  <2>1. PICK tok : tok = {"{|"} /\ On(tok)
    BY <1>1 DEF TableBegin
  <2>2. tok \subseteq TakenAnywhere /\ UNCHANGED <<error, phase>>
    BY <1>1, <2>1, TakenTokens DEF TableBegin, rest
  <2>3. Become(Open(Flush(Now), "TABLE", "table"))
    BY <1>1 DEF TableBegin
  <2>4. QED
    BY <2>1, <2>2, <2>3, OpensAnywhere
<1>2. ASSUME NewlineInTable \/ NewlineInTableRow PROVE StackInv'
  <2>1. PICK tok : On(tok)
    BY <1>2 DEF NewlineInTable, NewlineInTableRow
  <2>2. phase = "scan" /\ Depth > 0 /\ Len(stack) > 0 /\ Shape(Now, stack)
    BY <2>1, OnTop
  <2>3. PICK m \in {FirstLine, SetTop(Now, "newline", TRUE)} : Become(m)
    BY <1>2 DEF NewlineInTable, NewlineInTableRow
  <2>4. Shape(m, stack)
    BY <2>2, <2>3, FirstLineShape, SetTopShape
  <2>5. UNCHANGED <<error, phase>>
    BY <1>2 DEF NewlineInTable, NewlineInTableRow, rest
  <2>6. QED
    BY <2>2, <2>3, <2>4, <2>5, OnlyContexts
<1>3. ASSUME TableCaptionBegin PROVE StackInv'
  <2>1. PICK tok : tok = {"|+"} /\ On(tok)
    BY <1>3 DEF TableCaptionBegin
  <2>2. Tok \in tok /\ Top \in HandledIn(Tok) /\ Shape(Now, stack)
    BY <2>1, OnTop
  <2>3. Top = "TABLE"
    BY <2>1, <2>2, TokensHandled
  <2>4. Takes(stack, "TABLE_CAPTION")
    BY <2>1, <2>3, TakesOnTop, UnderEach
  <2>5. Become(Open(Now, "TABLE_CAPTION", "table_caption")) /\ UNCHANGED <<error, phase>>
    BY <1>3 DEF TableCaptionBegin, rest
  <2>6. QED
    BY <2>1, <2>2, <2>4, <2>5, OpensOnTop
<1>4. ASSUME SeparatorInTableCaption PROVE StackInv'
  <2>1. PICK tok : On(tok)
    BY <1>4 DEF SeparatorInTableCaption
  <2>2. phase = "scan" /\ Len(stack) > 0 /\ Shape(WithText(Now, Str(F.start, pos)), stack)
    BY <2>1, OnTop, WithTextShape
  <2>3. Shape(Resume(WithText(Now, Str(F.start, pos))), stack)
    BY <2>2, ResumeShape
  <2>4. Become(Resume(WithText(Now, Str(F.start, pos)))) /\ UNCHANGED <<error, phase>>
    BY <1>4 DEF SeparatorInTableCaption, rest
  <2>5. QED
    BY <2>2, <2>3, <2>4, OnlyContexts
<1>5. ASSUME TableRowBeginInTable PROVE StackInv'
  <2>1. PICK tok : On(tok)
    BY <1>5 DEF TableRowBeginInTable
  <2>2. Top = "TABLE" /\ Become(Open(FirstLine, "TABLE_ROW", "row")) /\ UNCHANGED <<error, phase>>
    BY <1>5 DEF TableRowBeginInTable, rest
  <2>3. Takes(stack, "TABLE_ROW")
    BY <2>1, <2>2, TakesOnTop, UnderEach
  <2>4. Shape(FirstLine, stack)
    BY <2>1, OnTop, FirstLineShape
  <2>5. QED
    BY <2>1, <2>2, <2>3, <2>4, OpensOnTop
<1>6. QED
  BY <1>1, <1>2, <1>3, <1>4, <1>5

(* A row or a cell is opened where others have been closed.                *)
LEMMA OpensBelow ==
  ASSUME StackInv, phase = "scan", NEW m, NEW s, Shape(m, s), NEW type, Takes(s, type), NEW section,
         Become(Open(m, type, section)), UNCHANGED <<error, phase>>
  PROVE  StackInv'
<1>1. Shape(Open(m, type, section), Append(s, type))
  BY OpenShape
<1>2. Len(Append(s, type)) > 0
  BY DEF Shape, Nested, Takes
<1>3. QED
  BY <1>1, <1>2, OnlyContexts

LEMMA CloseCellShape ==
  ASSUME StackInv, Depth > 0, Top = "TABLE_CELL"
  PROVE  /\ Shape(CloseCell, Below(stack, 1)) /\ Takes(Below(stack, 1), "TABLE_CELL")
         /\ Shape(CloseCellAndRow, Below(Below(stack, 1), 1))
         /\ Takes(Below(Below(stack, 1), 1), "TABLE_ROW")
         /\ Len(Below(Below(stack, 1), 1)) > 1
<1> DEFINE b == Below(stack, 1)
<1>1. /\ Nested(stack) /\ Shape(TextSoFar(Now), stack) /\ Len(stack) = Depth /\ Depth \in Nat
      /\ stack[Depth] = "TABLE_CELL"
  BY Basics, TextSoFarShape
<1>2. Depth > 2 /\ stack[Depth - 1] = "TABLE_ROW" /\ stack[Depth - 2] = "TABLE"
  BY <1>1, BelowTop
<1>3. stack[1] = "ROOT" /\ stack \in Seq(Context)
  BY <1>1, <1>2 DEF Nested
<1>4. 1 \in 0 .. Len(stack) /\ Depth - 1 > 1 /\ Depth - 2 > 1 /\ Len(stack) - 1 = Depth - 1
  BY <1>1, <1>2, <1>3
<1>5. Shape(CloseCell, b) /\ Len(b) = Depth - 1
  BY <1>1, <1>4, CloseIntoBelowShape DEF CloseCell
<1>6. Takes(b, "TABLE_CELL")
  BY <1>1, <1>2, <1>4, TakesBelow, UnderEach
<1>7. Shape(CloseCellAndRow, Below(b, 1)) /\ Len(Below(b, 1)) = Len(b) - 1
  <2>1. Len(b) > 0
    BY <1>4, <1>5
  <2>2. QED
    BY <1>5, <2>1, CloseIntoBelowShape DEF CloseCellAndRow
<1>8. Nested(b) /\ 1 \in 0 .. Len(b) /\ Len(b) - 1 > 1 /\ Len(b) - 1 = Depth - 2
  BY <1>1, <1>4, <1>5 DEF Shape
<1>9. b[Depth - 2] = "TABLE"
  <2>1. Depth - 2 \in 1 .. Len(stack) - 1
    BY <1>1, <1>4
  <2>2. b[Depth - 2] = stack[Depth - 2]
    BY <1>3, <1>4, <2>1, BelowIsPrefix
  <2>3. QED
    BY <1>2, <2>2
<1>10. Takes(Below(b, 1), "TABLE_ROW")
  <2>1. b[Len(b) - 1] \in Under("TABLE_ROW") /\ Len(b) - 1 > 0
    BY <1>4, <1>8, <1>9, UnderEach
  <2>2. QED
    BY <1>8, <2>1, TakesBelow, UnderEach
<1>11. QED
  BY <1>5, <1>6, <1>7, <1>8, <1>10

LEMMA FirstCellShape ==
  ASSUME StackInv, NEW tok, On(tok), Top = "TABLE_ROW"
  PROVE  /\ Shape(FirstCell, Append(stack, "TABLE_CELL"))
         /\ Len(Append(stack, "TABLE_CELL")) > 0
<1>1. Shape(WithText(Now, Strip(Str(F.start, pos))), stack) /\ Nested(stack)
  BY OnTop, WithTextShape
<1>2. Takes(stack, "TABLE_CELL")
  BY TakesOnTop, UnderEach
<1>3. QED
  BY <1>1, <1>2, OpenShape DEF FirstCell, Nested, Takes

LEMMA RowsAndCellsBegin ==
  ASSUME StackInv
  PROVE  /\ TableRowBeginInCaption => StackInv'
         /\ TableRowBeginInTableCell => StackInv'
         /\ SeparatorInTableRow => StackInv'
         /\ Exclamation => StackInv'
         /\ SeparatorInTableCell => StackInv'
<1>1. ASSUME TableRowBeginInCaption PROVE StackInv'
  <2>1. PICK tok : On(tok)
    BY <1>1 DEF TableRowBeginInCaption
  <2>2. /\ phase = "scan" /\ Nested(stack) /\ Len(stack) = Depth /\ Depth \in Nat
        /\ Shape(TextSoFar(Now), stack)
    BY <2>1, OnTop, TextSoFarShape
  <2>3. Depth > 1 /\ stack[Depth - 1] \in Under("TABLE_CAPTION")
    BY <1>1, <2>1, <2>2, OnTop, BelowTop DEF TableRowBeginInCaption
  <2>4. stack[Depth - 1] \in Under("TABLE_ROW") /\ 1 \in 0 .. Len(stack) /\ Len(stack) - 1 > 0
    BY <2>2, <2>3, UnderEach
  <2>5. Takes(Below(stack, 1), "TABLE_ROW")
    BY <2>2, <2>4, TakesBelow, UnderEach
  <2>6. PICK m, h : m = Pop(TextSoFar(Now), 1) /\ Become(Open([m EXCEPT !.heap = h], "TABLE_ROW", "row"))
    BY <1>1, Zenon DEF TableRowBeginInCaption
  <2>7. Shape(m, Below(stack, 1))
    BY <2>2, <2>4, <2>6, PopShape
  <2>8. Shape([m EXCEPT !.heap = h], Below(stack, 1))
    BY <2>7, HeapShape
  <2>9. UNCHANGED <<error, phase>>
    BY <1>1 DEF TableRowBeginInCaption, rest
  <2>10. QED
    BY <2>2, <2>5, <2>6, <2>8, <2>9, OpensBelow
<1>2. ASSUME TableRowBeginInTableCell PROVE StackInv'
  <2>1. PICK tok : On(tok)
    BY <1>2 DEF TableRowBeginInTableCell
  <2>2. /\ Top = "TABLE_CELL" /\ Become(Open(CloseCellAndRow, "TABLE_ROW", "row"))
        /\ UNCHANGED <<error, phase>>
    BY <1>2 DEF TableRowBeginInTableCell, rest
  <2>3. phase = "scan" /\ Depth > 0
    BY <2>1, OnTop
  <2>4. QED
    BY <2>2, <2>3, CloseCellShape, OpensBelow
<1>3. ASSUME SeparatorInTableRow PROVE StackInv'
  <2>1. PICK tok : On(tok)
    BY <1>3 DEF SeparatorInTableRow
  <2>2. phase = "scan" /\ Shape(Now, stack) /\ Len(stack) > 0
    BY <2>1, OnTop
  <2>3. PICK m \in {FirstCell, Now} : Become(m)
    BY <1>3 DEF SeparatorInTableRow
  <2>4. PICK s : Shape(m, s) /\ Len(s) > 0
    BY <1>3, <2>1, <2>2, <2>3, FirstCellShape DEF SeparatorInTableRow
  <2>5. UNCHANGED <<error, phase>>
    BY <1>3 DEF SeparatorInTableRow, rest
  <2>6. QED
    BY <2>2, <2>3, <2>4, <2>5, OnlyContexts
<1>4. ASSUME Exclamation PROVE StackInv'
  <2>1. PICK tok : tok = {"!"} /\ On(tok)
    BY <1>4 DEF Exclamation
  <2>2. /\ Tok \in tok /\ Top \in HandledIn(Tok) /\ phase = "scan" /\ Shape(Now, stack)
        /\ Len(stack) > 0
    BY <2>1, OnTop
  <2>3. Top = "TABLE_ROW"
    BY <2>1, <2>2, TokensHandled
  <2>4. PICK m, h : (m = [FirstCell EXCEPT !.heap = h] \/ m = Now) /\ Become(m)
    <3>1. CASE IsLeading
      <4>1. PICK h : Become([FirstCell EXCEPT !.heap = h])
        BY <1>4, <3>1, Zenon DEF Exclamation
      <4>2. QED
        BY <4>1
    <3>2. CASE ~IsLeading
      <4>1. Become(Now)
        BY <1>4, <3>2 DEF Exclamation
      <4>2. QED
        BY <4>1
    <3>3. QED
      BY <3>1, <3>2
  <2>5. /\ Shape([FirstCell EXCEPT !.heap = h], Append(stack, "TABLE_CELL"))
        /\ Len(Append(stack, "TABLE_CELL")) > 0
    BY <2>1, <2>3, FirstCellShape, HeapShape
  <2>6. PICK s : Shape(m, s) /\ Len(s) > 0
    BY <2>2, <2>4, <2>5
  <2>7. UNCHANGED <<error, phase>>
    BY <1>4 DEF Exclamation, rest
  <2>8. QED
    BY <2>2, <2>4, <2>6, <2>7, OnlyContexts
<1>5. ASSUME SeparatorInTableCell PROVE StackInv'
  <2> DEFINE m == WithText(Now, Strip(Str(F.start, pos)))
  <2>1. PICK tok : On(tok)
    BY <1>5 DEF SeparatorInTableCell
  <2>2. phase = "scan" /\ Depth > 0 /\ Len(stack) > 0 /\ Shape(m, stack)
    BY <2>1, OnTop, WithTextShape
  <2>3. Top = "TABLE_CELL" /\ UNCHANGED <<error, phase>>
    BY <1>5 DEF SeparatorInTableCell, rest
  <2>4. CASE IsLeading
    <3>1. Become(Open(CloseCell, "TABLE_CELL", "cell"))
      BY <1>5, <2>4 DEF SeparatorInTableCell
    <3>2. QED
      BY <2>2, <2>3, <3>1, CloseCellShape, OpensBelow
  <2>5. CASE ~IsLeading
    <3>1. Become(Resume(m))
      BY <1>5, <2>5 DEF SeparatorInTableCell
    <3>2. Shape(Resume(m), stack)
      BY <2>2, ResumeShape
    <3>3. QED
      BY <2>2, <2>3, <3>1, <3>2, OnlyContexts
  <2>6. QED
    BY <2>4, <2>5
<1>6. QED
  BY <1>1, <1>2, <1>3, <1>4, <1>5

LEMMA TablesEnd ==
  ASSUME StackInv
  PROVE  /\ TableEndInTable => StackInv'
         /\ TableEndInTableRow => StackInv'
         /\ TableEndInTableCell => StackInv'
<1>1. ASSUME TableEndInTable PROVE StackInv'
  <2>1. PICK tok : On(tok)
    BY <1>1 DEF TableEndInTable
  <2>2. phase = "scan" /\ Shape(Now, stack) /\ Len(stack) > 1
    BY <1>1, <2>1, OnTop, BelowTop DEF TableEndInTable
  <2>3. QED
    BY <1>1, <2>2, FinishesTop DEF TableEndInTable, rest
<1>2. ASSUME TableEndInTableRow PROVE StackInv'
  <2>1. PICK tok : On(tok)
    BY <1>2 DEF TableEndInTableRow
  <2>2. /\ phase = "scan" /\ Nested(stack) /\ Shape(Now, stack) /\ Len(stack) = Depth
        /\ Depth \in Nat
    BY <2>1, OnTop
  <2>3. Depth > 1 /\ stack[Depth - 1] = "TABLE"
    BY <1>2, <2>1, <2>2, OnTop, BelowTop, UnderEach DEF TableEndInTableRow
  <2>4. stack[1] = "ROOT"
    BY <2>2, <2>3 DEF Nested
  <2>5. Depth - 1 > 1 /\ 1 \in 0 .. Len(stack)
    BY <2>2, <2>3, <2>4
  <2>6. Shape(Pop(Now, 1), Below(stack, 1)) /\ Len(Below(stack, 1)) > 1
    BY <2>2, <2>5, PopShape
  <2>7. QED
    BY <1>2, <2>2, <2>6, FinishesTop DEF TableEndInTableRow
<1>3. ASSUME TableEndInTableCell PROVE StackInv'
  <2>1. PICK tok : On(tok)
    BY <1>3 DEF TableEndInTableCell
  <2>2. /\ Top = "TABLE_CELL" /\ Become(Finished(CloseCellAndRow))
        /\ UNCHANGED <<error, phase>>
    BY <1>3 DEF TableEndInTableCell, rest
  <2>3. phase = "scan" /\ Depth > 0
    BY <2>1, OnTop
  <2>4. QED
    BY <2>2, <2>3, CloseCellShape, FinishesTop
<1>4. QED
  BY <1>1, <1>2, <1>3
-----------------------------------------------------------------------------
(* The whole specification.                                                *)

LEMMA HandlersKeep ==
  ASSUME StackInv, Handler
  PROVE  StackInv'
<1>1. CASE Skip \/ Redirect \/ RawSkip
  <2>1. UNCHANGED <<stack, frames, heap, error, phase>>
    BY <1>1 DEF Skip, Redirect, RawSkip, rest
  <2>2. phase = "scan"
    BY <1>1 DEF Skip, Redirect, RawSkip, On, Scanning
  <2>3. Depth > 0
    BY <2>2 DEF StackInv
  <2>4. QED
    BY <2>1, <2>3, SameContexts
<1>2. CASE \/ LinkBegin \/ LinkBeginInLink \/ NewlineInInternalLink
           \/ SeparatorInInternalLink \/ LinkEndInInternalLink \/ LinkEndInAnchorText
  BY <1>2, LinkBeginKeeps, LinkBeginInLinkKeeps, LinksKeep
<1>3. CASE \/ CategoryLinkBegin \/ LinkEndInCategory \/ LanguageLinkBegin \/ LinkEndInLanguageLink
  BY <1>3, SpecialLinksKeep
<1>4. CASE \/ ImageBegin \/ TemplateBegin \/ SeparatorInTemplate \/ SeparatorInImage
           \/ EqualsInParameter
  BY <1>4, TemplatesOpen
<1>5. CASE \/ SeparatorInParameter \/ SeparatorInValue \/ TemplateEndInParameter
           \/ TemplateEndInValue \/ TemplateEndInImageValue \/ LinkEndInParameter \/ LinkEndInValue
  BY <1>5, ParametersEnd
<1>6. CASE TemplateEndInTemplate \/ LinkEndInImage
  BY <1>6, TemplatesEnd
<1>7. CASE \/ NowikiBegin \/ PreBegin \/ MathBegin \/ SourceBegin \/ GalleryBegin
  BY <1>7, RawBegins
<1>8. CASE \/ NowikiEnd \/ PreEnd \/ MathEnd \/ SourceEnd \/ GalleryEnd \/ SourceEndElsewhere
  BY <1>8, RawEnds
<1>9. CASE Ref \/ RefBegin \/ RefEnd
  BY <1>9, ReferencesKeep
<1>10. CASE \/ ExternalLinkBegin \/ SpaceInExternalLink
            \/ ExternalLinkEndInExternalLink \/ ExternalLinkEndInValue
  BY <1>10, ExternalLinksKeep
<1>11. CASE Heading \/ Formatting
  BY <1>11, HeadingsKeep
<1>12. CASE \/ TableBegin \/ NewlineInTable \/ NewlineInTableRow
            \/ TableCaptionBegin \/ SeparatorInTableCaption \/ TableRowBeginInTable
  BY <1>12, TablesBegin
<1>13. CASE \/ TableRowBeginInCaption \/ TableRowBeginInTableCell
            \/ SeparatorInTableRow \/ Exclamation \/ SeparatorInTableCell
  BY <1>13, RowsAndCellsBegin
<1>14. CASE TableEndInTable \/ TableEndInTableRow \/ TableEndInTableCell
  BY <1>14, TablesEnd
<1>15. QED
  BY <1>1, <1>2, <1>3, <1>4, <1>5, <1>6, <1>7, <1>8, <1>9, <1>10, <1>11, <1>12, <1>13, <1>14
     DEF Handler

LEMMA EndOfFileKeeps ==
  ASSUME StackInv, EndOfFile
  PROVE  StackInv'
<1> DEFINE m == Flush(Now)
<1>1. Shape(Now, stack) /\ Depth \in Nat /\ Len(stack) = Depth /\ Depth > 0
  BY Basics DEF StackInv, EndOfFile
<1>2. Shape(m, stack)
  BY <1>1, FlushShape
<1>3. CASE Top = "INTERNAL_LINK"
  <2>1. PICK o : o = Flush(Now)
    OBVIOUS
  <2>2. PICK h : Become(Pop([o EXCEPT !.heap = h], 1))
    BY <1>3, <2>1, Zenon DEF EndOfFile
  <2>3. Shape([o EXCEPT !.heap = h], stack) /\ 1 \in 0 .. Len(stack)
    <3>1. Shape(o, stack)
      BY <1>2, <2>1
    <3>2. Shape([o EXCEPT !.heap = h], stack)
      BY <3>1, HeapShape
    <3>3. QED
      BY <1>1, <3>2
  <2>4. Shape(Pop([o EXCEPT !.heap = h], 1), Below(stack, 1))
    BY <2>3, PopShape
  <2>5. Shape(Now, stack)'
    BY <2>2, <2>4, BecomeKeeps
  <2>6. QED
    BY <2>5 DEF EndOfFile, StackInv
<1>4. CASE Top # "INTERNAL_LINK"
  <2>1. PICK o \in {m, WithText(m, Strip(Str(F.start, pos)))} : Become(o)
    BY <1>4 DEF EndOfFile
  <2>2. Shape(o, stack)
    BY <1>2, <2>1, WithTextShape
  <2>3. Shape(Now, stack)'
    BY <2>1, <2>2, BecomeKeeps
  <2>4. QED
    BY <2>3 DEF EndOfFile, StackInv
<1>5. QED
  BY <1>3, <1>4

LEMMA CleanupKeeps ==
  ASSUME StackInv, CleanupParser
  PROVE  StackInv'
<1>1. phase' \in {"cleanup", "parsed"} /\ error' = error
  BY DEF CleanupParser
<1>2. CASE Depth > 0
  <2>1. Shape(Now, stack) /\ 1 \in 0 .. Len(stack)
    BY <1>2, Basics
  <2>2. Shape(Pop(Now, 1), Below(stack, 1)) /\ Become(Pop(Now, 1))
    BY <1>2, <2>1, PopShape DEF CleanupParser
  <2>3. Shape(Now, stack)'
    BY <2>2, BecomeKeeps
  <2>4. QED
    BY <1>1, <2>3 DEF StackInv
<1>3. CASE ~(Depth > 0)
  BY <1>1, <1>3, SameContexts DEF CleanupParser
<1>4. QED
  BY <1>2, <1>3

LEMMA StackStarts ==
  ASSUME Init
  PROVE  StackInv
<1> DEFINE f == [section |-> None, list |-> 1, start |-> 1, stop |-> 1, tok |-> None,
                 params |-> 0, newline |-> FALSE]
<1>1. stack = <<"ROOT">> /\ frames = <<f>>
  BY DEF Init
<1>2. stack \in Seq(Context) /\ Len(stack) = 1 /\ stack[1] = "ROOT"
  BY <1>1 DEF Context
<1>3. frames \in Seq({f}) /\ Len(frames) = 1
  BY <1>1
<1>4. Nested(stack)
  BY <1>2 DEF Nested
<1>5. Shape(Now, stack)
  BY <1>2, <1>3, <1>4 DEF Shape, Now, IsSequence
<1>6. error \in {"", "Empty content after preprocessing"}
  BY DEF Init
<1>7. Depth > 0
  BY <1>2 DEF Depth
<1>8. QED
  BY <1>5, <1>6, <1>7 DEF StackInv

LEMMA StackStays ==
  ASSUME StackInv, [Next]_vars
  PROVE  StackInv'
<1>1. CASE Handler
  BY <1>1, HandlersKeep
<1>2. CASE EndOfFile
  BY <1>2, EndOfFileKeeps
<1>3. CASE CleanupParser
  BY <1>3, CleanupKeeps
<1>4. CASE FreeTree
  <2>1. UNCHANGED <<stack, frames, heap, error>> /\ phase' = "freed"
    BY <1>4 DEF FreeTree
  <2>2. QED
    BY <2>1, SameContexts
<1>5. CASE UNCHANGED vars
  <2>1. UNCHANGED <<stack, frames, heap, error, phase>>
    BY <1>5 DEF vars
  <2>2. phase \notin {"scan", "crashed"} \/ Depth > 0
    BY DEF StackInv
  <2>3. QED
    BY <2>1, <2>2, SameContexts
<1>6. QED
  BY <1>1, <1>2, <1>3, <1>4, <1>5 DEF Next

(* Whatever the article, broken ones included, the handlers that pop one,  *)
(* two or three contexts without looking find the ones they assume, the    *)
(* root stays until the end of the scan, each context keeps its frame, and *)
(* the parser reports no error but its three.                              *)
THEOREM HandlersPopWhatTheyAssume == Spec => []ContextsNest
<1>1. Init => StackInv
  BY StackStarts
<1>2. StackInv /\ [Next]_vars => StackInv'
  BY StackStays
<1>3. StackInv => ContextsNest
  BY Nesting
<1>4. QED
  BY <1>1, <1>2, <1>3, PTL DEF Spec

-----------------------------------------------------------------------------
(* The sections of a heap, and the lists and holders they are found in.    *)

Sections(h) == 1 .. Len(h.node)
Type(h, s) == h.node[s].type
Entries(h, s) == {h.list[s][i] : i \in DOMAIN h.list[s]}
HeldBy(h, s) == h.node[s].held
Child(h, s, t) == t \in Entries(h, s) \/ (HeldBy(h, s) # None /\ t = HeldBy(h, s))
Untyped == ""                            (* a link that is still open       *)
Root(h, s) == s \in Sections(h) /\ \A u \in Sections(h) : ~Child(h, u, s)

(* What a list or a holder points to is a section of the heap, of the kind *)
(* it is declared for, and newer than its owner.                           *)
Lists(h) ==
  \A s \in Sections(h) : \A t \in Entries(h, s) :
    t \in Sections(h) /\ Type(h, t) \in Holds(Type(h, s)) /\ s < t
Helds(h) ==
  \A s \in Sections(h) : HeldBy(h, s) # None =>
    /\ Type(h, s) \in {"table", "redirect"} /\ HeldBy(h, s) \in Sections(h)
    /\ s < HeldBy(h, s) \/ Type(h, HeldBy(h, s)) = Untyped
(* One owner each: no two places of lists, no two holders, not both.       *)
At(h, s, i, t) == i \in DOMAIN h.list[s] /\ h.list[s][i] = t
ListedOnce(h) ==
  \A s, t \in Sections(h) : \A i, j, x : At(h, s, i, x) /\ At(h, t, j, x) => s = t /\ i = j
HeldOnce(h) ==
  \A s, t \in Sections(h) : HeldBy(h, s) # None =>
    /\ HeldBy(h, s) = HeldBy(h, t) => s = t
    /\ HeldBy(h, s) \notin Entries(h, t)
(* Nothing that has been freed hangs below what has not.                   *)
Whole(h, gone) ==
  /\ gone \subseteq Sections(h)
  /\ \A s \in Sections(h) \ gone : \A t \in gone : ~Child(h, s, t)
Forest(h, gone) == Lists(h) /\ Helds(h) /\ ListedOnce(h) /\ HeldOnce(h) /\ Whole(h, gone)


-----------------------------------------------------------------------------
(* What a section owns: all that is reached from it.                       *)

Closed(h, C) == \A s \in C, t \in Sections(h) : Child(h, s, t) => t \in C
Reach(h, s) == {t \in Sections(h) : \A C \in SUBSET Sections(h) : s \in C /\ Closed(h, C) => t \in C}
OwnsBy(h, f, s) ==
  {s} \cup (UNION {f[h.list[s][i]] : i \in DOMAIN h.list[s]})
    \cup IF h.node[s].held = None THEN {} ELSE f[h.node[s].held]

LEMMA OwnsItsChildren ==
  ASSUME NEW h, NEW f, NEW s, NEW x
  PROVE  x \in OwnsBy(h, f, s) <=> x = s \/ \E t : Child(h, s, t) /\ x \in f[t]
<1>1. x \in UNION {f[h.list[s][i]] : i \in DOMAIN h.list[s]} <=> \E t \in Entries(h, s) : x \in f[t]
  BY DEF Entries
<1>2. x \in (IF h.node[s].held = None THEN {} ELSE f[h.node[s].held])
        <=> HeldBy(h, s) # None /\ x \in f[HeldBy(h, s)]
  BY DEF HeldBy
<1>3. PICK U, I : /\ U = UNION {f[h.list[s][i]] : i \in DOMAIN h.list[s]}
                 /\ I = IF h.node[s].held = None THEN {} ELSE f[h.node[s].held]
  OBVIOUS
<1>4. x \in OwnsBy(h, f, s) <=> x = s \/ x \in U \/ x \in I
  BY <1>3, Zenon DEF OwnsBy
<1>5. (\E t : Child(h, s, t) /\ x \in f[t])
        <=> (\E t \in Entries(h, s) : x \in f[t]) \/ (HeldBy(h, s) # None /\ x \in f[HeldBy(h, s)])
  <2>1. ASSUME NEW t, Child(h, s, t), x \in f[t]
        PROVE  (\E v \in Entries(h, s) : x \in f[v]) \/ (HeldBy(h, s) # None /\ x \in f[HeldBy(h, s)])
    BY <2>1, Zenon DEF Child
  <2>2. ASSUME NEW t \in Entries(h, s), x \in f[t] PROVE \E v : Child(h, s, v) /\ x \in f[v]
    BY <2>2, Zenon DEF Child
  <2>3. ASSUME HeldBy(h, s) # None, x \in f[HeldBy(h, s)] PROVE \E v : Child(h, s, v) /\ x \in f[v]
    BY <2>3, Zenon DEF Child
  <2>4. QED
    BY <2>1, <2>2, <2>3, Zenon
<1>6. QED
  BY <1>1, <1>2, <1>3, <1>4, <1>5, Zenon

LEMMA ReachIsClosed ==
  ASSUME NEW h, NEW s \in Sections(h)
  PROVE  s \in Reach(h, s) /\ Reach(h, s) \subseteq Sections(h) /\ Closed(h, Reach(h, s))
BY DEF Reach, Closed

LEMMA ReachIsLeast ==
  ASSUME NEW h, NEW s \in Sections(h), NEW C \in SUBSET Sections(h), s \in C, Closed(h, C)
  PROVE  Reach(h, s) \subseteq C
BY DEF Reach

LEMMA ReachUnfolds ==
  ASSUME NEW h, Lists(h), Helds(h), NEW s \in Sections(h), NEW x
  PROVE  x \in Reach(h, s) <=> x = s \/ \E t : Child(h, s, t) /\ x \in Reach(h, t)
<1>1. \A u \in Sections(h) : \A t : Child(h, u, t) => t \in Sections(h)
  BY DEF Lists, Helds, Child
<1>2. PICK C : C = {s} \cup {y \in Sections(h) : \E t : Child(h, s, t) /\ y \in Reach(h, t)}
  OBVIOUS
<1>3. C \in SUBSET Sections(h) /\ s \in C
  BY <1>2
<1>4. ASSUME NEW u \in C, NEW v \in Sections(h), Child(h, u, v) PROVE v \in C
  <2>1. CASE u = s
    <3>1. v \in Reach(h, v)
      BY ReachIsClosed
    <3>2. QED
      BY <1>2, <1>4, <2>1, <3>1
  <2>2. CASE u # s
    <3>1. PICK t : Child(h, s, t) /\ u \in Reach(h, t)
      BY <1>2, <2>2
    <3>2. t \in Sections(h)
      BY <1>1, <3>1
    <3>3. v \in Reach(h, t)
      BY <1>4, <3>1, <3>2, ReachIsClosed DEF Closed
    <3>4. QED
      BY <1>2, <3>1, <3>3
  <2>3. QED
    BY <2>1, <2>2
<1>5. Closed(h, C)
  BY <1>4 DEF Closed
<1>6. Reach(h, s) \subseteq C
  BY <1>3, <1>5, ReachIsLeast
<1>7. s \in Reach(h, s) /\ Closed(h, Reach(h, s)) /\ Reach(h, s) \subseteq Sections(h)
  BY ReachIsClosed
<1>8. ASSUME NEW t, Child(h, s, t) PROVE Reach(h, t) \subseteq Reach(h, s)
  <2>1. t \in Sections(h)
    BY <1>1, <1>8
  <2>2. t \in Reach(h, s)
    BY <1>7, <1>8, <2>1 DEF Closed
  <2>3. QED
    BY <1>7, <2>1, <2>2, ReachIsLeast
<1>9. QED
  BY <1>2, <1>6, <1>7, <1>8

(* Of all but the section itself an owner is reached too.                  *)
LEMMA ReachedFromReached ==
  ASSUME NEW h, NEW s \in Sections(h), NEW t \in Reach(h, s), t # s
  PROVE  \E u \in Reach(h, s) : Child(h, u, t)
<1>1. PICK C : C = {s} \cup {y \in Reach(h, s) : \E u \in Reach(h, s) : Child(h, u, y)}
  OBVIOUS
<1>2. s \in Reach(h, s) /\ Reach(h, s) \subseteq Sections(h) /\ Closed(h, Reach(h, s))
  BY ReachIsClosed
<1>3. C \in SUBSET Sections(h) /\ s \in C /\ C \subseteq Reach(h, s)
  BY <1>1, <1>2
<1>4. Closed(h, C)
  BY <1>1, <1>2, <1>3 DEF Closed
<1>5. Reach(h, s) \subseteq C
  BY <1>3, <1>4, ReachIsLeast
<1>6. QED
  BY <1>1, <1>5

LEMMA GreatestOf ==
  ASSUME NEW n \in Nat, NEW S \in SUBSET (1 .. n), S # {}
  PROVE  \E s \in S : \A t \in S : t <= s
<1> DEFINE R == OpToRel(<, Nat)
<1>1. IsWellFoundedOn(R, Nat)
  BY NatLessThanWellFounded
<1>2. \A x, y \in Nat : y < x => <<y, x>> \in R
  BY DEF OpToRel
<1> HIDE DEF R
<1>3. PICK T : T = {x \in Nat : n - x \in S}
  OBVIOUS
<1>4. T \subseteq Nat /\ T # {}
  <2>1. PICK s \in S : s \in 1 .. n
    OBVIOUS
  <2>2. n - s \in Nat /\ n - (n - s) = s
    BY <2>1
  <2>3. QED
    BY <1>3, <2>2
<1>5. PICK x \in T : \A y \in T : ~(<<y, x>> \in R)
  BY <1>1, <1>4, WFMin
<1>6. \A y \in T : ~(y < x) /\ x \in Nat
  BY <1>2, <1>4, <1>5
<1>7. n - x \in S
  BY <1>3, <1>5
<1>8. ASSUME NEW t \in S PROVE t <= n - x
  <2>1. n - t \in Nat /\ n - (n - t) = t /\ t \in Nat
    OBVIOUS
  <2>2. n - t \in T
    BY <1>3, <2>1
  <2>3. QED
    BY <1>6, <2>1, <2>2
<1>9. QED
  BY <1>7, <1>8

(* The recursion of Owned has that solution, and no other: no section owns *)
(* itself, since what it owns is newer, or is a link that owns nothing.    *)
LEMMA OwningEnds ==
  ASSUME NEW h, Len(h.node) \in Nat, Lists(h), Helds(h), NEW S \in SUBSET Sections(h), S # {}
  PROVE  \E s \in S : \A t \in S : ~Child(h, s, t)
<1>1. CASE \E s \in S : Type(h, s) = Untyped
  <2>1. PICK s \in S : Type(h, s) = Untyped
    BY <1>1
  <2>2. Untyped \notin {"template", "image", "table", "row", "tree", "key_value", "external_link",
                        "ref", "heading", "table_caption", "cell", "redirect"}
    BY Zenon DEF Untyped
  <2>3. Holds(Untyped) = {}
    BY <2>2 DEF Holds
  <2>4. \A t : ~Child(h, s, t)
    BY <2>1, <2>2, <2>3 DEF Child, Lists, Helds
  <2>5. QED
    BY <2>4
<1>2. CASE \A s \in S : Type(h, s) # Untyped
  <2>1. PICK s \in S : \A t \in S : t <= s
    <3>1. S \in SUBSET (1 .. Len(h.node))
      BY DEF Sections
    <3>2. QED
      BY <3>1, GreatestOf
  <2>2. ASSUME NEW t \in S, Child(h, s, t) PROVE FALSE
    <3>1. s \in Nat /\ t \in Nat /\ s \in Sections(h)
      BY DEF Sections
    <3>2. s < t
      BY <1>2, <2>2, <3>1 DEF Child, Lists, Helds
    <3>3. QED
      BY <2>1, <3>1, <3>2
  <2>3. QED
    BY <2>2
<1>3. QED
  BY <1>1, <1>2

LEMMA OwnedIsReached ==
  ASSUME NEW h, Len(h.node) \in Nat, DOMAIN h.node = Sections(h), Lists(h), Helds(h), NEW s \in Sections(h)
  PROVE  Owned(h, s) = Reach(h, s)
<1> DEFINE Solves(f) == f = [u \in DOMAIN h.node |-> OwnsBy(h, f, u)]
<1>1. PICK r : r = [u \in Sections(h) |-> Reach(h, u)]
  OBVIOUS
<1>2. \A u \in Sections(h) : \A t : Child(h, u, t) => t \in Sections(h)
  BY DEF Lists, Helds, Child
<1>3. ASSUME NEW u \in Sections(h) PROVE Reach(h, u) = OwnsBy(h, r, u)
  <2>1. ASSUME NEW x PROVE x \in Reach(h, u) <=> x \in OwnsBy(h, r, u)
    <3>1. x \in Reach(h, u) <=> x = u \/ \E t : Child(h, u, t) /\ x \in Reach(h, t)
      BY ReachUnfolds
    <3>2. x \in OwnsBy(h, r, u) <=> x = u \/ \E t : Child(h, u, t) /\ x \in r[t]
      BY OwnsItsChildren
    <3>3. \A t : Child(h, u, t) => r[t] = Reach(h, t)
      BY <1>1, <1>2
    <3>4. QED
      BY <3>1, <3>2, <3>3, Zenon
  <2>2. QED
    BY <2>1, Zenon
<1>4. Solves(r)
  <2>1. [u \in Sections(h) |-> Reach(h, u)] = [u \in Sections(h) |-> OwnsBy(h, r, u)]
    BY <1>3
  <2>2. QED
    BY <1>1, <2>1
<1>5. Owned(h, s) = (CHOOSE f : Solves(f))[s]
  BY DEF Owned, OwnsBy
<1>6. PICK f : f = (CHOOSE g : Solves(g))
  OBVIOUS
<1>7. Solves(f)
  BY <1>4, <1>6
<1>8. \A u \in Sections(h) : f[u] = OwnsBy(h, f, u)
  BY <1>7
<1>9. ASSUME {u \in Sections(h) : f[u] # Reach(h, u)} # {} PROVE FALSE
  <2>1. PICK S : S = {u \in Sections(h) : f[u] # Reach(h, u)}
    OBVIOUS
  <2>2. PICK u \in S : \A t \in S : ~Child(h, u, t)
    BY <1>9, <2>1, OwningEnds
  <2>3. u \in Sections(h) /\ f[u] # Reach(h, u)
    BY <2>1, <2>2
  <2>4. \A t : Child(h, u, t) => f[t] = Reach(h, t)
    BY <1>2, <2>1, <2>2, <2>3
  <2>5. ASSUME NEW x PROVE x \in OwnsBy(h, f, u) <=> x \in Reach(h, u)
    <3>1. x \in Reach(h, u) <=> x = u \/ \E t : Child(h, u, t) /\ x \in Reach(h, t)
      BY <2>3, ReachUnfolds
    <3>2. x \in OwnsBy(h, f, u) <=> x = u \/ \E t : Child(h, u, t) /\ x \in f[t]
      BY OwnsItsChildren
    <3>3. QED
      BY <2>4, <3>1, <3>2, Zenon
  <2>6. QED
    BY <1>8, <2>3, <2>5
<1>10. QED
  BY <1>5, <1>6, <1>9

-----------------------------------------------------------------------------
(* The ways in which a heap changes.                                       *)

Node(r) == r = [type |-> r.type, text |-> r.text, alias |-> r.alias, held |-> r.held]
IsHeap(h) ==
  /\ h = [node |-> h.node, list |-> h.list]
  /\ IsSequence(h.node) /\ IsSequence(h.list) /\ Len(h.list) = Len(h.node)
  /\ \A s \in Sections(h) : Node(h.node[s]) /\ IsSequence(h.list[s])
(* Sections keep their types, entries and freedom, but for x.              *)
Grown(h, h2, x) ==
  /\ Sections(h) \subseteq Sections(h2)
  /\ \A s \in Sections(h) \ {x} :
       /\ Type(h2, s) = Type(h, s) /\ Entries(h, s) \subseteq Entries(h2, s)
       /\ Root(h, s) => Root(h2, s)
Follows(h, h2, gone, x) == IsHeap(h2) /\ Forest(h2, gone) /\ Grown(h, h2, x)

LEMMA SequenceBasics ==
  ASSUME NEW f, IsSequence(f)
  PROVE  Len(f) \in Nat /\ DOMAIN f = 1 .. Len(f) /\ f = [n \in 1 .. Len(f) |-> f[n]]
<1>1. PICK S : f \in Seq(S)
  BY DEF IsSequence
<1>2. QED
  BY <1>1

LEMMA AppendedSequence ==
  ASSUME NEW f, IsSequence(f), NEW x
  PROVE  /\ IsSequence(Append(f, x)) /\ Len(Append(f, x)) = Len(f) + 1
         /\ \A n \in 1 .. Len(f) : Append(f, x)[n] = f[n]
         /\ Append(f, x)[Len(f) + 1] = x
<1>1. PICK S : f \in Seq(S)
  BY DEF IsSequence
<1>2. f \in Seq(S \cup {x}) /\ Len(f) \in Nat
  BY <1>1
<1>3. Append(f, x) \in Seq(S \cup {x}) /\ Len(Append(f, x)) = Len(f) + 1
  BY <1>2
<1>4. QED
  BY <1>2, <1>3 DEF IsSequence

Replaced(f, k, x) == [f EXCEPT ![k] = x]
LEMMA ReplacedInSequence ==
  ASSUME NEW f, IsSequence(f), NEW k, NEW x
  PROVE  /\ IsSequence(Replaced(f, k, x)) /\ Len(Replaced(f, k, x)) = Len(f)
         /\ \A n \in 1 .. Len(f) : Replaced(f, k, x)[n] = IF n = k THEN x ELSE f[n]
<1>1. PICK S : f \in Seq(S)
  BY DEF IsSequence
<1>2. f \in Seq(S \cup {x}) /\ Len(f) \in Nat /\ DOMAIN f = 1 .. Len(f)
  BY <1>1
<1>3. PICK g : g = Replaced(f, k, x)
  OBVIOUS
<1>4. g = [n \in 1 .. Len(f) |-> IF n = k THEN x ELSE f[n]]
  BY <1>2, <1>3 DEF Replaced
<1>5. \A n \in 1 .. Len(f) : g[n] \in S \cup {x}
  BY <1>2, <1>4
<1>6. g \in Seq(S \cup {x}) /\ Len(g) = Len(f)
  BY <1>2, <1>4, <1>5
<1>7. QED
  BY <1>3, <1>4, <1>6 DEF IsSequence

LEMMA HeapBasics ==
  ASSUME NEW h, IsHeap(h)
  PROVE  /\ Len(h.node) \in Nat /\ DOMAIN h.node = Sections(h) /\ DOMAIN h.list = Sections(h)
         /\ \A s \in Sections(h) : Len(h.list[s]) \in Nat /\ DOMAIN h.list[s] = 1 .. Len(h.list[s])
         /\ Fresh(h) = Len(h.node) + 1 /\ Fresh(h) \notin Sections(h)
<1>1. Len(h.node) \in Nat /\ DOMAIN h.node = Sections(h) /\ DOMAIN h.list = Sections(h)
  BY SequenceBasics DEF IsHeap, Sections
<1>2. ASSUME NEW s \in Sections(h) PROVE Len(h.list[s]) \in Nat /\ DOMAIN h.list[s] = 1 .. Len(h.list[s])
  BY SequenceBasics DEF IsHeap
<1>3. QED
  BY <1>1, <1>2 DEF Fresh, Sections

(* Texts and aliases do not matter.                                        *)
Retold(h, h2) ==
  /\ IsHeap(h2) /\ Len(h2.node) = Len(h.node) /\ h2.list = h.list
  /\ \A s \in Sections(h) : Type(h2, s) = Type(h, s) /\ HeldBy(h2, s) = HeldBy(h, s)

LEMMA RetoldFollows ==
  ASSUME NEW h, NEW gone, NEW h2, IsHeap(h), Forest(h, gone), Retold(h, h2)
  PROVE  Follows(h, h2, gone, None)
<1>1. /\ Sections(h2) = Sections(h) /\ \A s : Entries(h2, s) = Entries(h, s)
      /\ \A s \in Sections(h) : Type(h2, s) = Type(h, s) /\ HeldBy(h2, s) = HeldBy(h, s)
      /\ h2.list = h.list
  BY DEF Retold, Sections, Entries
<1>2. \A s \in Sections(h) : \A t : Child(h2, s, t) = Child(h, s, t)
  BY <1>1 DEF Child
<1>3. \A s \in Sections(h) : Root(h2, s) = Root(h, s)
  BY <1>1, <1>2 DEF Root
<1>4. Grown(h, h2, None)
  BY <1>1, <1>3 DEF Grown
<1>5. Lists(h2)
  BY <1>1 DEF Forest, Lists
<1>10. \A s, i, x : At(h2, s, i, x) = At(h, s, i, x)
  BY <1>1 DEF At
<1>11. ListedOnce(h2)
  BY <1>1, <1>10 DEF Forest, ListedOnce
<1>6. Helds(h2)
  BY <1>1 DEF Forest, Helds
<1>9. HeldOnce(h2)
  BY <1>1 DEF Forest, HeldOnce
<1>7. Whole(h2, gone)
  BY <1>1, <1>2 DEF Forest, Whole
<1>8. QED
  BY <1>4, <1>5, <1>6, <1>7, <1>9, <1>11 DEF Follows, Forest, Retold

Renoded(h, sec, r) == [node |-> Replaced(h.node, sec, r), list |-> h.list]
NodeIs(h, h2, sec, r) ==
  /\ IsHeap(h2) /\ Len(h2.node) = Len(h.node) /\ h2.list = h.list
  /\ \A s \in Sections(h) : h2.node[s] = IF s = sec THEN r ELSE h.node[s]
LEMMA NodeReplaced ==
  ASSUME NEW h, IsHeap(h), NEW sec, NEW r, sec \in Sections(h) => Node(r), NEW h2, h2 = Renoded(h, sec, r)
  PROVE  NodeIs(h, h2, sec, r)
<1>1. PICK g : g = Replaced(h.node, sec, r)
  OBVIOUS
<1>2. /\ IsSequence(g) /\ Len(g) = Len(h.node)
      /\ \A s \in 1 .. Len(h.node) : g[s] = IF s = sec THEN r ELSE h.node[s]
  BY <1>1, ReplacedInSequence DEF IsHeap
<1>3. h2.node = g /\ h2.list = h.list /\ h2 = [node |-> h2.node, list |-> h2.list]
  BY <1>1 DEF Renoded
<1>4. Sections(h2) = Sections(h)
  BY <1>2, <1>3 DEF Sections
<1>5. \A s \in Sections(h) : g[s] = IF s = sec THEN r ELSE h.node[s]
  BY <1>2 DEF Sections
<1>6. ASSUME NEW s \in Sections(h) PROVE Node(h2.node[s]) /\ IsSequence(h2.list[s])
  BY <1>3, <1>5 DEF IsHeap
<1>7. IsHeap(h2)
  BY <1>2, <1>3, <1>4, <1>6 DEF IsHeap
<1>8. QED
  BY <1>2, <1>3, <1>5, <1>7 DEF NodeIs

LEMMA NodeFields ==
  ASSUME NEW r, Node(r), NEW x
  PROVE  /\ [r EXCEPT !.text = x] = [type |-> r.type, text |-> x, alias |-> r.alias, held |-> r.held]
         /\ [r EXCEPT !.alias = x] = [type |-> r.type, text |-> r.text, alias |-> x, held |-> r.held]
         /\ [r EXCEPT !.held = x] = [type |-> r.type, text |-> r.text, alias |-> r.alias, held |-> x]
         /\ [r EXCEPT !.type = x] = [type |-> x, text |-> r.text, alias |-> r.alias, held |-> r.held]
BY DEF Node

LEMMA TextIsSet ==
  ASSUME NEW h, IsHeap(h), NEW sec, NEW text
  PROVE  Retold(h, SetText(h, sec, text)) /\ Retold(h, [h EXCEPT !.node[sec].alias = text])
<1>1. ASSUME NEW r, NEW h2, sec \in Sections(h) => Node(r) /\ r.type = Type(h, sec) /\ r.held = HeldBy(h, sec),
             h2 = Renoded(h, sec, r)
      PROVE  Retold(h, h2)
  <2>1. /\ IsHeap(h2) /\ Len(h2.node) = Len(h.node) /\ h2.list = h.list
        /\ \A s \in Sections(h) : h2.node[s] = IF s = sec THEN r ELSE h.node[s]
    BY <1>1, NodeReplaced DEF NodeIs
  <2>2. \A s \in Sections(h) : Type(h2, s) = Type(h, s) /\ HeldBy(h2, s) = HeldBy(h, s)
    BY <1>1, <2>1 DEF Type, HeldBy
  <2>3. QED
    BY <2>1, <2>2 DEF Retold
<1>2. PICK q : q = h.node[sec]
  OBVIOUS
<1>3. PICK r1, r2 : r1 = [q EXCEPT !.text = text] /\ r2 = [q EXCEPT !.alias = text]
  OBVIOUS
<1>4. sec \in Sections(h) =>
        /\ Node(r1) /\ r1.type = Type(h, sec) /\ r1.held = HeldBy(h, sec)
        /\ Node(r2) /\ r2.type = Type(h, sec) /\ r2.held = HeldBy(h, sec)
  <2>1. HAVE sec \in Sections(h)
  <2>2. Node(q)
    BY <1>2, <2>1 DEF IsHeap
  <2>3. /\ r1 = [type |-> q.type, text |-> text, alias |-> q.alias, held |-> q.held]
        /\ r2 = [type |-> q.type, text |-> q.text, alias |-> text, held |-> q.held]
    BY <1>3, <2>2, NodeFields
  <2>4. QED
    BY <1>2, <2>3 DEF Node, Type, HeldBy
<1>5. h = [node |-> h.node, list |-> h.list]
  BY DEF IsHeap
<1>6. SetText(h, sec, text) = Renoded(h, sec, r1)
  BY <1>2, <1>3, <1>5 DEF SetText, Renoded, Replaced
<1>7. [h EXCEPT !.node[sec].alias = text] = Renoded(h, sec, r2)
  BY <1>2, <1>3, <1>5 DEF Renoded, Replaced
<1>8. QED
  BY <1>1, <1>4, <1>6, <1>7

(* A new section is free.                                                  *)
LEMMA BuildFollows ==
  ASSUME NEW h, IsHeap(h), NEW gone, Forest(h, gone), NEW type, NEW h2, h2 = Build(h, type)
  PROVE  /\ Follows(h, h2, gone, None) /\ Sections(h2) = Sections(h) \cup {Fresh(h)}
         /\ Root(h2, Fresh(h)) /\ Type(h2, Fresh(h)) = type /\ Fresh(h) \notin gone
         /\ Fresh(h) \in Nat /\ \A s \in Sections(h) : s < Fresh(h)
<1>1. PICK N \in Nat : N = Len(h.node) /\ Len(h.list) = N
  BY HeapBasics DEF IsHeap
<1>2. Sections(h) = 1 .. N /\ Fresh(h) = N + 1 /\ DOMAIN h.list = 1 .. N
  BY <1>1, HeapBasics DEF Sections
<1>3. PICK r : r = Section(type)
  OBVIOUS
<1>4. Node(r) /\ r.type = type /\ r.held = None
  BY <1>3 DEF Section, Node
<1>5. PICK node, list : node = Append(h.node, r) /\ list = Append(h.list, <<>>)
  OBVIOUS
<1>6. h2 = [node |-> node, list |-> list] /\ h2.node = node /\ h2.list = list
  BY <1>3, <1>5 DEF Build
<1>7. /\ IsSequence(node) /\ Len(node) = N + 1
      /\ \A n \in 1 .. N : node[n] = h.node[n]
      /\ node[N + 1] = r
  BY <1>1, <1>5, AppendedSequence DEF IsHeap
<1>8. /\ IsSequence(list) /\ Len(list) = N + 1
      /\ \A n \in 1 .. N : list[n] = h.list[n]
      /\ list[N + 1] = <<>>
  BY <1>1, <1>5, AppendedSequence DEF IsHeap
<1>9. Sections(h2) = 1 .. N + 1 /\ \A s \in 1 .. N + 1 : s \in 1 .. N \/ s = N + 1
  BY <1>6, <1>7 DEF Sections
<1>10. \A s \in 1 .. N : /\ Type(h2, s) = Type(h, s) /\ HeldBy(h2, s) = HeldBy(h, s)
                         /\ h2.list[s] = h.list[s] /\ Entries(h2, s) = Entries(h, s)
  BY <1>6, <1>7, <1>8 DEF Type, HeldBy, Entries
<1>11. /\ Type(h2, N + 1) = type /\ HeldBy(h2, N + 1) = None
       /\ DOMAIN h2.list[N + 1] = {} /\ Entries(h2, N + 1) = {}
  BY <1>4, <1>6, <1>7, <1>8 DEF Type, HeldBy, Entries
<1>12. IsHeap(h2)
  <2>1. IsSequence(<<>>)
    BY DEF IsSequence
  <2>2. ASSUME NEW s \in 1 .. N + 1 PROVE Node(node[s]) /\ IsSequence(list[s])
    <3>1. CASE s \in 1 .. N
      BY <1>2, <1>7, <1>8, <3>1 DEF IsHeap
    <3>2. CASE s = N + 1
      BY <1>4, <1>7, <1>8, <2>1, <3>2
    <3>3. QED
      BY <1>9, <3>1, <3>2
  <2>3. QED
    BY <1>6, <1>7, <1>8, <1>9, <2>2 DEF IsHeap
<1>13. \A s \in 1 .. N : \A t : Child(h2, s, t) = Child(h, s, t)
  BY <1>10 DEF Child
<1>14. \A t : ~Child(h2, N + 1, t)
  BY <1>11 DEF Child
<1>15. \A s \in 1 .. N : \A t : Child(h, s, t) => t \in 1 .. N
  BY <1>2 DEF Forest, Lists, Helds, Child
<1>16. \A s \in 1 .. N : Root(h, s) => Root(h2, s)
  BY <1>2, <1>9, <1>13, <1>14 DEF Root
<1>17. Root(h2, N + 1)
  <2>1. N + 1 \in 1 .. N + 1 /\ N + 1 \notin 1 .. N
    BY <1>1
  <2>2. QED
    BY <1>9, <1>13, <1>14, <1>15, <2>1 DEF Root
<1>18. gone \subseteq 1 .. N
  BY <1>2 DEF Forest, Whole
<1>19. Whole(h2, gone)
  BY <1>2, <1>9, <1>13, <1>14, <1>18 DEF Forest, Whole
<1>20. Lists(h2)
  BY <1>2, <1>9, <1>10, <1>11 DEF Forest, Lists
<1>21. Helds(h2)
  <2>1. ASSUME NEW s \in 1 .. N, HeldBy(h, s) # None
        PROVE  /\ Type(h, s) \in {"table", "redirect"} /\ HeldBy(h, s) \in 1 .. N
               /\ s < HeldBy(h, s) \/ Type(h, HeldBy(h, s)) = Untyped
    BY <1>2, <2>1 DEF Forest, Helds
  <2>2. ASSUME NEW s \in 1 .. N + 1, HeldBy(h2, s) # None
        PROVE  /\ Type(h2, s) \in {"table", "redirect"} /\ HeldBy(h2, s) \in 1 .. N + 1
               /\ s < HeldBy(h2, s) \/ Type(h2, HeldBy(h2, s)) = Untyped
    <3>1. s \in 1 .. N
      BY <1>9, <1>11, <2>2
    <3>2. PICK t : t = HeldBy(h, s) /\ t = HeldBy(h2, s) /\ t # None
      BY <1>10, <2>2, <3>1
    <3>3. t \in 1 .. N /\ (s < t \/ Type(h, t) = Untyped) /\ Type(h, s) \in {"table", "redirect"}
      BY <2>1, <3>1, <3>2
    <3>4. Type(h2, s) = Type(h, s) /\ Type(h2, t) = Type(h, t)
      BY <1>10, <3>1, <3>3
    <3>5. t \in 1 .. N + 1
      BY <3>3
    <3>6. Type(h2, s) \in {"table", "redirect"} /\ t \in 1 .. N + 1 /\ (s < t \/ Type(h2, t) = Untyped)
      BY <3>3, <3>4, <3>5, Zenon
    <3>7. QED
      BY <3>2, <3>6, Zenon
  <2>3. QED
    BY <1>9, <2>2 DEF Helds
<1>22. ListedOnce(h2)
  <2>1. \A s \in 1 .. N : \A i, x : At(h2, s, i, x) = At(h, s, i, x)
    BY <1>10 DEF At
  <2>2. \A i, x : ~At(h2, N + 1, i, x)
    BY <1>11 DEF At
  <2>3. QED
    BY <1>2, <1>9, <2>1, <2>2 DEF Forest, ListedOnce
<1>23. HeldOnce(h2)
  BY <1>2, <1>9, <1>10, <1>11 DEF Forest, HeldOnce
<1>24. Grown(h, h2, None)
  BY <1>2, <1>9, <1>10, <1>16 DEF Grown
<1>25. N + 1 \notin gone /\ Sections(h2) = Sections(h) \cup {N + 1} /\ \A s \in Sections(h) : s < N + 1
  BY <1>1, <1>2, <1>9, <1>18
<1>26. QED
  BY <1>2, <1>11, <1>12, <1>17, <1>19, <1>20, <1>21, <1>22, <1>23, <1>24, <1>25 DEF Follows, Forest

(* A free section is put at the end of a list.                             *)
LEMMA ListFollows ==
  ASSUME NEW h, IsHeap(h), NEW gone, Forest(h, gone), NEW list \in Sections(h), NEW sec, Root(h, sec),
         sec \notin gone, list < sec, Type(h, sec) \in Holds(Type(h, list)),
         NEW h2, h2 = AppendSection(h, list, sec)
  PROVE  /\ Follows(h, h2, gone, sec) /\ Sections(h2) = Sections(h)
         /\ \A s \in Sections(h) : Type(h2, s) = Type(h, s)
         /\ sec \in Entries(h2, list)
<1>1. PICK a : a = Append(h.list[list], sec)
  OBVIOUS
<1>2. PICK k \in Nat : k = Len(h.list[list])
  BY HeapBasics
<1>3. /\ IsSequence(a) /\ Len(a) = k + 1 /\ \A n \in 1 .. k : a[n] = h.list[list][n]
      /\ a[k + 1] = sec
  BY <1>1, <1>2, AppendedSequence DEF IsHeap
<1>4. PICK g : g = Replaced(h.list, list, a)
  OBVIOUS
<1>5. /\ IsSequence(g) /\ Len(g) = Len(h.list)
      /\ \A s \in 1 .. Len(h.list) : g[s] = IF s = list THEN a ELSE h.list[s]
  BY <1>4, ReplacedInSequence DEF IsHeap
<1>6. h2 = [node |-> h.node, list |-> g] /\ h2.node = h.node /\ h2.list = g
  <2>1. h = [node |-> h.node, list |-> h.list]
    BY DEF IsHeap
  <2>2. QED
    BY <1>1, <1>4, <2>1 DEF AppendSection, Replaced
<1>7. Sections(h2) = Sections(h) /\ Sections(h) = 1 .. Len(h.list)
  BY <1>6 DEF Sections, IsHeap
<1>8. \A s \in Sections(h) : h2.list[s] = IF s = list THEN a ELSE h.list[s]
  BY <1>5, <1>6, <1>7
<1>9. \A s : Type(h2, s) = Type(h, s) /\ HeldBy(h2, s) = HeldBy(h, s)
  BY <1>6 DEF Type, HeldBy
<1>10. DOMAIN a = 1 .. k + 1 /\ DOMAIN h.list[list] = 1 .. k
  BY <1>2, <1>3, HeapBasics, SequenceBasics
<1>11. \A n \in 1 .. k + 1 : n \in 1 .. k \/ n = k + 1
  BY <1>2
<1>12. Entries(h2, list) = Entries(h, list) \cup {sec}
  <2>1. /\ Entries(h2, list) = {a[n] : n \in 1 .. k + 1}
        /\ Entries(h, list) = {h.list[list][n] : n \in 1 .. k}
    BY <1>8, <1>10 DEF Entries
  <2>2. k + 1 \in 1 .. k + 1 /\ \A n \in 1 .. k : n \in 1 .. k + 1
    BY <1>2
  <2>3. Entries(h, list) = {a[n] : n \in 1 .. k}
    BY <1>3, <2>1
  <2>4. {a[n] : n \in 1 .. k + 1} = {a[n] : n \in 1 .. k} \cup {a[k + 1]}
    BY <1>11, <2>2, Zenon
  <2>5. QED
    BY <1>3, <2>1, <2>3, <2>4
<1>13. \A s \in Sections(h) \ {list} : h2.list[s] = h.list[s] /\ Entries(h2, s) = Entries(h, s)
  BY <1>8 DEF Entries
<1>14. IsHeap(h2)
  <2>1. ASSUME NEW s \in Sections(h) PROVE Node(h2.node[s]) /\ IsSequence(h2.list[s])
    BY <1>3, <1>6, <1>8 DEF IsHeap
  <2>2. QED
    BY <1>5, <1>6, <1>7, <2>1 DEF IsHeap
<1>15. \A s \in Sections(h) : \A t : Child(h2, s, t) <=> Child(h, s, t) \/ (s = list /\ t = sec)
  BY <1>9, <1>12, <1>13 DEF Child
<1>16. sec \in Sections(h) /\ \A s \in Sections(h) : ~Child(h, s, sec)
  BY DEF Root
<1>17. Grown(h, h2, sec)
  BY <1>7, <1>9, <1>12, <1>13, <1>15 DEF Grown, Root
<1>18. Whole(h2, gone)
  BY <1>7, <1>15 DEF Forest, Whole
<1>19. Lists(h2)
  BY <1>7, <1>9, <1>12, <1>13, <1>16 DEF Forest, Lists
<1>20. Helds(h2)
  <2>1. ASSUME NEW s \in Sections(h), HeldBy(h, s) # None
        PROVE  /\ Type(h, s) \in {"table", "redirect"} /\ HeldBy(h, s) \in Sections(h)
               /\ s < HeldBy(h, s) \/ Type(h, HeldBy(h, s)) = Untyped
    BY <2>1 DEF Forest, Helds
  <2>2. ASSUME NEW s \in Sections(h), HeldBy(h2, s) # None
        PROVE  /\ Type(h2, s) \in {"table", "redirect"} /\ HeldBy(h2, s) \in Sections(h)
               /\ s < HeldBy(h2, s) \/ Type(h2, HeldBy(h2, s)) = Untyped
    BY <1>9, <2>1, <2>2
  <2>3. QED
    BY <1>7, <2>2 DEF Helds
<1>21. HeldOnce(h2)
  <2>1. \A s \in Sections(h) : HeldBy(h, s) # None => HeldBy(h, s) # sec
    BY <1>16 DEF Child
  <2>2. QED
    BY <1>7, <1>9, <1>12, <1>13, <2>1 DEF Forest, HeldOnce
<1>22. ListedOnce(h2)
  <2>1. \A s \in Sections(h) : sec \notin Entries(h, s)
    BY <1>16 DEF Child
  <2>2. \A s \in Sections(h) : \A i : ~At(h, s, i, sec)
    BY <2>1 DEF Entries, At
  <2>3. \A s \in Sections(h) \ {list} : \A i, x : At(h2, s, i, x) = At(h, s, i, x)
    BY <1>13 DEF At
  <2>4. h2.list[list] = a
    BY <1>8
  <2>5. ASSUME NEW i, NEW x, At(h2, list, i, x)
        PROVE  At(h, list, i, x) \/ (i = k + 1 /\ x = sec)
    <3>1. i \in 1 .. k + 1 /\ a[i] = x
      BY <1>10, <2>4, <2>5 DEF At
    <3>2. i \in 1 .. k => h.list[list][i] = x
      BY <1>3, <3>1
    <3>3. i \in 1 .. k => At(h, list, i, x)
      BY <1>10, <3>2 DEF At
    <3>4. i = k + 1 => x = sec
      BY <1>3, <3>1
    <3>5. QED
      BY <1>11, <3>1, <3>3, <3>4
  <2>6. ASSUME NEW s \in Sections(h), NEW i, NEW x, At(h2, s, i, x)
        PROVE  At(h, s, i, x) \/ (s = list /\ i = k + 1 /\ x = sec)
    BY <2>3, <2>5, <2>6
  <2>7. ASSUME NEW s \in Sections(h), NEW t \in Sections(h), NEW i, NEW j, NEW x,
               At(h2, s, i, x), At(h2, t, j, x)
        PROVE  s = t /\ i = j
    <3>1. CASE x = sec
      BY <2>2, <2>6, <2>7, <3>1
    <3>2. CASE x # sec
      <4>1. At(h, s, i, x) /\ At(h, t, j, x)
        BY <2>6, <2>7, <3>2
      <4>2. QED
        BY <4>1 DEF Forest, ListedOnce
    <3>3. QED
      BY <3>1, <3>2
  <2>8. QED
    BY <1>7, <2>7 DEF ListedOnce
<1>23. QED
  BY <1>7, <1>9, <1>12, <1>14, <1>17, <1>18, <1>19, <1>20, <1>21, <1>22 DEF Follows, Forest

(* A free section becomes the caption of a table or the link of a redirect.*)
LEMMA HoldFollows ==
  ASSUME NEW h, IsHeap(h), NEW gone, Forest(h, gone), NEW sec \in Sections(h), NEW t, Root(h, t),
         t \notin gone, t # None, Type(h, sec) \in {"table", "redirect"}, sec < t \/ Type(h, t) = Untyped,
         NEW h2, h2 = [h EXCEPT !.node[sec].held = t]
  PROVE  /\ Follows(h, h2, gone, t) /\ Sections(h2) = Sections(h)
         /\ \A s \in Sections(h) : Type(h2, s) = Type(h, s)
<1>1. PICK q : q = h.node[sec]
  OBVIOUS
<1>2. PICK r : r = [q EXCEPT !.held = t]
  OBVIOUS
<1>3. Node(r) /\ r.type = Type(h, sec) /\ r.held = t
  <2>1. Node(q)
    BY <1>1 DEF IsHeap
  <2>2. r = [type |-> q.type, text |-> q.text, alias |-> q.alias, held |-> t]
    BY <1>2, <2>1, NodeFields
  <2>3. QED
    BY <1>1, <2>2 DEF Node, Type
<1>4. h2 = Renoded(h, sec, r)
  <2>1. h = [node |-> h.node, list |-> h.list]
    BY DEF IsHeap
  <2>2. QED
    BY <1>1, <1>2, <2>1 DEF Renoded, Replaced
<1>5. /\ IsHeap(h2) /\ Len(h2.node) = Len(h.node) /\ h2.list = h.list
      /\ \A s \in Sections(h) : h2.node[s] = IF s = sec THEN r ELSE h.node[s]
  <2>1. sec \in Sections(h) => Node(r)
    BY <1>3
  <2>2. NodeIs(h, h2, sec, r)
    BY <1>4, <2>1, NodeReplaced, Zenon
  <2>3. QED
    BY <2>2 DEF NodeIs
<1>6. Sections(h2) = Sections(h)
  BY <1>5 DEF Sections
<1>7. /\ \A s \in Sections(h) : Type(h2, s) = Type(h, s)
      /\ \A s \in Sections(h) : HeldBy(h2, s) = IF s = sec THEN t ELSE HeldBy(h, s)
  BY <1>3, <1>5 DEF Type, HeldBy
<1>8. /\ \A s : Entries(h2, s) = Entries(h, s)
      /\ \A s, i, x : At(h2, s, i, x) = At(h, s, i, x)
  BY <1>5 DEF Entries, At
<1>9. \A s \in Sections(h) : \A x : Child(h2, s, x) => Child(h, s, x) \/ (s = sec /\ x = t)
  BY <1>7, <1>8 DEF Child
<1>10. t \in Sections(h) /\ \A s \in Sections(h) : ~Child(h, s, t)
  BY DEF Root
<1>11. Grown(h, h2, t)
  BY <1>6, <1>7, <1>8, <1>9 DEF Grown, Root
<1>12. Whole(h2, gone)
  BY <1>6, <1>9 DEF Forest, Whole
<1>13. Lists(h2)
  BY <1>6, <1>7, <1>8 DEF Forest, Lists
<1>14. ListedOnce(h2)
  BY <1>6, <1>8 DEF Forest, ListedOnce
<1>15. Helds(h2)
  <2>1. ASSUME NEW s \in Sections(h), HeldBy(h2, s) # None
        PROVE  /\ Type(h2, s) \in {"table", "redirect"} /\ HeldBy(h2, s) \in Sections(h)
               /\ s < HeldBy(h2, s) \/ Type(h2, HeldBy(h2, s)) = Untyped
    <3>1. CASE s = sec
      BY <1>7, <1>10, <3>1
    <3>2. CASE s # sec
      <4>1. PICK x : x = HeldBy(h, s) /\ x = HeldBy(h2, s) /\ x # None
        BY <1>7, <2>1, <3>2
      <4>2. Type(h, s) \in {"table", "redirect"} /\ x \in Sections(h) /\ (s < x \/ Type(h, x) = Untyped)
        BY <4>1 DEF Forest, Helds
      <4>3. QED
        BY <1>7, <4>1, <4>2
    <3>3. QED
      BY <3>1, <3>2
  <2>2. QED
    BY <1>6, <2>1 DEF Helds
<1>16. HeldOnce(h2)
  <2>1. \A s \in Sections(h) : HeldBy(h, s) # t /\ t \notin Entries(h, s)
    BY <1>10 DEF Child
  <2>2. QED
    BY <1>6, <1>7, <1>8, <2>1 DEF Forest, HeldOnce
<1>17. QED
  BY <1>5, <1>6, <1>7, <1>11, <1>12, <1>13, <1>14, <1>15, <1>16 DEF Follows, Forest

(* An open link that is free gets its type.                                *)
LEMMA LinkFollows ==
  ASSUME NEW h, IsHeap(h), NEW gone, Forest(h, gone), NEW sec, Root(h, sec), Type(h, sec) = Untyped,
         NEW h2, h2 = [h EXCEPT !.node[sec].type = "internal_link"]
  PROVE  /\ Follows(h, h2, gone, sec) /\ Sections(h2) = Sections(h) /\ Root(h2, sec)
         /\ Type(h2, sec) = "internal_link"
<1>1. PICK q : q = h.node[sec]
  OBVIOUS
<1>2. PICK r : r = [q EXCEPT !.type = "internal_link"]
  OBVIOUS
<1>3. sec \in Sections(h) /\ \A s \in Sections(h) : ~Child(h, s, sec)
  BY DEF Root
<1>4. Node(r) /\ r.type = "internal_link" /\ r.held = HeldBy(h, sec)
  <2>1. Node(q)
    BY <1>1, <1>3 DEF IsHeap
  <2>2. r = [type |-> "internal_link", text |-> q.text, alias |-> q.alias, held |-> q.held]
    BY <1>2, <2>1, NodeFields
  <2>3. QED
    BY <1>1, <2>2 DEF Node, HeldBy
<1>5. h2 = Renoded(h, sec, r)
  <2>1. h = [node |-> h.node, list |-> h.list]
    BY DEF IsHeap
  <2>2. QED
    BY <1>1, <1>2, <2>1 DEF Renoded, Replaced
<1>6. /\ IsHeap(h2) /\ Len(h2.node) = Len(h.node) /\ h2.list = h.list
      /\ \A s \in Sections(h) : h2.node[s] = IF s = sec THEN r ELSE h.node[s]
  <2>1. sec \in Sections(h) => Node(r)
    BY <1>4
  <2>2. NodeIs(h, h2, sec, r)
    BY <1>5, <2>1, NodeReplaced, Zenon
  <2>3. QED
    BY <2>2 DEF NodeIs
<1>7. Sections(h2) = Sections(h)
  BY <1>6 DEF Sections
<1>8. /\ \A s \in Sections(h) : HeldBy(h2, s) = HeldBy(h, s)
      /\ \A s \in Sections(h) : Type(h2, s) = IF s = sec THEN "internal_link" ELSE Type(h, s)
  BY <1>4, <1>6 DEF Type, HeldBy
<1>9. /\ \A s : Entries(h2, s) = Entries(h, s)
      /\ \A s, i, x : At(h2, s, i, x) = At(h, s, i, x)
  BY <1>6 DEF Entries, At
<1>10. \A s \in Sections(h) : \A x : Child(h2, s, x) = Child(h, s, x)
  BY <1>8, <1>9 DEF Child
<1>11. \A s : Root(h2, s) = Root(h, s)
  BY <1>7, <1>10 DEF Root
<1>12. Grown(h, h2, sec)
  BY <1>7, <1>8, <1>9, <1>11 DEF Grown
<1>13. Whole(h2, gone)
  BY <1>7, <1>10 DEF Forest, Whole
<1>14. ListedOnce(h2)
  BY <1>7, <1>9 DEF Forest, ListedOnce
<1>15. Entries(h, sec) = {} /\ HeldBy(h, sec) = None
  <2>1. Untyped \notin {"template", "image", "table", "row", "tree", "key_value", "external_link", "ref",
                       "heading", "table_caption", "cell", "redirect"}
    BY Zenon DEF Untyped
  <2>2. Holds(Untyped) = {}
    BY <2>1 DEF Holds
  <2>3. \A x : x \notin Entries(h, sec)
    BY <1>3, <2>2 DEF Forest, Lists
  <2>4. HeldBy(h, sec) = None
    BY <1>3, <2>1 DEF Forest, Helds
  <2>5. QED
    BY <2>3, <2>4, Zenon
<1>16. Lists(h2)
  <2>1. ASSUME NEW s \in Sections(h), NEW x \in Entries(h, s)
        PROVE  x \in Sections(h) /\ Type(h2, x) \in Holds(Type(h2, s)) /\ s < x
    <3>1. s # sec /\ x # sec
      BY <1>3, <1>15, <2>1 DEF Child
    <3>2. x \in Sections(h) /\ Type(h, x) \in Holds(Type(h, s)) /\ s < x
      BY DEF Forest, Lists
    <3>3. QED
      BY <1>8, <3>1, <3>2
  <2>2. QED
    BY <1>7, <1>9, <2>1 DEF Lists
<1>17. Helds(h2)
  <2>1. ASSUME NEW s \in Sections(h), HeldBy(h2, s) # None
        PROVE  /\ Type(h2, s) \in {"table", "redirect"} /\ HeldBy(h2, s) \in Sections(h)
               /\ s < HeldBy(h2, s) \/ Type(h2, HeldBy(h2, s)) = Untyped
    <3>1. PICK x : x = HeldBy(h, s) /\ x = HeldBy(h2, s) /\ x # None
      BY <1>8, <2>1
    <3>2. Type(h, s) \in {"table", "redirect"} /\ x \in Sections(h) /\ (s < x \/ Type(h, x) = Untyped)
      BY <3>1 DEF Forest, Helds
    <3>3. s # sec /\ x # sec
      BY <1>3, <1>15, <3>1 DEF Child
    <3>4. QED
      BY <1>8, <3>1, <3>2, <3>3
  <2>2. QED
    BY <1>7, <2>1 DEF Helds
<1>18. HeldOnce(h2)
  BY <1>7, <1>8, <1>9 DEF Forest, HeldOnce
<1>19. QED
  BY <1>3, <1>6, <1>7, <1>8, <1>11, <1>12, <1>13, <1>14, <1>16, <1>17, <1>18 DEF Follows, Forest

-----------------------------------------------------------------------------
(* The contexts and the sections they build.                               *)

(* Four contexts build no section.  The others build one of the kind       *)
(* SectionOf (Builds); what is found inside goes to the list of that       *)
(* section (HasOwnList), or to a list that is older than the section.      *)
Sectionless == {"ROOT", "INTERNAL_LINK_ANCHOR_TEXT", "VALUE", "EXTERNAL_LINK_VALUE"}
SectionOf(type) ==
  CASE type = "IMAGE" -> "image" [] type = "INTERNAL_LINK" -> Untyped
    [] type = "EXTERNAL_LINK" -> "external_link" [] type = "TEMPLATE" -> "template"
    [] type = "PARAMETER" -> "key_value" [] type = "REF" -> "ref" [] type = "HEADING" -> "heading"
    [] type = "CATEGORY_LINK" -> "category" [] type = "LANGUAGE_LINK" -> "language_link"
    [] type = "TABLE" -> "table" [] type = "TABLE_CAPTION" -> "table_caption"
    [] type = "TABLE_ROW" -> "row" [] type = "TABLE_CELL" -> "cell" [] type = "NOWIKI" -> "text"
    [] type = "PRE" -> "pre" [] type = "MATH" -> "math" [] type = "SOURCE" -> "source"
    [] type = "GALLERY" -> "gallery"
Collects(h, list) == list \in Sections(h) /\ Holds(Type(h, list)) = InlineSection
Builds(h, gone, type, sec) ==
  /\ sec \in Sections(h) /\ sec \notin gone /\ Type(h, sec) = SectionOf(type)
  /\ type # "PARAMETER" => Root(h, sec)
PassesOn(type, f) == IF HasOwnList(type) THEN f.list = f.section ELSE f.list < f.section
FrameOK(h, gone, type, f) ==
  /\ Collects(h, f.list)
  /\ type \in Sectionless => f.section = None
  /\ type \notin Sectionless => Builds(h, gone, type, f.section) /\ PassesOn(type, f)
(* A context's section is newer than all that the contexts below it know,  *)
(* so no context below holds it or lists what is inside it.  A parameter's *)
(* key_value alone is listed from the start, by the section below.         *)
Before(f, sec) == f.list < sec /\ f.section < sec
Ordered(fr, n) ==
  \A e \in 1 .. n : fr[e].section # None => \A d \in 1 .. e - 1 : Before(fr[d], fr[e].section)
Rests(h, type, f, below) ==
  /\ type = "PARAMETER" => f.section \in Entries(h, below.section)
  /\ type = "INTERNAL_LINK_ANCHOR_TEXT" => f.list = below.list
Linked(h, s, fr) == \A d \in 2 .. Len(s) : Rests(h, s[d], fr[d], fr[d - 1])

Frame(f) ==
  f = [section |-> f.section, list |-> f.list, start |-> f.start, stop |-> f.stop, tok |-> f.tok,
       params |-> f.params, newline |-> f.newline]
Framed(s, fr) ==
  Nested(s) /\ IsSequence(fr) /\ Len(fr) = Len(s) /\ \A d \in 1 .. Len(s) : Frame(fr[d])
Sound(h, gone) == IsHeap(h) /\ Forest(h, gone) /\ Root(h, 1) /\ 1 \notin gone
FramesOK(h, gone, s, fr) == \A d \in 1 .. Len(s) : FrameOK(h, gone, s[d], fr[d])
(* The heap is a forest rooted in the tree and in the open contexts.       *)
Kept(h, gone, s, fr) ==
  /\ Sound(h, gone) /\ Framed(s, fr)
  /\ FramesOK(h, gone, s, fr) /\ Ordered(fr, Len(s)) /\ Linked(h, s, fr)
Good(m, gone) ==
  /\ m = [heap |-> m.heap, stack |-> m.stack, frames |-> m.frames]
  /\ Kept(m.heap, gone, m.stack, m.frames)

(* A section that is finished: no context holds it any more.               *)
Loose(h, gone, s, fr, x) ==
  /\ Root(h, x) /\ x \notin gone /\ x # 1
  /\ \A d \in 1 .. Len(s) : Before(fr[d], x)

LEMMA FramesBasics ==
  ASSUME NEW h, NEW gone, NEW s, NEW fr, Kept(h, gone, s, fr)
  PROVE  /\ Len(s) \in Nat /\ Sections(h) \subseteq Nat \ {0}
         /\ \A d \in 1 .. Len(s) :
              /\ fr[d].list \in Sections(h) /\ fr[d].section \in Sections(h) \cup {0}
              /\ fr[d].section = None \/ fr[d].section \in Sections(h)
<1>1. Len(s) \in Nat
  BY DEF Kept, Framed, Nested
<1>2. Sections(h) \subseteq Nat \ {0}
  BY HeapBasics DEF Kept, Sound, Sections
<1>3. ASSUME NEW d \in 1 .. Len(s)
      PROVE  /\ fr[d].list \in Sections(h)
             /\ fr[d].section = None \/ fr[d].section \in Sections(h)
  <2>1. FrameOK(h, gone, s[d], fr[d])
    BY DEF Kept, FramesOK
  <2>2. QED
    BY <2>1 DEF FrameOK, Collects, Builds
<1>4. QED
  BY <1>1, <1>2, <1>3 DEF None

(* A change of the heap.                                                   *)
Apart(s, fr, x) == x = None \/ (x # 1 /\ \A d \in 1 .. Len(s) : Before(fr[d], x))

LEMMA HeapGrows ==
  ASSUME NEW h, NEW gone, NEW s, NEW fr, Kept(h, gone, s, fr), NEW h2, NEW x,
         Follows(h, h2, gone, x), Apart(s, fr, x), x \in Nat
  PROVE  Kept(h2, gone, s, fr)
<1>1. Grown(h, h2, x) /\ IsHeap(h2) /\ Forest(h2, gone)
  BY DEF Follows
<1>2. ASSUME NEW d \in 1 .. Len(s)
      PROVE  fr[d].list # x /\ (fr[d].section # x \/ fr[d].section = None)
  BY <1>2, FramesBasics DEF Apart, Before, None
<1>3. \A t \in Sections(h) \ {x} :
        /\ t \in Sections(h2) /\ Type(h2, t) = Type(h, t) /\ Entries(h, t) \subseteq Entries(h2, t)
        /\ Root(h, t) => Root(h2, t)
  BY <1>1 DEF Grown
<1>4. Sound(h2, gone)
  <2>1. 1 \in Sections(h) \ {x}
    BY DEF Kept, Sound, Root, Apart, None
  <2>2. QED
    BY <1>1, <1>3, <2>1 DEF Kept, Sound
<1>5. ASSUME NEW d \in 1 .. Len(s) PROVE FrameOK(h2, gone, s[d], fr[d])
  <2>1. PICK type, f, sec, list : type = s[d] /\ f = fr[d] /\ sec = f.section /\ list = f.list
    OBVIOUS
  <2>2. FrameOK(h, gone, type, f)
    BY <2>1 DEF Kept, FramesOK
  <2>3. Collects(h2, list)
    BY <1>2, <1>3, <2>1, <2>2 DEF FrameOK, Collects
  <2>4. ASSUME Builds(h, gone, type, sec) PROVE Builds(h2, gone, type, sec)
    <3>1. sec \in Sections(h) \ {x}
      BY <1>2, <2>1, <2>4, FramesBasics DEF Builds, None
    <3>2. QED
      BY <1>3, <2>4, <3>1 DEF Builds
  <2>5. FrameOK(h2, gone, type, f)
    BY <2>1, <2>2, <2>3, <2>4 DEF FrameOK
  <2>6. QED
    BY <2>1, <2>5
<1>6. ASSUME NEW d \in 2 .. Len(s) PROVE Rests(h2, s[d], fr[d], fr[d - 1])
  <2>1. d - 1 \in 1 .. Len(s) /\ Rests(h, s[d], fr[d], fr[d - 1])
    BY FramesBasics DEF Kept, Linked
  <2>2. PICK f, g : f = fr[d] /\ g = fr[d - 1]
    OBVIOUS
  <2>3. ASSUME f.section \in Entries(h, g.section), s[d] = "PARAMETER"
        PROVE  f.section \in Entries(h2, g.section)
    <3>1. g.section \in Sections(h) \ {x}
      <4>1. s[d - 1] \in {"TEMPLATE", "IMAGE"}
        BY <2>3, UnderEach DEF Kept, Framed, Nested
      <4>2. FrameOK(h, gone, s[d - 1], g)
        BY <2>1, <2>2 DEF Kept, FramesOK
      <4>3. g.section \in Sections(h)
        BY <4>1, <4>2 DEF FrameOK, Builds, Sectionless
      <4>4. QED
        BY <1>2, <2>1, <2>2, <4>3, FramesBasics DEF None
    <3>2. QED
      BY <1>3, <2>3, <3>1
  <2>4. Rests(h2, s[d], f, g)
    BY <2>1, <2>2, <2>3 DEF Rests
  <2>5. QED
    BY <2>2, <2>4
<1>7. QED
  BY <1>4, <1>5, <1>6 DEF Kept, FramesOK, Linked

(* Contexts are popped, and their sections are loose.                      *)
LEMMA FramesPopped ==
  ASSUME NEW h, NEW gone, NEW s, NEW fr, Kept(h, gone, s, fr), NEW n \in 0 .. Len(s)
  PROVE  Kept(h, gone, Below(s, n), Below(fr, n)) /\ Len(Below(s, n)) = Len(s) - n
<1> DEFINE k == Len(s) - n
<1>1. Nested(s) /\ Len(s) \in Nat /\ Len(fr) = Len(s) /\ IsSequence(fr) /\ k \in Nat /\ k <= Len(s)
  BY FramesBasics DEF Kept, Framed
<1>2. PICK S : fr \in Seq(S)
  BY <1>1 DEF IsSequence
<1>3. PICK b, g : b = Below(s, n) /\ g = Below(fr, n)
  OBVIOUS
<1>4. Nested(b) /\ Len(b) = k /\ \A d \in 1 .. k : b[d] = s[d]
  <2>1. s \in Seq(Context)
    BY <1>1 DEF Nested
  <2>2. QED
    BY <1>1, <1>3, <2>1, BelowIsPrefix, BelowIsNested
<1>5. g \in Seq(S) /\ Len(g) = k /\ \A d \in 1 .. k : g[d] = fr[d]
  BY <1>1, <1>2, <1>3, BelowIsPrefix
<1>6. \A d \in 1 .. k : d \in 1 .. Len(s)
  BY <1>1
<1>7. Framed(b, g)
  BY <1>4, <1>5, <1>6 DEF Kept, Framed, IsSequence
<1>8. FramesOK(h, gone, b, g)
  BY <1>4, <1>5, <1>6 DEF Kept, FramesOK
<1>9. Ordered(g, Len(b))
  <2>1. \A e \in 1 .. k : \A d \in 1 .. e - 1 : d \in 1 .. k
    BY <1>1
  <2>2. Ordered(fr, Len(s))
    BY DEF Kept
  <2>3. QED
    BY <1>4, <1>5, <1>6, <2>1, <2>2 DEF Ordered
<1>10. Linked(h, b, g)
  <2>1. \A d \in 2 .. k : d \in 1 .. k /\ d - 1 \in 1 .. k /\ d \in 2 .. Len(s)
    BY <1>1
  <2>2. QED
    BY <1>4, <1>5, <2>1 DEF Kept, Linked
<1>11. QED
  BY <1>3, <1>4, <1>7, <1>8, <1>9, <1>10 DEF Kept

LEMMA PoppedIsLoose ==
  ASSUME NEW h, NEW gone, NEW s, NEW fr, Kept(h, gone, s, fr), NEW n \in 1 .. Len(s), Len(s) - n > 0,
         NEW sec, sec = fr[Len(s) - n + 1].section,
         s[Len(s) - n + 1] \notin Sectionless, s[Len(s) - n + 1] # "PARAMETER"
  PROVE  Loose(h, gone, Below(s, n), Below(fr, n), sec)
<1> DEFINE k == Len(s) - n
<1>1. Nested(s) /\ Len(s) \in Nat /\ Len(fr) = Len(s) /\ IsSequence(fr) /\ k \in Nat
      /\ k + 1 \in 1 .. Len(s) /\ n \in 0 .. Len(s)
  BY FramesBasics DEF Kept, Framed
<1>2. PICK S : fr \in Seq(S)
  BY <1>1 DEF IsSequence
<1>3. Len(Below(s, n)) = k /\ \A d \in 1 .. k : Below(fr, n)[d] = fr[d]
  <2>1. s \in Seq(Context)
    BY <1>1 DEF Nested
  <2>2. QED
    BY <1>1, <1>2, <2>1, BelowIsPrefix
<1>4. FrameOK(h, gone, s[k + 1], fr[k + 1])
  BY <1>1 DEF Kept, FramesOK
<1>5. Root(h, sec) /\ sec \notin gone
  BY <1>4 DEF FrameOK, Builds
<1>6. sec # None
  BY <1>5, HeapBasics DEF Root, None, Kept, Sound, Sections
<1>7. \A d \in 1 .. k : Before(fr[d], sec)
  BY <1>1, <1>6 DEF Kept, Ordered
<1>8. sec # 1
  <2>1. 1 \in 1 .. k
    BY <1>1
  <2>2. fr[1].list \in Nat \ {0} /\ fr[1].list < sec
    BY <1>1, <1>7, <2>1, FramesBasics DEF Before
  <2>3. QED
    BY <2>2
<1>9. QED
  BY <1>3, <1>5, <1>7, <1>8 DEF Loose

(* A context is pushed.                                                    *)
Tops(s, fr, sec) == sec # None => \A d \in 1 .. Len(s) : Before(fr[d], sec)
LEMMA FramePushed ==
  ASSUME NEW h, NEW gone, NEW s, NEW fr, Kept(h, gone, s, fr), NEW type, Takes(s, type),
         NEW f, Frame(f), FrameOK(h, gone, type, f), Rests(h, type, f, fr[Len(s)]),
         Tops(s, fr, f.section)
  PROVE  Kept(h, gone, Append(s, type), Append(fr, f))
<1> DEFINE k == Len(s)
<1>1. PICK b, g : b = Append(s, type) /\ g = Append(fr, f)
  OBVIOUS
<1>2. Nested(s) /\ k \in Nat /\ k > 0 /\ Len(fr) = k /\ IsSequence(fr) /\ s \in Seq(Context)
  BY FramesBasics DEF Kept, Framed, Takes, Nested
<1>3. Nested(b) /\ Len(b) = k + 1 /\ b[k + 1] = type /\ \A d \in 1 .. k : b[d] = s[d]
  <2>1. IsSequence(s)
    BY <1>2 DEF IsSequence
  <2>2. QED
    BY <1>1, <1>2, <2>1, PushIsNested, AppendedSequence
<1>4. IsSequence(g) /\ Len(g) = k + 1 /\ g[k + 1] = f /\ \A d \in 1 .. k : g[d] = fr[d]
  BY <1>1, <1>2, AppendedSequence
<1>5. \A d \in 1 .. k + 1 : d \in 1 .. k \/ d = k + 1
  BY <1>2
<1>6. Framed(b, g)
  <2>1. \A d \in 1 .. k : Frame(g[d])
    BY <1>4 DEF Kept, Framed
  <2>2. QED
    BY <1>3, <1>4, <1>5, <2>1 DEF Framed
<1>7. FramesOK(h, gone, b, g)
  <2>1. \A d \in 1 .. k : FrameOK(h, gone, b[d], g[d])
    BY <1>3, <1>4 DEF Kept, FramesOK
  <2>2. QED
    BY <1>3, <1>4, <1>5, <2>1 DEF FramesOK
<1>8. Ordered(g, Len(b))
  <2>1. ASSUME NEW e \in 1 .. k + 1, g[e].section # None, NEW d \in 1 .. e - 1
        PROVE  Before(g[d], g[e].section)
    <3>1. d \in 1 .. k /\ g[d] = fr[d]
      BY <1>2, <1>4, <1>5
    <3>2. CASE e = k + 1
      BY <1>4, <2>1, <3>1, <3>2 DEF Tops
    <3>3. CASE e \in 1 .. k
      BY <1>4, <2>1, <3>1, <3>3 DEF Kept, Ordered
    <3>4. QED
      BY <1>5, <3>2, <3>3
  <2>2. QED
    BY <1>3, <2>1 DEF Ordered
<1>9. Linked(h, b, g)
  <2>1. ASSUME NEW d \in 2 .. k + 1 PROVE Rests(h, b[d], g[d], g[d - 1])
    <3>1. CASE d = k + 1
      BY <1>2, <1>3, <1>4, <3>1
    <3>2. CASE d # k + 1
      <4>1. d \in 2 .. k /\ d \in 1 .. k /\ d - 1 \in 1 .. k
        BY <1>2, <3>2
      <4>2. QED
        BY <1>3, <1>4, <4>1 DEF Kept, Linked
    <3>3. QED
      BY <3>1, <3>2
  <2>2. QED
    BY <1>3, <2>1 DEF Linked
<1>10. QED
  BY <1>1, <1>6, <1>7, <1>8, <1>9 DEF Kept

(* The other fields of the context on top do not matter.                   *)
LEMMA FrameReset ==
  ASSUME NEW h, NEW gone, NEW s, NEW fr, Kept(h, gone, s, fr), NEW f, Frame(f),
         f.section = fr[Len(s)].section, f.list = fr[Len(s)].list
  PROVE  Kept(h, gone, s, Replaced(fr, Len(s), f))
<1> DEFINE k == Len(s)
<1>1. k \in Nat /\ IsSequence(fr) /\ Len(fr) = k
  BY FramesBasics DEF Kept, Framed
<1>2. PICK g : g = Replaced(fr, k, f)
  OBVIOUS
<1>3. IsSequence(g) /\ Len(g) = k /\ \A d \in 1 .. k : g[d] = IF d = k THEN f ELSE fr[d]
  BY <1>1, <1>2, ReplacedInSequence
<1>4. \A d \in 1 .. k : g[d].section = fr[d].section /\ g[d].list = fr[d].list /\ Frame(g[d])
  BY <1>3 DEF Kept, Framed
<1>5. Framed(s, g)
  BY <1>3, <1>4 DEF Kept, Framed
<1>6. FramesOK(h, gone, s, g)
  <2>1. ASSUME NEW d \in 1 .. k PROVE FrameOK(h, gone, s[d], g[d])
    BY <1>4 DEF Kept, FramesOK, FrameOK, PassesOn
  <2>2. QED
    BY <2>1 DEF FramesOK
<1>7. Ordered(g, k)
  <2>1. \A e \in 1 .. k : \A d \in 1 .. e - 1 : d \in 1 .. k
    BY <1>1
  <2>2. QED
    BY <1>4, <2>1 DEF Kept, Ordered, Before
<1>8. Linked(h, s, g)
  <2>1. \A d \in 2 .. k : d \in 1 .. k /\ d - 1 \in 1 .. k
    BY <1>1
  <2>2. QED
    BY <1>4, <2>1 DEF Kept, Linked, Rests
<1>9. QED
  BY <1>2, <1>5, <1>6, <1>7, <1>8 DEF Kept

(* A section has one owner.                                                *)
LEMMA OneOwner ==
  ASSUME NEW h, NEW gone, IsHeap(h), Forest(h, gone), NEW t, NEW s \in Sections(h), NEW u \in Sections(h),
         Child(h, s, t), Child(h, u, t)
  PROVE  s = u
<1>1. ASSUME t \in Entries(h, s), t \in Entries(h, u) PROVE s = u
  <2>1. PICK i, j : At(h, s, i, t) /\ At(h, u, j, t)
    BY <1>1 DEF Entries, At
  <2>2. QED
    BY <2>1 DEF Forest, ListedOnce
<1>2. ASSUME HeldBy(h, s) # None, HeldBy(h, s) = t PROVE s = u
  BY <1>2 DEF Forest, HeldOnce, Child
<1>3. ASSUME HeldBy(h, u) # None, HeldBy(h, u) = t PROVE s = u
  BY <1>3 DEF Forest, HeldOnce, Child
<1>4. QED
  BY <1>1, <1>2, <1>3 DEF Child

(* What is reached from a section that is free is reached only through it. *)
LEMMA RootIsReachedFromItself ==
  ASSUME NEW h, NEW x, Root(h, x), NEW y, Root(h, y), y \in Reach(h, x)
  PROVE  y = x
<1>1. x \in Sections(h)
  BY DEF Root
<1>2. y # x => \E u \in Reach(h, x) : Child(h, u, y)
  BY <1>1, ReachedFromReached
<1>3. \A u \in Reach(h, x) : ~Child(h, u, y)
  BY <1>1, ReachIsClosed DEF Root
<1>4. QED
  BY <1>2, <1>3

LEMMA ReachIsWhole ==
  ASSUME NEW h, NEW gone, IsHeap(h), Forest(h, gone), NEW x, Root(h, x)
  PROVE  Forest(h, gone \cup {x}) /\ Forest(h, gone \cup Reach(h, x))
<1>1. x \in Sections(h) /\ \A u \in Sections(h) : ~Child(h, u, x)
  BY DEF Root
<1>2. Reach(h, x) \subseteq Sections(h) /\ x \in Reach(h, x)
  BY <1>1, ReachIsClosed
<1>3. Whole(h, gone \cup {x})
  BY <1>1 DEF Forest, Whole
<1>4. PICK C : C = gone \cup Reach(h, x)
  OBVIOUS
<1>5. ASSUME NEW s \in Sections(h), s \notin C, NEW t \in C, Child(h, s, t) PROVE FALSE
  <2>1. t \in Reach(h, x)
    BY <1>4, <1>5 DEF Forest, Whole
  <2>2. t # x
    BY <1>1, <1>5
  <2>3. PICK u \in Reach(h, x) : Child(h, u, t)
    BY <1>1, <2>1, <2>2, ReachedFromReached
  <2>4. u \in Sections(h)
    BY <1>2
  <2>5. s = u
    BY <1>5, <2>3, <2>4, OneOwner
  <2>6. QED
    BY <1>4, <1>5, <2>3, <2>5
<1>6. Whole(h, C)
  BY <1>2, <1>4, <1>5 DEF Forest, Whole
<1>7. QED
  BY <1>3, <1>4, <1>6 DEF Forest

(* A loose section is freed, alone or with all it owns.                    *)
LEMMA LooseIsFreed ==
  ASSUME NEW h, NEW gone, NEW s, NEW fr, Kept(h, gone, s, fr), NEW x, Loose(h, gone, s, fr, x),
         NEW more \in {{x}, Reach(h, x)}
  PROVE  Kept(h, gone \cup more, s, fr)
<1>1. IsHeap(h) /\ Forest(h, gone) /\ Root(h, 1) /\ 1 \notin gone /\ Root(h, x) /\ x # 1
  BY DEF Kept, Sound, Loose
<1>2. Forest(h, gone \cup more)
  BY <1>1, ReachIsWhole
<1>3. x \in Sections(h) /\ more \subseteq Reach(h, x)
  BY <1>1, ReachIsClosed DEF Root
<1>4. \A y : Root(h, y) /\ y # x => y \notin more
  BY <1>1, <1>3, RootIsReachedFromItself
<1>5. Sound(h, gone \cup more)
  BY <1>1, <1>2, <1>4 DEF Sound
<1>6. ASSUME NEW d \in 1 .. Len(s) PROVE fr[d].section # x
  BY FramesBasics DEF Loose, Before
<1>7. ASSUME NEW d \in 1 .. Len(s), s[d] \notin Sectionless PROVE fr[d].section \notin more
  <2>1. Builds(h, gone, s[d], fr[d].section)
    BY <1>7 DEF Kept, FramesOK, FrameOK
  <2>2. CASE s[d] # "PARAMETER"
    BY <1>4, <1>6, <2>1, <2>2 DEF Builds
  <2>3. CASE s[d] = "PARAMETER"
    <3>1. d \in 2 .. Len(s) /\ d - 1 \in 1 .. Len(s) /\ s[d - 1] \in {"TEMPLATE", "IMAGE"}
      BY <2>3, FramesBasics, RestsOn, UnderEach DEF Kept, Framed
    <3>2. PICK kv, p : kv = fr[d].section /\ p = fr[d - 1].section
      OBVIOUS
    <3>3. kv \in Entries(h, p)
      BY <2>3, <3>1, <3>2 DEF Kept, Linked, Rests
    <3>4. Builds(h, gone, s[d - 1], p)
      BY <3>1, <3>2 DEF Kept, FramesOK, FrameOK, Sectionless
    <3>5. p \in Sections(h) /\ Root(h, p) /\ p # x
      BY <1>6, <3>1, <3>2, <3>4 DEF Builds
    <3>6. ASSUME kv \in Reach(h, x) PROVE FALSE
      <4>1. kv # x
        BY <1>6, <3>2
      <4>2. PICK u \in Reach(h, x) : Child(h, u, kv)
        BY <1>3, <3>6, <4>1, ReachedFromReached
      <4>3. u \in Sections(h) /\ Child(h, p, kv)
        BY <1>3, <3>3, ReachIsClosed DEF Child
      <4>4. u = p
        BY <1>1, <3>5, <4>2, <4>3, OneOwner
      <4>5. QED
        BY <1>1, <3>5, <4>2, <4>4, RootIsReachedFromItself
    <3>7. QED
      BY <1>3, <3>2, <3>6
  <2>4. QED
    BY <2>2, <2>3
<1>8. ASSUME NEW d \in 1 .. Len(s) PROVE FrameOK(h, gone \cup more, s[d], fr[d])
  <2>1. FrameOK(h, gone, s[d], fr[d])
    BY DEF Kept, FramesOK
  <2>2. QED
    BY <1>7, <2>1 DEF FrameOK, Builds
<1>9. QED
  BY <1>5, <1>8 DEF Kept, FramesOK

-----------------------------------------------------------------------------
(* What the helpers of the handlers do to the sections.                    *)

LEMMA BuiltIsListed ==
  ASSUME NEW h, NEW gone, IsHeap(h), Forest(h, gone), NEW list \in Sections(h), NEW type,
         type \in Holds(Type(h, list)), NEW h1, h1 = Build(h, type), NEW h2, Retold(h1, h2) \/ h2 = h1,
         NEW new, new = Fresh(h), NEW h3, h3 = AppendSection(h2, list, new)
  PROVE  /\ Follows(h, h3, gone, None) /\ new \in Entries(h3, list) /\ Type(h3, new) = type
         /\ new \in Sections(h3) /\ new \notin gone /\ \A s \in Sections(h) : s < new
<1>1. /\ Follows(h, h1, gone, None) /\ Sections(h1) = Sections(h) \cup {new}
      /\ Root(h1, new) /\ Type(h1, new) = type /\ new \notin gone
      /\ new \in Nat /\ \A s \in Sections(h) : s < new
  BY BuildFollows
<1>2. Sections(h) \subseteq Nat \ {0} /\ new \notin Sections(h) /\ new # None
  BY <1>1, HeapBasics DEF Sections, None
<1>3. IsHeap(h1) /\ Forest(h1, gone) /\ Grown(h, h1, None)
  BY <1>1 DEF Follows
<1>4. IsHeap(h2) /\ Forest(h2, gone) /\ Sections(h2) = Sections(h1) /\ Root(h2, new)
      /\ \A s \in Sections(h1) : /\ Type(h2, s) = Type(h1, s) /\ Entries(h2, s) = Entries(h1, s)
                                 /\ Root(h1, s) => Root(h2, s)
  <2>1. CASE h2 = h1
    BY <1>1, <1>3, <2>1
  <2>2. CASE Retold(h1, h2)
    <3>1. Follows(h1, h2, gone, None)
      BY <1>3, <2>2, RetoldFollows
    <3>2. Sections(h2) = Sections(h1) /\ \A s \in Sections(h1) : Entries(h2, s) = Entries(h1, s)
      BY <2>2 DEF Retold, Sections, Entries
    <3>3. \A s \in Sections(h1) : s # None
      BY <1>1, <1>2 DEF None
    <3>4. QED
      BY <1>1, <3>1, <3>2, <3>3 DEF Follows, Grown
  <2>3. QED
    BY <2>1, <2>2
<1>5. list \in Sections(h2) /\ list < new /\ list # None
  BY <1>1, <1>2, <1>4 DEF None
<1>6. Type(h2, list) = Type(h, list) /\ Type(h2, new) = type
  BY <1>1, <1>3, <1>4, <1>5 DEF Grown
<1>7. Type(h2, new) \in Holds(Type(h2, list))
  BY <1>6
<1>8. /\ Follows(h2, h3, gone, new) /\ Sections(h3) = Sections(h2)
      /\ \A s \in Sections(h2) : Type(h3, s) = Type(h2, s)
      /\ new \in Entries(h3, list)
  BY <1>1, <1>4, <1>5, <1>7, ListFollows
<1>9. IsHeap(h3) /\ Forest(h3, gone) /\ Grown(h2, h3, new)
  BY <1>8 DEF Follows
<1>10. Grown(h, h3, None)
  <2>1. \A s \in Sections(h) \ {None} :
          /\ s \in Sections(h1) /\ Type(h1, s) = Type(h, s) /\ Entries(h, s) \subseteq Entries(h1, s)
          /\ Root(h, s) => Root(h1, s)
    BY <1>3 DEF Grown
  <2>2. \A s \in Sections(h2) \ {new} :
          /\ Type(h3, s) = Type(h2, s) /\ Entries(h2, s) \subseteq Entries(h3, s)
          /\ Root(h2, s) => Root(h3, s)
    BY <1>9 DEF Grown
  <2>3. Sections(h) \subseteq Sections(h3)
    BY <1>1, <1>4, <1>8
  <2>4. ASSUME NEW s \in Sections(h) \ {None}
        PROVE  /\ Type(h3, s) = Type(h, s) /\ Entries(h, s) \subseteq Entries(h3, s)
               /\ Root(h, s) => Root(h3, s)
    <3>1. s \in Sections(h2) \ {new} /\ s \in Sections(h1)
      BY <1>1, <1>2, <1>4
    <3>2. QED
      BY <1>4, <2>1, <2>2, <2>4, <3>1
  <2>5. QED
    BY <2>3, <2>4 DEF Grown
<1>11. QED
  BY <1>1, <1>4, <1>6, <1>8, <1>9, <1>10 DEF Follows

LEMMA TextFollows ==
  ASSUME NEW h, NEW gone, IsHeap(h), Forest(h, gone), NEW type, NEW f, Collects(h, f.list), NEW begin, NEW end,
         NEW h3, h3 = AppendText(h, type, f, begin, end)
  PROVE  h3 = h \/ Follows(h, h3, gone, None)
<1>1. PICK text : text = IF TrimsWhitespace(type) THEN Strip(Str(begin, end)) ELSE Str(begin, end)
  OBVIOUS
<1>2. PICK new : new = Fresh(h)
  OBVIOUS
<1>3. PICK h1 : h1 = Build(h, "text")
  OBVIOUS
<1>4. PICK h2 : h2 = SetText(h1, new, text)
  OBVIOUS
<1>5. h3 = h \/ h3 = AppendSection(h2, f.list, new)
  BY <1>1, <1>2, <1>3, <1>4, Zenon DEF AppendText
<1>6. ASSUME h3 = AppendSection(h2, f.list, new) PROVE Follows(h, h3, gone, None)
  <2>1. IsHeap(h1)
    BY <1>3, BuildFollows DEF Follows
  <2>2. Retold(h1, h2)
    BY <1>4, <2>1, TextIsSet, Zenon
  <2>3. PICK list : list = f.list
    OBVIOUS
  <2>4. list \in Sections(h) /\ "text" \in Holds(Type(h, list))
    BY <2>3 DEF Collects, InlineSection
  <2>5. QED
    BY <1>2, <1>3, <1>6, <2>2, <2>3, <2>4, BuiltIsListed
<1>7. QED
  BY <1>5, <1>6

(* The same contexts, up to fields that do not matter.                     *)
Alike(fr, g) ==
  Len(g) = Len(fr) /\ \A d \in 1 .. Len(fr) : g[d].section = fr[d].section /\ g[d].list = fr[d].list
Parts(m, h, s, fr) == m = [heap |-> h, stack |-> s, frames |-> fr]
Same(m, m2) == m2.stack = m.stack /\ Alike(m.frames, m2.frames)

LEMMA GoodParts ==
  ASSUME NEW h, NEW s, NEW fr, NEW gone, Kept(h, gone, s, fr), NEW m, Parts(m, h, s, fr)
  PROVE  Good(m, gone) /\ m.heap = h /\ m.stack = s /\ m.frames = fr
BY DEF Good, Parts

LEMMA PartsOf ==
  ASSUME NEW m, NEW gone, Good(m, gone), NEW h, NEW g, NEW s
  PROVE  /\ Parts(m, m.heap, m.stack, m.frames)
         /\ Parts([m EXCEPT !.heap = h], h, m.stack, m.frames)
         /\ Parts([m EXCEPT !.frames = g], m.heap, m.stack, g)
         /\ Parts([m EXCEPT !.stack = s, !.frames = g], m.heap, s, g)
<1>1. m = [heap |-> m.heap, stack |-> m.stack, frames |-> m.frames]
  BY DEF Good
<1>2. Parts([m EXCEPT !.stack = s, !.frames = g], m.heap, s, g)
  BY <1>1, TwoFields DEF Parts
<1>3. Parts([m EXCEPT !.frames = g], m.heap, m.stack, g)
  BY <1>1, OneField DEF Parts
<1>4. Parts([m EXCEPT !.heap = h], h, m.stack, m.frames)
  BY <1>1 DEF Parts
<1>5. QED
  BY <1>1, <1>2, <1>3, <1>4 DEF Parts

LEMMA GoodBasics ==
  ASSUME NEW m, NEW gone, Good(m, gone)
  PROVE  /\ Kept(m.heap, gone, m.stack, m.frames) /\ Len(m.stack) \in Nat
         /\ Len(m.frames) = Len(m.stack) /\ Nested(m.stack) /\ Alike(m.frames, m.frames)
         /\ IsHeap(m.heap) /\ Forest(m.heap, gone) /\ Sections(m.heap) \subseteq Nat \ {0}
<1>1. Kept(m.heap, gone, m.stack, m.frames)
  BY DEF Good
<1>2. QED
  BY <1>1, FramesBasics DEF Kept, Framed, Sound, Alike

LEMMA TopFrame ==
  ASSUME NEW m, NEW gone, Good(m, gone), Len(m.stack) > 0
  PROVE  /\ Len(m.stack) \in 1 .. Len(m.stack) /\ TopOf(m) = m.frames[Len(m.stack)]
         /\ FrameOK(m.heap, gone, m.stack[Len(m.stack)], TopOf(m))
<1>1. Len(m.stack) \in 1 .. Len(m.stack) /\ TopOf(m) = m.frames[Len(m.stack)]
  BY GoodBasics DEF TopOf
<1>2. FramesOK(m.heap, gone, m.stack, m.frames)
  BY GoodBasics DEF Kept
<1>3. QED
  BY <1>1, <1>2 DEF FramesOK

LEMMA HeapChanged ==
  ASSUME NEW m, NEW gone, Good(m, gone), NEW h, h = m.heap \/ Follows(m.heap, h, gone, None),
         NEW m2, m2 = [m EXCEPT !.heap = h]
  PROVE  Good(m2, gone) /\ m2.heap = h /\ m2.stack = m.stack /\ m2.frames = m.frames /\ Same(m, m2)
<1>1. PICK s, fr, h1 : s = m.stack /\ fr = m.frames /\ h1 = m.heap
  OBVIOUS
<1>2. Kept(h1, gone, s, fr) /\ Alike(fr, fr)
  BY <1>1, GoodBasics
<1>3. Kept(h, gone, s, fr)
  <2>1. Apart(s, fr, None) /\ None \in Nat
    BY DEF Apart, None
  <2>2. QED
    BY <1>1, <1>2, <2>1, HeapGrows
<1>4. Parts(m2, h, s, fr)
  BY <1>1, PartsOf, Zenon
<1>5. QED
  BY <1>1, <1>2, <1>3, <1>4, GoodParts DEF Same

LEMMA GoodText ==
  ASSUME NEW m, NEW gone, Good(m, gone), NEW text, NEW m2, m2 = WithText(m, text)
  PROVE  Good(m2, gone) /\ m2.stack = m.stack /\ m2.frames = m.frames /\ Same(m, m2)
<1>1. PICK h : h = SetText(m.heap, TopOf(m).section, text)
  OBVIOUS
<1>2. m2 = [m EXCEPT !.heap = h]
  BY <1>1 DEF WithText
<1>3. Follows(m.heap, h, gone, None)
  BY <1>1, GoodBasics, TextIsSet, RetoldFollows
<1>4. QED
  BY <1>2, <1>3, HeapChanged

LEMMA GoodTextSoFar ==
  ASSUME NEW m, NEW gone, Good(m, gone), Len(m.stack) > 0, NEW m2, m2 = TextSoFar(m)
  PROVE  Good(m2, gone) /\ m2.stack = m.stack /\ m2.frames = m.frames /\ Same(m, m2)
<1>1. PICK type, f, begin : type = m.stack[Len(m.stack)] /\ f = TopOf(m) /\ begin = TopOf(m).start
  OBVIOUS
<1>2. PICK h : h = AppendText(m.heap, type, f, begin, pos)
  OBVIOUS
<1>3. m2 = [m EXCEPT !.heap = h]
  BY <1>1, <1>2 DEF TextSoFar
<1>4. Collects(m.heap, f.list)
  BY <1>1, TopFrame DEF FrameOK
<1>5. h = m.heap \/ Follows(m.heap, h, gone, None)
  BY <1>2, <1>4, GoodBasics, TextFollows
<1>6. QED
  BY <1>3, <1>5, HeapChanged

ResetField(f, field, v) == [f EXCEPT ![field] = v]
LEMMA FieldReset ==
  ASSUME NEW f, Frame(f), NEW v, NEW field \in {"start", "stop", "params", "newline"},
         NEW g, g = ResetField(f, field, v)
  PROVE  Frame(g) /\ g.section = f.section /\ g.list = f.list
<1>1. CASE field = "start"
  BY <1>1 DEF Frame, ResetField
<1>2. CASE field = "stop"
  BY <1>2 DEF Frame, ResetField
<1>3. CASE field = "params"
  BY <1>3 DEF Frame, ResetField
<1>4. CASE field = "newline"
  BY <1>4 DEF Frame, ResetField
<1>5. QED
  BY <1>1, <1>2, <1>3, <1>4

LEMMA GoodSetTop ==
  ASSUME NEW m, NEW gone, Good(m, gone), Len(m.stack) > 0, NEW v,
         NEW field \in {"start", "stop", "params", "newline"}, NEW m2, m2 = SetTop(m, field, v)
  PROVE  Good(m2, gone) /\ Same(m, m2)
<1>1. PICK h, s, fr : h = m.heap /\ s = m.stack /\ fr = m.frames
  OBVIOUS
<1>2. Kept(h, gone, s, fr) /\ Len(s) \in Nat /\ Len(fr) = Len(s) /\ Len(s) \in 1 .. Len(s)
  BY <1>1, GoodBasics
<1>3. PICK old, f : old = fr[Len(s)] /\ f = ResetField(old, field, v)
  OBVIOUS
<1>4. Frame(old)
  BY <1>2, <1>3 DEF Kept, Framed
<1>5. Frame(f) /\ f.section = fr[Len(s)].section /\ f.list = fr[Len(s)].list
  <2>1. Frame(f) /\ f.section = old.section /\ f.list = old.list
    BY <1>3, <1>4, FieldReset
  <2>2. QED
    BY <1>3, <2>1
<1>6. PICK g : g = Replaced(fr, Len(s), f)
  OBVIOUS
<1>7. Kept(h, gone, s, g)
  BY <1>2, <1>5, <1>6, FrameReset
<1>8. m2 = [m EXCEPT !.frames = g]
  BY <1>1, <1>2, <1>3, <1>6, Zenon DEF SetTop, Replaced, ResetField
<1>9. Parts(m2, h, s, g)
  BY <1>1, <1>8, PartsOf, Zenon
<1>10. Alike(fr, g)
  <2>1. IsSequence(fr)
    BY <1>2 DEF Kept, Framed
  <2>2. Len(g) = Len(fr) /\ \A n \in 1 .. Len(fr) : g[n] = IF n = Len(s) THEN f ELSE fr[n]
    BY <1>6, <2>1, ReplacedInSequence
  <2>3. QED
    BY <1>2, <1>5, <2>2 DEF Alike
<1>11. QED
  BY <1>1, <1>7, <1>9, <1>10, GoodParts DEF Same

LEMMA SameIsTransitive ==
  ASSUME NEW m, NEW m1, NEW m2, Same(m, m1), Same(m1, m2)
  PROVE  Same(m, m2)
BY DEF Same, Alike

LEMMA GoodResume ==
  ASSUME NEW m, NEW gone, Good(m, gone), Len(m.stack) > 0, NEW m2, m2 = Resume(m)
  PROVE  Good(m2, gone) /\ Same(m, m2)
BY GoodSetTop DEF Resume

LEMMA GoodFlush ==
  ASSUME NEW m, NEW gone, Good(m, gone), Len(m.stack) > 0, NEW m2 \in {m, TextSoFar(m), Flush(m), FlushText(m)}
  PROVE  Good(m2, gone) /\ Same(m, m2)
<1>1. Same(m, m)
  BY GoodBasics DEF Same
<1>2. Good(TextSoFar(m), gone) /\ Same(m, TextSoFar(m))
  BY GoodTextSoFar
<1>3. PICK o : o = SetTop(m, "stop", pos)
  OBVIOUS
<1>4. Good(o, gone) /\ Same(m, o)
  BY <1>3, GoodSetTop
<1>5. Good(TextSoFar(o), gone) /\ Same(o, TextSoFar(o))
  BY <1>4, GoodTextSoFar DEF Same
<1>6. Good(Flush(m), gone) /\ Same(m, Flush(m))
  BY <1>3, <1>4, <1>5, SameIsTransitive, Zenon DEF Flush
<1>7. QED
  BY <1>1, <1>2, <1>6 DEF FlushText

IsPop(m, m2, n) ==
  /\ m2.heap = m.heap /\ m2.stack = Below(m.stack, n) /\ m2.frames = Below(m.frames, n)
  /\ Len(m2.stack) = Len(m.stack) - n
LEMMA GoodPop ==
  ASSUME NEW m, NEW gone, Good(m, gone), NEW n \in 0 .. Len(m.stack), NEW m2, m2 = Pop(m, n)
  PROVE  Good(m2, gone) /\ IsPop(m, m2, n)
<1>1. PICK h, s, fr : h = m.heap /\ s = m.stack /\ fr = m.frames
  OBVIOUS
<1>2. PICK b, g : b = Below(s, n) /\ g = Below(fr, n)
  OBVIOUS
<1>3. Kept(h, gone, b, g) /\ Len(b) = Len(s) - n
  <2>1. Kept(h, gone, s, fr) /\ n \in 0 .. Len(s)
    BY <1>1, GoodBasics
  <2>2. QED
    BY <1>2, <2>1, FramesPopped
<1>4. m2 = [m EXCEPT !.stack = b, !.frames = g]
  BY <1>1, <1>2, Zenon DEF Pop, Below
<1>5. Parts(m2, h, b, g)
  BY <1>1, <1>4, PartsOf, Zenon
<1>6. QED
  <2>1. Good(m2, gone) /\ m2.heap = h /\ m2.stack = b /\ m2.frames = g
    BY <1>3, <1>5, GoodParts
  <2>2. QED
    BY <1>1, <1>2, <1>3, <2>1, Zenon DEF IsPop

NewFrame(sec, list) ==
  [section |-> sec, list |-> list, start |-> pos + 1, stop |-> None, tok |-> pos, params |-> 0,
   newline |-> FALSE]
Pushed(m, m2, type, f) ==
  /\ m2.heap = m.heap /\ m2.stack = Append(m.stack, type) /\ m2.frames = Append(m.frames, f)
LEMMA GoodPush ==
  ASSUME NEW m, NEW gone, Good(m, gone), NEW type, Takes(m.stack, type), NEW sec, NEW list,
         FrameOK(m.heap, gone, type, NewFrame(sec, list)),
         Rests(m.heap, type, NewFrame(sec, list), TopOf(m)),
         Tops(m.stack, m.frames, sec),
         NEW m2, m2 = Push(m, type, sec, list)
  PROVE  Good(m2, gone) /\ Pushed(m, m2, type, NewFrame(sec, list))
<1>1. PICK h, s, fr : h = m.heap /\ s = m.stack /\ fr = m.frames
  OBVIOUS
<1>2. PICK f : f = NewFrame(sec, list)
  OBVIOUS
<1>3. Frame(f) /\ f.section = sec
  BY <1>2 DEF Frame, NewFrame
<1>4. PICK b, g : b = Append(s, type) /\ g = Append(fr, f)
  OBVIOUS
<1>5. Kept(h, gone, s, fr) /\ TopOf(m) = fr[Len(s)]
  BY <1>1, GoodBasics DEF TopOf
<1>6. Kept(h, gone, b, g)
  <2>1. FrameOK(h, gone, type, f) /\ Rests(h, type, f, fr[Len(s)]) /\ Takes(s, type)
    BY <1>1, <1>2, <1>5
  <2>2. Tops(s, fr, f.section)
    BY <1>1, <1>3
  <2>3. QED
    BY <1>3, <1>4, <1>5, <2>1, <2>2, FramePushed
<1>7. m2 = [m EXCEPT !.stack = b, !.frames = g]
  BY <1>1, <1>2, <1>4, Zenon DEF Push, NewFrame
<1>8. Parts(m2, h, b, g)
  BY <1>1, <1>7, PartsOf, Zenon
<1>9. Good(m2, gone) /\ m2.heap = h /\ m2.stack = b /\ m2.frames = g
  BY <1>6, <1>8, GoodParts
<1>10. QED
  BY <1>1, <1>2, <1>4, <1>9, Zenon DEF Pushed

(* A context without a section: a value, an anchor text.                   *)
LEMMA GoodPushValue ==
  ASSUME NEW m, NEW gone, Good(m, gone), NEW type \in Sectionless, Takes(m.stack, type), NEW list,
         type = "INTERNAL_LINK_ANCHOR_TEXT" => list = TopOf(m).list,
         type \in {"VALUE", "EXTERNAL_LINK_VALUE"} => list = TopOf(m).section,
         NEW m2, m2 = Push(m, type, None, list)
  PROVE  /\ Good(m2, gone) /\ m2.stack = Append(m.stack, type)
<1>1. /\ Len(m.stack) > 0 /\ m.stack[Len(m.stack)] \in Under(type)
      /\ type \in {"INTERNAL_LINK_ANCHOR_TEXT", "VALUE", "EXTERNAL_LINK_VALUE"}
  BY DEF Takes, Sectionless
<1>2. PICK h, top, f : h = m.heap /\ top = m.stack[Len(m.stack)] /\ f = TopOf(m)
  OBVIOUS
<1>3. FrameOK(h, gone, top, f)
  BY <1>1, <1>2, TopFrame
<1>4. Collects(h, list)
  <2>1. CASE type = "INTERNAL_LINK_ANCHOR_TEXT"
    BY <1>2, <1>3, <2>1 DEF FrameOK
  <2>2. CASE type \in {"VALUE", "EXTERNAL_LINK_VALUE"}
    <3>1. list = f.section /\ top \in {"PARAMETER", "EXTERNAL_LINK"}
      BY <1>1, <1>2, <2>2, UnderEach
    <3>2. list \in Sections(h) /\ Type(h, list) = SectionOf(top)
      BY <1>3, <3>1 DEF FrameOK, Builds, Sectionless
    <3>3. SectionOf(top) \in {"key_value", "external_link"}
      BY <3>1 DEF SectionOf
    <3>4. QED
      BY <3>2, <3>3 DEF Collects, Holds
  <2>3. QED
    BY <1>1, <2>1, <2>2
<1>5. PICK new : new = NewFrame(None, list)
  OBVIOUS
<1>6. new.section = None /\ new.list = list
  BY <1>5 DEF NewFrame
<1>7. FrameOK(h, gone, type, new)
  BY <1>4, <1>6 DEF FrameOK
<1>8. Rests(h, type, new, f)
  BY <1>1, <1>2, <1>6 DEF Rests
<1>9. Tops(m.stack, m.frames, None)
  BY DEF Tops
<1>10. /\ FrameOK(m.heap, gone, type, NewFrame(None, list))
       /\ Rests(m.heap, type, NewFrame(None, list), TopOf(m))
  BY <1>2, <1>5, <1>7, <1>8, Zenon
<1>11. Good(m2, gone) /\ Pushed(m, m2, type, NewFrame(None, list))
  BY <1>9, <1>10, GoodPush
<1>12. QED
  BY <1>11 DEF Pushed

(* A section that has just been built is above all contexts.               *)
LEMMA FreshIsAbove ==
  ASSUME NEW m, NEW gone, Good(m, gone), NEW new \in Nat, \A s \in Sections(m.heap) : s < new
  PROVE  Tops(m.stack, m.frames, new)
<1>1. Kept(m.heap, gone, m.stack, m.frames)
  BY GoodBasics
<1>2. 0 < new
  BY <1>1 DEF Kept, Sound, Root
<1>3. ASSUME NEW d \in 1 .. Len(m.stack) PROVE Before(m.frames[d], new)
  BY <1>1, <1>2, FramesBasics DEF Before
<1>4. QED
  BY <1>3 DEF Tops

Opened == Context \ (Sectionless \cup {"PARAMETER"})
LEMMA GoodOpen ==
  ASSUME NEW m, NEW gone, Good(m, gone), NEW type \in Opened, Takes(m.stack, type),
         NEW section, section = SectionOf(type), NEW m2, m2 = Open(m, type, section)
  PROVE  Good(m2, gone) /\ m2.stack = Append(m.stack, type)
<1>1. PICK h, new, h1 : h = m.heap /\ new = Fresh(h) /\ h1 = Build(h, section)
  OBVIOUS
<1>2. /\ Follows(h, h1, gone, None) /\ Sections(h1) = Sections(h) \cup {new}
      /\ Root(h1, new) /\ Type(h1, new) = section /\ new \notin gone
      /\ new \in Nat /\ \A s \in Sections(h) : s < new
  BY <1>1, GoodBasics, BuildFollows
<1>3. PICK o : o = [m EXCEPT !.heap = h1]
  OBVIOUS
<1>4. Good(o, gone) /\ o.heap = h1 /\ o.stack = m.stack /\ o.frames = m.frames
  BY <1>1, <1>2, <1>3, HeapChanged
<1>5. PICK list : list = IF HasOwnList(type) THEN new ELSE TopOf(m).list
  OBVIOUS
<1>6. PICK f : f = NewFrame(new, list)
  OBVIOUS
<1>7. f.section = new /\ f.list = list
  BY <1>6 DEF NewFrame
<1>8. Len(m.stack) > 0 /\ type \notin Sectionless /\ type # "PARAMETER" /\ type # "INTERNAL_LINK_ANCHOR_TEXT"
  BY DEF Takes, Opened, Sectionless
<1>9. Collects(h1, list) /\ PassesOn(type, f)
  <2>1. CASE HasOwnList(type)
    <3>1. type \in {"REF", "HEADING", "TABLE_CAPTION", "TABLE_CELL"}
      BY <1>8, <2>1 DEF HasOwnList
    <3>2. section \in {"ref", "heading", "table_caption", "cell"}
      BY <3>1 DEF SectionOf
    <3>3. Holds(section) = InlineSection
      BY <3>2 DEF Holds
    <3>4. QED
      BY <1>2, <1>5, <1>7, <2>1, <3>3 DEF Collects, PassesOn, Root
  <2>2. CASE ~HasOwnList(type)
    <3>1. list = TopOf(m).list /\ TopOf(o) = TopOf(m)
      BY <1>4, <1>5, <2>2 DEF TopOf
    <3>2. Collects(h, list) /\ Collects(h1, list)
      BY <1>1, <1>4, <1>8, <3>1, TopFrame DEF FrameOK
    <3>3. list < new
      BY <1>2, <3>2 DEF Collects
    <3>4. QED
      BY <1>7, <2>2, <3>2, <3>3 DEF PassesOn
  <2>3. QED
    BY <2>1, <2>2
<1>10. FrameOK(h1, gone, type, f)
  BY <1>2, <1>7, <1>8, <1>9 DEF FrameOK, Builds, Root
<1>11. Rests(h1, type, f, TopOf(o))
  BY <1>8 DEF Rests
<1>12. Tops(m.stack, m.frames, new)
  BY <1>1, <1>2, FreshIsAbove
<1>13. m2 = Push(o, type, new, list)
  BY <1>1, <1>3, <1>5, Zenon DEF Open
<1>14. /\ FrameOK(o.heap, gone, type, NewFrame(new, list)) /\ Rests(o.heap, type, NewFrame(new, list), TopOf(o))
       /\ Tops(o.stack, o.frames, new) /\ Takes(o.stack, type)
  BY <1>4, <1>6, <1>10, <1>11, <1>12, Zenon
<1>15. Good(m2, gone) /\ Pushed(o, m2, type, NewFrame(new, list))
  BY <1>4, <1>13, <1>14, GoodPush
<1>16. QED
  BY <1>4, <1>15 DEF Pushed

(* The next parameter is put into the list of the context on top.          *)
LEMMA GoodNextParameter ==
  ASSUME NEW m, NEW gone, Good(m, gone), Takes(m.stack, "PARAMETER"), NEW m2, m2 = NextParameter(m)
  PROVE  Good(m2, gone) /\ m2.stack = Append(m.stack, "PARAMETER")
<1>1. PICK h, parent, new, h1, h3 :
        /\ h = m.heap /\ parent = TopOf(m).section /\ new = Fresh(h)
        /\ h1 = Build(h, "key_value") /\ h3 = AppendSection(h1, parent, new)
  OBVIOUS
<1>2. Len(m.stack) > 0 /\ m.stack[Len(m.stack)] \in {"TEMPLATE", "IMAGE"}
  BY UnderEach DEF Takes
<1>3. parent \in Sections(h) /\ Type(h, parent) \in {"template", "image"}
  <2>1. PICK top : top = m.stack[Len(m.stack)]
    OBVIOUS
  <2>2. FrameOK(h, gone, top, TopOf(m)) /\ top \in {"TEMPLATE", "IMAGE"}
    BY <1>1, <1>2, <2>1, TopFrame
  <2>3. parent \in Sections(h) /\ Type(h, parent) = SectionOf(top)
    BY <1>1, <2>2 DEF FrameOK, Builds, Sectionless
  <2>4. QED
    BY <2>2, <2>3 DEF SectionOf
<1>4. /\ Follows(h, h3, gone, None) /\ new \in Entries(h3, parent) /\ Type(h3, new) = "key_value"
      /\ new \in Sections(h3) /\ new \notin gone /\ \A s \in Sections(h) : s < new
  <2>1. "key_value" \in Holds(Type(h, parent))
    BY <1>3 DEF Holds
  <2>2. QED
    BY <1>1, <1>3, <2>1, GoodBasics, BuiltIsListed
<1>5. PICK o : o = [m EXCEPT !.heap = h3]
  OBVIOUS
<1>6. Good(o, gone) /\ o.heap = h3 /\ o.stack = m.stack /\ o.frames = m.frames
  BY <1>1, <1>4, <1>5, HeapChanged
<1>7. PICK f : f = NewFrame(new, new)
  OBVIOUS
<1>8. f.section = new /\ f.list = new
  BY <1>7 DEF NewFrame
<1>9. FrameOK(h3, gone, "PARAMETER", f)
  <2>1. Collects(h3, new)
    BY <1>4 DEF Collects, Holds
  <2>2. "PARAMETER" \notin Sectionless /\ SectionOf("PARAMETER") = "key_value" /\ HasOwnList("PARAMETER")
    BY DEF Sectionless, SectionOf, HasOwnList
  <2>3. QED
    BY <1>4, <1>8, <2>1, <2>2 DEF FrameOK, Builds, PassesOn
<1>10. Rests(h3, "PARAMETER", f, TopOf(o))
  BY <1>1, <1>4, <1>6, <1>8 DEF Rests, TopOf
<1>11. Tops(m.stack, m.frames, new)
  <2>1. new \in Nat
    BY <1>4, <1>6, GoodBasics
  <2>2. QED
    BY <1>1, <1>4, <2>1, FreshIsAbove
<1>12. m2 = Push(o, "PARAMETER", new, new)
  BY <1>1, <1>5, Zenon DEF NextParameter
<1>13. /\ FrameOK(o.heap, gone, "PARAMETER", NewFrame(new, new))
       /\ Rests(o.heap, "PARAMETER", NewFrame(new, new), TopOf(o))
       /\ Tops(o.stack, o.frames, new) /\ Takes(o.stack, "PARAMETER")
  BY <1>6, <1>7, <1>9, <1>10, <1>11, Zenon
<1>14. Good(m2, gone) /\ Pushed(o, m2, "PARAMETER", NewFrame(new, new))
  BY <1>6, <1>12, <1>13, GoodPush
<1>15. QED
  BY <1>6, <1>14 DEF Pushed

(* A loose section is put into a list.                                     *)
LEMMA GoodListed ==
  ASSUME NEW m, NEW gone, Good(m, gone), NEW sec, Loose(m.heap, gone, m.stack, m.frames, sec),
         NEW list \in Sections(m.heap), list < sec, Type(m.heap, sec) \in Holds(Type(m.heap, list)),
         NEW m2, m2 = [m EXCEPT !.heap = AppendSection(m.heap, list, sec)]
  PROVE  Good(m2, gone) /\ m2.stack = m.stack /\ m2.frames = m.frames
<1>1. PICK h, s, fr, h2 : h = m.heap /\ s = m.stack /\ fr = m.frames /\ h2 = AppendSection(h, list, sec)
  OBVIOUS
<1>2. Kept(h, gone, s, fr) /\ Loose(h, gone, s, fr, sec) /\ IsHeap(h) /\ Forest(h, gone)
  BY <1>1, GoodBasics
<1>3. Root(h, sec) /\ sec \notin gone /\ sec \in Nat /\ Apart(s, fr, sec)
  BY <1>1, <1>2, GoodBasics DEF Loose, Apart, Root
<1>4. Follows(h, h2, gone, sec)
  <2>1. list \in Sections(h) /\ Type(h, sec) \in Holds(Type(h, list))
    BY <1>1
  <2>2. QED
    BY <1>1, <1>2, <1>3, <2>1, ListFollows
<1>5. Kept(h2, gone, s, fr)
  BY <1>2, <1>3, <1>4, HeapGrows
<1>6. Parts(m2, h2, s, fr)
  BY <1>1, PartsOf, Zenon
<1>7. QED
  BY <1>1, <1>5, <1>6, GoodParts

LEMMA GoodAppendTo ==
  ASSUME NEW m, NEW gone, Good(m, gone), Len(m.stack) > 0, NEW sec,
         Loose(m.heap, gone, m.stack, m.frames, sec), Type(m.heap, sec) \in InlineSection,
         NEW m2, m2 = AppendTo(m, sec)
  PROVE  Good(m2, gone) /\ m2.stack = m.stack /\ m2.frames = m.frames
<1>1. PICK list : list = TopOf(m).list
  OBVIOUS
<1>2. Collects(m.heap, list)
  BY <1>1, TopFrame DEF FrameOK
<1>3. list < sec
  BY <1>1, TopFrame DEF Loose, Before
<1>4. m2 = [m EXCEPT !.heap = AppendSection(m.heap, list, sec)]
  BY <1>1 DEF AppendTo
<1>5. QED
  BY <1>2, <1>3, <1>4, GoodListed DEF Collects

(* The section of the context on top, when that is popped.                 *)
LEMMA TopIsLoose ==
  ASSUME NEW m, NEW gone, Good(m, gone), NEW n \in 1 .. Len(m.stack), Len(m.stack) - n > 0,
         m.stack[Len(m.stack) - n + 1] \in Opened, NEW sec, sec = m.frames[Len(m.stack) - n + 1].section,
         NEW m2, m2 = Pop(m, n)
  PROVE  /\ Good(m2, gone) /\ m2.heap = m.heap /\ m2.stack = Below(m.stack, n)
         /\ Len(m2.stack) = Len(m.stack) - n /\ Len(m2.stack) > 0
         /\ \A d \in 1 .. Len(m.stack) - n : m2.stack[d] = m.stack[d] /\ m2.frames[d] = m.frames[d]
         /\ Loose(m.heap, gone, m2.stack, m2.frames, sec)
         /\ Type(m.heap, sec) = SectionOf(m.stack[Len(m.stack) - n + 1])
         /\ \A d \in 1 .. Len(m.stack) - n : Before(m.frames[d], sec)
<1>1. PICK h, s, fr : h = m.heap /\ s = m.stack /\ fr = m.frames
  OBVIOUS
<1>2. Kept(h, gone, s, fr) /\ n \in 0 .. Len(s) /\ Len(s) - n + 1 \in 1 .. Len(s) /\ Len(s) \in Nat
  BY <1>1, GoodBasics
<1>3. s[Len(s) - n + 1] \notin Sectionless /\ s[Len(s) - n + 1] # "PARAMETER"
  BY <1>1 DEF Opened
<1>4. Loose(h, gone, Below(s, n), Below(fr, n), sec)
  BY <1>1, <1>2, <1>3, PoppedIsLoose
<1>5. /\ Good(m2, gone) /\ m2.heap = h /\ m2.stack = Below(s, n) /\ m2.frames = Below(fr, n)
      /\ Len(m2.stack) = Len(s) - n
  <2>1. n \in 0 .. Len(m.stack)
    BY <1>1, <1>2
  <2>2. Good(m2, gone) /\ IsPop(m, m2, n)
    BY <2>1, GoodPop
  <2>3. QED
    BY <1>1, <2>2, Zenon DEF IsPop
<1>6. Type(h, sec) = SectionOf(s[Len(s) - n + 1])
  <2>1. FrameOK(h, gone, s[Len(s) - n + 1], fr[Len(s) - n + 1])
    BY <1>2 DEF Kept, FramesOK
  <2>2. QED
    BY <1>1, <1>3, <2>1 DEF FrameOK, Builds
<1>7. \A d \in 1 .. Len(s) - n : Below(s, n)[d] = s[d] /\ Below(fr, n)[d] = fr[d]
  <2>1. s \in Seq(Context) /\ IsSequence(fr) /\ Len(fr) = Len(s)
    BY <1>2 DEF Kept, Framed, Nested
  <2>2. PICK S : fr \in Seq(S)
    BY <2>1 DEF IsSequence
  <2>3. \A d \in 1 .. Len(s) - n : Below(s, n)[d] = s[d]
    BY <1>2, <2>1, BelowIsPrefix
  <2>4. n \in 0 .. Len(fr)
    BY <1>2, <2>1
  <2>5. \A d \in 1 .. Len(fr) - n : Below(fr, n)[d] = fr[d]
    BY <2>2, <2>4, BelowIsPrefix
  <2>6. QED
    BY <2>1, <2>3, <2>5
<1>8. \A d \in 1 .. Len(s) - n : Before(fr[d], sec)
  <2>1. Len(Below(s, n)) = Len(s) - n
    BY <1>5
  <2>2. QED
    BY <1>4, <1>7, <2>1 DEF Loose
<1>9. QED
  BY <1>1, <1>4, <1>5, <1>6, <1>7, <1>8

Finishing == {"IMAGE", "EXTERNAL_LINK", "TEMPLATE", "REF", "HEADING", "CATEGORY_LINK", "LANGUAGE_LINK",
              "TABLE", "NOWIKI", "PRE", "MATH", "SOURCE", "GALLERY"}
LEMMA FinishingSections ==
  /\ Finishing \subseteq Opened /\ \A type \in Finishing : SectionOf(type) \in InlineSection
  /\ {"INTERNAL_LINK", "TABLE_CAPTION", "TABLE_ROW", "TABLE_CELL"} \subseteq Opened
<1>1. Finishing \subseteq Opened /\ {"INTERNAL_LINK", "TABLE_CAPTION", "TABLE_ROW", "TABLE_CELL"} \subseteq Opened
  BY DEF Finishing, Opened, Context, Raw, Sectionless
<1>2. ASSUME NEW type \in Finishing PROVE SectionOf(type) \in InlineSection
  BY DEF Finishing, SectionOf, InlineSection
<1>3. QED
  BY <1>1, <1>2

LEMMA GoodFinished ==
  ASSUME NEW m, NEW gone, Good(m, gone), Len(m.stack) > 1, m.stack[Len(m.stack)] \in Finishing,
         NEW m2, m2 = Finished(m)
  PROVE  Good(m2, gone) /\ m2.stack = Below(m.stack, 1)
<1>1. PICK sec, o, o2 : sec = TopOf(m).section /\ o = Pop(m, 1) /\ o2 = AppendTo(o, sec)
  OBVIOUS
<1>2. PICK k \in Nat : k = Len(m.stack) /\ k > 1 /\ Len(m.frames) = k
  BY GoodBasics
<1>3. 1 \in 1 .. Len(m.stack) /\ Len(m.stack) - 1 > 0 /\ Len(m.stack) - 1 + 1 = Len(m.stack)
  BY <1>2
<1>4. m.stack[Len(m.stack) - 1 + 1] \in Opened /\ sec = m.frames[Len(m.stack) - 1 + 1].section
  BY <1>1, <1>2, <1>3, FinishingSections DEF TopOf
<1>5. /\ Good(o, gone) /\ o.heap = m.heap /\ o.stack = Below(m.stack, 1) /\ Len(o.stack) > 0
      /\ Loose(m.heap, gone, o.stack, o.frames, sec)
      /\ Type(m.heap, sec) = SectionOf(m.stack[Len(m.stack) - 1 + 1])
  BY <1>1, <1>3, <1>4, TopIsLoose
<1>6. Type(o.heap, sec) \in InlineSection
  BY <1>3, <1>5, FinishingSections
<1>7. Good(o2, gone) /\ o2.stack = o.stack
  BY <1>1, <1>5, <1>6, GoodAppendTo
<1>8. m2 = Resume(o2)
  BY <1>1 DEF Finished
<1>9. Good(m2, gone) /\ Same(o2, m2)
  BY <1>5, <1>7, <1>8, GoodResume
<1>10. QED
  BY <1>5, <1>7, <1>9 DEF Same

LEMMA LooseIsApart ==
  ASSUME NEW h, NEW gone, NEW s, NEW fr, Kept(h, gone, s, fr), NEW sec, Loose(h, gone, s, fr, sec)
  PROVE  /\ IsHeap(h) /\ Forest(h, gone) /\ Sections(h) \subseteq Nat \ {0}
         /\ Root(h, sec) /\ sec \notin gone /\ sec \in Sections(h) /\ sec \in Nat /\ sec # None
         /\ Apart(s, fr, sec)
<1>1. IsHeap(h) /\ Forest(h, gone) /\ Sections(h) \subseteq Nat \ {0}
  BY FramesBasics DEF Kept, Sound
<1>2. QED
  BY <1>1 DEF Loose, Apart, Root, None

(* A link that is closed: it gets its type, and goes into a list.          *)
LEMMA LinkIsClosed ==
  ASSUME NEW h, NEW gone, NEW s, NEW fr, Kept(h, gone, s, fr), NEW sec, Loose(h, gone, s, fr, sec),
         Type(h, sec) = Untyped, NEW list, Collects(h, list), list < sec,
         NEW h1, h1 = [h EXCEPT !.node[sec].type = "internal_link"],
         NEW h2, h2 = AppendSection(h1, list, sec)
  PROVE  Kept(h2, gone, s, fr)
<1>1. /\ IsHeap(h) /\ Forest(h, gone) /\ Root(h, sec) /\ sec \notin gone /\ sec \in Nat /\ Apart(s, fr, sec)
  BY LooseIsApart
<1>2. /\ Follows(h, h1, gone, sec) /\ Sections(h1) = Sections(h) /\ Root(h1, sec)
      /\ Type(h1, sec) = "internal_link"
  BY <1>1, LinkFollows
<1>3. Kept(h1, gone, s, fr)
  BY <1>1, <1>2, HeapGrows
<1>4. list \in Sections(h) /\ list # sec /\ list \in Nat
  BY <1>1, LooseIsApart DEF Collects
<1>5. list \in Sections(h1) /\ Type(h1, list) = Type(h, list)
  BY <1>2, <1>4 DEF Follows, Grown
<1>6. Type(h1, sec) \in Holds(Type(h1, list))
  BY <1>2, <1>5 DEF Collects, InlineSection
<1>7. IsHeap(h1) /\ Forest(h1, gone)
  BY <1>2 DEF Follows
<1>8. Follows(h1, h2, gone, sec)
  BY <1>1, <1>2, <1>5, <1>6, <1>7, ListFollows
<1>9. QED
  BY <1>1, <1>3, <1>8, HeapGrows

(* A link that a redirect holds.                                           *)
LEMMA RedirectIsClosed ==
  ASSUME NEW h, NEW gone, NEW s, NEW fr, Kept(h, gone, s, fr), NEW sec, Loose(h, gone, s, fr, sec),
         Type(h, sec) = Untyped, NEW list, Collects(h, list),
         NEW h1, h1 = Build(h, "redirect"), NEW red, red = Fresh(h),
         NEW h2, h2 = [h1 EXCEPT !.node[red].held = sec],
         NEW h3, h3 = AppendSection(h2, list, red)
  PROVE  Kept(h3, gone, s, fr)
<1>1. /\ IsHeap(h) /\ Forest(h, gone) /\ Root(h, sec) /\ sec \notin gone /\ sec \in Sections(h)
      /\ sec \in Nat /\ sec # None /\ Apart(s, fr, sec) /\ Sections(h) \subseteq Nat \ {0}
  BY LooseIsApart
<1>2. /\ Follows(h, h1, gone, None) /\ Sections(h1) = Sections(h) \cup {red}
      /\ Root(h1, red) /\ Type(h1, red) = "redirect" /\ red \notin gone
      /\ red \in Nat /\ \A t \in Sections(h) : t < red
  BY <1>1, BuildFollows
<1>3. Root(h1, sec) /\ Type(h1, sec) = Untyped /\ Type(h1, list) = Type(h, list) /\ IsHeap(h1) /\ Forest(h1, gone)
  BY <1>1, <1>2 DEF Follows, Grown, Collects, None
<1>4. Kept(h1, gone, s, fr)
  BY <1>2, HeapGrows DEF Apart, None
<1>5. /\ Follows(h1, h2, gone, sec) /\ Sections(h2) = Sections(h1)
      /\ \A t \in Sections(h1) : Type(h2, t) = Type(h1, t)
  <2>1. red \in Sections(h1)
    BY <1>2
  <2>2. Type(h1, red) \in {"table", "redirect"}
    BY <1>2
  <2>3. QED
    BY <1>1, <1>3, <2>1, <2>2, HoldFollows
<1>6. Kept(h2, gone, s, fr)
  BY <1>1, <1>4, <1>5, HeapGrows
<1>7. /\ red # sec /\ red # None /\ list \in Sections(h) /\ list < red /\ red # 1
  BY <1>1, <1>2 DEF Collects, None, Kept, Sound, Root
<1>8. /\ IsHeap(h2) /\ Forest(h2, gone) /\ Root(h2, red) /\ list \in Sections(h2)
      /\ Type(h2, red) \in Holds(Type(h2, list))
  <2>1. Root(h2, red)
    BY <1>2, <1>5, <1>7 DEF Follows, Grown
  <2>2. Type(h2, red) = "redirect" /\ Type(h2, list) = Type(h, list) /\ list \in Sections(h2)
    BY <1>2, <1>3, <1>5, <1>7
  <2>3. Type(h2, red) \in Holds(Type(h2, list))
    BY <2>2 DEF Collects, InlineSection
  <2>4. QED
    BY <1>5, <2>1, <2>2, <2>3 DEF Follows
<1>9. Follows(h2, h3, gone, red)
  BY <1>2, <1>7, <1>8, ListFollows
<1>10. Apart(s, fr, red)
  <2>1. ASSUME NEW d \in 1 .. Len(s) PROVE Before(fr[d], red)
    BY <1>1, <1>2, FramesBasics DEF Before
  <2>2. QED
    BY <1>7, <2>1 DEF Apart
<1>11. QED
  BY <1>2, <1>6, <1>9, <1>10, HeapGrows

(* A caption that its table holds.                                         *)
LEMMA CaptionIsHeld ==
  ASSUME NEW h, NEW gone, NEW s, NEW fr, Kept(h, gone, s, fr), NEW sec, Loose(h, gone, s, fr, sec),
         NEW table \in Sections(h), Type(h, table) = "table", table < sec,
         NEW h2, h2 = [h EXCEPT !.node[table].held = sec]
  PROVE  Kept(h2, gone, s, fr)
<1>1. /\ IsHeap(h) /\ Forest(h, gone) /\ Root(h, sec) /\ sec \notin gone /\ sec # None /\ sec \in Nat
      /\ Apart(s, fr, sec)
  BY LooseIsApart
<1>2. Follows(h, h2, gone, sec)
  <2>1. Type(h, table) \in {"table", "redirect"}
    OBVIOUS
  <2>2. QED
    BY <1>1, <2>1, HoldFollows
<1>3. QED
  BY <1>1, <1>2, HeapGrows

(* The n contexts on top are popped, and with them the link they build.    *)
LEMMA LinkIsPopped ==
  ASSUME NEW m, NEW gone, Good(m, gone), NEW n \in {1, 2}, Len(m.stack) > n,
         m.stack[Len(m.stack) - n + 1] = "INTERNAL_LINK",
         n = 2 => m.stack[Len(m.stack)] = "INTERNAL_LINK_ANCHOR_TEXT",
         NEW link, link = m.frames[Len(m.stack) - n + 1].section
  PROVE  /\ n \in 1 .. Len(m.stack) /\ Len(m.stack) - n > 0
         /\ Kept(m.heap, gone, Below(m.stack, n), Below(m.frames, n))
         /\ Loose(m.heap, gone, Below(m.stack, n), Below(m.frames, n), link)
         /\ Type(m.heap, link) = Untyped /\ Collects(m.heap, TopOf(m).list) /\ TopOf(m).list < link
<1>1. PICK h, s, fr : h = m.heap /\ s = m.stack /\ fr = m.frames
  OBVIOUS
<1>2. PICK k \in Nat : k = Len(s) /\ k > n /\ Len(fr) = k
  BY <1>1, GoodBasics
<1>3. Kept(h, gone, s, fr) /\ n \in 1 .. k /\ n \in 0 .. k /\ k - n > 0 /\ k - n + 1 \in 1 .. k
  BY <1>1, <1>2, GoodBasics
<1>4. Kept(h, gone, Below(s, n), Below(fr, n))
  BY <1>2, <1>3, FramesPopped
<1>5. s[k - n + 1] = "INTERNAL_LINK" /\ link = fr[k - n + 1].section
  BY <1>1, <1>2
<1>6. "INTERNAL_LINK" \notin Sectionless /\ SectionOf("INTERNAL_LINK") = Untyped /\ ~HasOwnList("INTERNAL_LINK")
  BY DEF Sectionless, SectionOf, HasOwnList
<1>7. Loose(h, gone, Below(s, n), Below(fr, n), link)
  <2>1. s[k - n + 1] \notin Sectionless /\ s[k - n + 1] # "PARAMETER"
    BY <1>5, <1>6
  <2>2. QED
    BY <1>2, <1>3, <1>5, <2>1, PoppedIsLoose
<1>8. FrameOK(h, gone, "INTERNAL_LINK", fr[k - n + 1])
  BY <1>2, <1>3, <1>5 DEF Kept, FramesOK
<1>9. /\ Type(h, link) = Untyped /\ Collects(h, fr[k - n + 1].list) /\ fr[k - n + 1].list < link
  BY <1>5, <1>6, <1>8 DEF FrameOK, Builds, PassesOn
<1>10. fr[k].list = fr[k - n + 1].list
  <2>1. CASE n = 1
    BY <1>2, <2>1
  <2>2. CASE n = 2
    <3>1. k \in 2 .. Len(s) /\ s[k] = "INTERNAL_LINK_ANCHOR_TEXT" /\ k - n + 1 = k - 1
      BY <1>1, <1>2, <2>2
    <3>2. Rests(h, s[k], fr[k], fr[k - 1])
      BY <1>3, <3>1 DEF Kept, Linked
    <3>3. QED
      BY <3>1, <3>2 DEF Rests
  <2>3. QED
    BY <2>1, <2>2
<1>11. TopOf(m) = fr[k]
  BY <1>1, <1>2 DEF TopOf
<1>12. Collects(h, TopOf(m).list) /\ TopOf(m).list < link
  BY <1>9, <1>10, <1>11
<1>13. n \in 1 .. Len(s) /\ Len(s) - n > 0
  BY <1>2, <1>3
<1>14. QED
  BY <1>1, <1>4, <1>7, <1>9, <1>12, <1>13, Zenon

LEMMA PartsAre ==
  ASSUME NEW h, NEW s, NEW fr, NEW m, Parts(m, h, s, fr)
  PROVE  /\ m.heap = h /\ m.stack = s /\ m.frames = fr
         /\ m = [heap |-> m.heap, stack |-> m.stack, frames |-> m.frames]
<1>1. m.heap = h /\ m.stack = s /\ m.frames = fr
  BY DEF Parts
<1>2. QED
  BY <1>1, Zenon DEF Parts

WithHeap(m, h) == [m EXCEPT !.heap = h]
LEMMA PartsHeap ==
  ASSUME NEW h, NEW s, NEW fr, NEW m, Parts(m, h, s, fr), NEW h2, NEW m2, m2 = WithHeap(m, h2)
  PROVE  Parts(m2, h2, s, fr)
BY PartsAre DEF Parts, WithHeap

LEMMA PartsPop ==
  ASSUME NEW h, NEW s, NEW fr, NEW m, Parts(m, h, s, fr), NEW n, NEW m2, m2 = Pop(m, n)
  PROVE  Parts(m2, h, Below(s, n), Below(fr, n))
<1>1. m.heap = h /\ m.stack = s /\ m.frames = fr
  BY PartsAre
<1>2. m = [heap |-> m.heap, stack |-> m.stack, frames |-> m.frames]
  BY PartsAre
<1>3. PICK b, g : b = Below(s, n) /\ g = Below(fr, n)
  OBVIOUS
<1>4. m2 = [m EXCEPT !.stack = b, !.frames = g]
  BY <1>1, <1>3, Zenon DEF Pop, Below
<1>5. Parts(m2, h, b, g)
  BY <1>1, <1>2, <1>4, TwoFields DEF Parts
<1>6. QED
  BY <1>3, <1>5, Zenon

(* A link is closed by its end.                                            *)
LEMMA GoodLinkEnd ==
  ASSUME NEW m, NEW gone, Good(m, gone), NEW n \in {1, 2}, Len(m.stack) > n,
         m.stack[Len(m.stack) - n + 1] = "INTERNAL_LINK",
         n = 2 => m.stack[Len(m.stack)] = "INTERNAL_LINK_ANCHOR_TEXT",
         NEW link, link = m.frames[Len(m.stack) - n + 1].section,
         NEW m1, m1 \in {AppendLink(m, link), AppendRedirect(m, link)},
         NEW m2, m2 = Resume(Pop(m1, n))
  PROVE  Good(m2, gone) /\ m2.stack = Below(m.stack, n)
<1>1. PICK h, s, fr : h = m.heap /\ s = m.stack /\ fr = m.frames
  OBVIOUS
<1>2. PICK b, g : b = Below(s, n) /\ g = Below(fr, n)
  OBVIOUS
<1>3. PICK list : list = TopOf(m).list
  OBVIOUS
<1>4. /\ n \in 1 .. Len(s) /\ Len(s) - n > 0
      /\ Kept(h, gone, b, g) /\ Loose(h, gone, b, g, link)
      /\ Type(h, link) = Untyped /\ Collects(h, list) /\ list < link
  <2>1. /\ n \in 1 .. Len(m.stack) /\ Len(m.stack) - n > 0
        /\ Kept(m.heap, gone, Below(m.stack, n), Below(m.frames, n))
        /\ Loose(m.heap, gone, Below(m.stack, n), Below(m.frames, n), link)
        /\ Type(m.heap, link) = Untyped /\ Collects(m.heap, TopOf(m).list) /\ TopOf(m).list < link
    BY LinkIsPopped
  <2>2. QED
    BY <1>1, <1>2, <1>3, <2>1, Zenon
<1>5. Parts(m, h, s, fr)
  BY <1>1, PartsOf, Zenon
<1>6. PICK h2 : Kept(h2, gone, b, g) /\ Parts(m1, h2, s, fr)
  <2>1. CASE m1 = AppendLink(m, link)
    <3>1. PICK h1 : h1 = [h EXCEPT !.node[link].type = "internal_link"]
      OBVIOUS
    <3>2. PICK o : o = WithHeap(m, h1)
      OBVIOUS
    <3>3. Parts(o, h1, s, fr)
      BY <1>5, <3>2, PartsHeap
    <3>4. PICK h2 : h2 = AppendSection(h1, list, link)
      OBVIOUS
    <3>5. Kept(h2, gone, b, g)
      BY <1>4, <3>1, <3>4, LinkIsClosed
    <3>6. m1 = WithHeap(o, h2)
      <4>1. o = [m EXCEPT !.heap.node[link].type = "internal_link"]
        BY <1>1, <3>1, <3>2, Zenon DEF WithHeap
      <4>2. m1 = AppendTo(o, link)
        BY <2>1, <4>1, Zenon DEF AppendLink
      <4>3. o.heap = h1 /\ TopOf(o).list = list
        BY <1>1, <1>3, <3>3, PartsAre DEF TopOf
      <4>4. QED
        BY <3>4, <4>2, <4>3, Zenon DEF AppendTo, WithHeap
    <3>7. Parts(m1, h2, s, fr)
      BY <3>3, <3>6, PartsHeap
    <3>8. QED
      BY <3>5, <3>7
  <2>2. CASE m1 = AppendRedirect(m, link)
    <3>1. PICK h1, red : h1 = Build(h, "redirect") /\ red = Fresh(h)
      OBVIOUS
    <3>2. PICK h3 : h3 = [h1 EXCEPT !.node[red].held = link]
      OBVIOUS
    <3>3. PICK o : o = WithHeap(m, h3)
      OBVIOUS
    <3>4. Parts(o, h3, s, fr)
      BY <1>5, <3>3, PartsHeap
    <3>5. PICK h2 : h2 = AppendSection(h3, list, red)
      OBVIOUS
    <3>6. Kept(h2, gone, b, g)
      BY <1>4, <3>1, <3>2, <3>5, RedirectIsClosed
    <3>7. m1 = WithHeap(o, h2)
      <4>1. m1 = AppendTo(o, red)
        BY <1>1, <2>2, <3>1, <3>2, <3>3, Zenon DEF AppendRedirect, WithHeap
      <4>2. o.heap = h3 /\ TopOf(o).list = list
        BY <1>1, <1>3, <3>4, PartsAre DEF TopOf
      <4>3. QED
        BY <3>5, <4>1, <4>2, Zenon DEF AppendTo, WithHeap
    <3>8. Parts(m1, h2, s, fr)
      BY <3>4, <3>7, PartsHeap
    <3>9. QED
      BY <3>6, <3>8, Zenon
  <2>3. QED
    BY <2>1, <2>2
<1>7. PICK o : o = Pop(m1, n)
  OBVIOUS
<1>8. Parts(o, h2, b, g)
  BY <1>2, <1>6, <1>7, PartsPop, Zenon
<1>9. Good(o, gone) /\ o.stack = b
  BY <1>6, <1>8, GoodParts
<1>10. Len(o.stack) > 0
  <2>1. Kept(h, gone, s, fr) /\ Len(s) \in Nat
    BY <1>1, GoodBasics
  <2>2. n \in 0 .. Len(s)
    BY <1>4, <2>1
  <2>3. Len(Below(s, n)) = Len(s) - n
    BY <2>1, <2>2, FramesPopped
  <2>4. QED
    BY <1>2, <1>4, <1>9, <2>3
<1>11. Good(m2, gone) /\ Same(o, m2)
  BY <1>7, <1>9, <1>10, GoodResume
<1>12. QED
  BY <1>1, <1>2, <1>9, <1>11 DEF Same

(* A link that is open becomes text, and is freed.                         *)
LinkOnTop(m, n) ==
  /\ Len(m.stack) > n /\ m.stack[Len(m.stack) - n + 1] = "INTERNAL_LINK"
  /\ n = 2 => m.stack[Len(m.stack)] = "INTERNAL_LINK_ANCHOR_TEXT"
LinkAt(m, n) == m.frames[Len(m.stack) - n + 1]
HasText(h, f, h2) == \E type, begin, end : h2 = AppendText(h, type, f, begin, end)

LEMMA GoodBackToText ==
  ASSUME NEW m, NEW gone, Good(m, gone), NEW n \in {1, 2}, LinkOnTop(m, n),
         NEW f, f = LinkAt(m, n), NEW h2, HasText(m.heap, f, h2),
         NEW m2, m2 = Pop(WithHeap(m, h2), n)
  PROVE  Good(m2, gone \cup {f.section}) /\ m2.stack = Below(m.stack, n)
<1>0. /\ Len(m.stack) > n /\ m.stack[Len(m.stack) - n + 1] = "INTERNAL_LINK"
      /\ n = 2 => m.stack[Len(m.stack)] = "INTERNAL_LINK_ANCHOR_TEXT"
      /\ f = m.frames[Len(m.stack) - n + 1]
  BY DEF LinkOnTop, LinkAt
<1>1. PICK h, s, fr : h = m.heap /\ s = m.stack /\ fr = m.frames
  OBVIOUS
<1>2. PICK b, g, link : b = Below(s, n) /\ g = Below(fr, n) /\ link = f.section
  OBVIOUS
<1>3. Kept(h, gone, b, g) /\ Loose(h, gone, b, g, link)
  <2>1. link = m.frames[Len(m.stack) - n + 1].section
    BY <1>0, <1>2
  <2>2. /\ Kept(m.heap, gone, Below(m.stack, n), Below(m.frames, n))
        /\ Loose(m.heap, gone, Below(m.stack, n), Below(m.frames, n), link)
    BY <1>0, <2>1, LinkIsPopped
  <2>3. QED
    BY <1>1, <1>2, <2>2, Zenon
<1>4. Kept(h, gone \cup {link}, b, g)
  BY <1>3, LooseIsFreed
<1>5. Collects(h, f.list)
  <2>1. Len(s) \in Nat /\ Len(s) - n + 1 \in 1 .. Len(s) /\ Kept(h, gone, s, fr)
    BY <1>0, <1>1, GoodBasics
  <2>2. FrameOK(h, gone, s[Len(s) - n + 1], f)
    BY <1>0, <1>1, <2>1 DEF Kept, FramesOK
  <2>3. QED
    BY <2>2 DEF FrameOK
<1>6. Kept(h2, gone \cup {link}, b, g)
  <2>1. IsHeap(h) /\ Forest(h, gone \cup {link})
    BY <1>4 DEF Kept, Sound
  <2>2. h2 = h \/ Follows(h, h2, gone \cup {link}, None)
    BY <1>1, <1>5, <2>1, TextFollows DEF HasText
  <2>3. Apart(b, g, None) /\ None \in Nat
    BY DEF Apart, None
  <2>4. QED
    BY <1>4, <2>2, <2>3, HeapGrows
<1>7. PICK o : o = WithHeap(m, h2)
  OBVIOUS
<1>8. Parts(o, h2, s, fr)
  <2>1. Parts(m, h, s, fr)
    BY <1>1, PartsOf, Zenon
  <2>2. QED
    BY <1>7, <2>1, PartsHeap
<1>9. Parts(m2, h2, b, g)
  BY <1>2, <1>7, <1>8, PartsPop, Zenon
<1>10. Good(m2, gone \cup {link}) /\ m2.stack = b
  BY <1>6, <1>9, GoodParts
<1>11. QED
  BY <1>1, <1>2, <1>10, Zenon

(* A cell goes into its row, a row into its table.                         *)
LEMMA GoodCloseIntoBelow ==
  ASSUME NEW m, NEW gone, Good(m, gone), Len(m.stack) > 1,
         m.stack[Len(m.stack)] \in {"TABLE_CELL", "TABLE_ROW"}, NEW m2, m2 = CloseIntoBelow(m)
  PROVE  Good(m2, gone) /\ m2.stack = Below(m.stack, 1)
<1>1. PICK sec, o : sec = TopOf(m).section /\ o = Pop(m, 1)
  OBVIOUS
<1>2. PICK k \in Nat : k = Len(m.stack) /\ k > 1 /\ Len(m.frames) = k
  BY GoodBasics
<1>3. PICK top : top = m.stack[k] /\ top \in {"TABLE_CELL", "TABLE_ROW"} /\ top \in Opened
  BY <1>2, FinishingSections
<1>4. /\ Good(o, gone) /\ o.heap = m.heap /\ o.stack = Below(m.stack, 1) /\ Len(o.stack) = k - 1
      /\ o.stack[k - 1] = m.stack[k - 1] /\ Loose(m.heap, gone, o.stack, o.frames, sec)
      /\ Type(m.heap, sec) = SectionOf(top)
  <2>1. 1 \in 1 .. Len(m.stack) /\ Len(m.stack) - 1 > 0 /\ Len(m.stack) - 1 + 1 = k
    BY <1>2
  <2>2. m.stack[Len(m.stack) - 1 + 1] \in Opened /\ sec = m.frames[Len(m.stack) - 1 + 1].section
    BY <1>1, <1>2, <1>3, <2>1 DEF TopOf
  <2>3. /\ Good(o, gone) /\ o.heap = m.heap /\ o.stack = Below(m.stack, 1)
        /\ Len(o.stack) = Len(m.stack) - 1
        /\ \A d \in 1 .. Len(m.stack) - 1 : o.stack[d] = m.stack[d] /\ o.frames[d] = m.frames[d]
        /\ Loose(m.heap, gone, o.stack, o.frames, sec)
        /\ Type(m.heap, sec) = SectionOf(m.stack[Len(m.stack) - 1 + 1])
    BY <1>1, <2>1, <2>2, TopIsLoose
  <2>4. k - 1 \in 1 .. Len(m.stack) - 1
    BY <1>2
  <2>5. QED
    BY <1>2, <1>3, <2>1, <2>3, <2>4
<1>5. PICK list, below : list = TopOf(o).section /\ below = o.stack[k - 1]
  OBVIOUS
<1>6. below = IF top = "TABLE_CELL" THEN "TABLE_ROW" ELSE "TABLE"
  <2>1. m.stack[k - 1] \in Under(top)
    BY <1>2, <1>3, GoodBasics, BelowTop
  <2>2. QED
    BY <1>3, <1>4, <1>5, <2>1, UnderEach
<1>7. Len(o.stack) > 0 /\ FrameOK(o.heap, gone, below, TopOf(o))
  BY <1>2, <1>4, <1>5, TopFrame
<1>8. list \in Sections(o.heap) /\ Type(o.heap, list) = SectionOf(below)
  BY <1>3, <1>5, <1>6, <1>7 DEF FrameOK, Builds, Sectionless
<1>9. list < sec
  BY <1>4, <1>5, <1>7, TopFrame DEF Loose, Before
<1>10. Type(o.heap, sec) \in Holds(Type(o.heap, list))
  BY <1>3, <1>4, <1>6, <1>8 DEF SectionOf, Holds
<1>11. m2 = [o EXCEPT !.heap = AppendSection(o.heap, list, sec)]
  BY <1>1, <1>5 DEF CloseIntoBelow
<1>12. Loose(o.heap, gone, o.stack, o.frames, sec)
  BY <1>4
<1>13. Good(m2, gone) /\ m2.stack = o.stack
  BY <1>4, <1>8, <1>9, <1>10, <1>11, <1>12, GoodListed
<1>14. QED
  BY <1>4, <1>13

-----------------------------------------------------------------------------
(* The handlers, in the order of the specification.                        *)

Owns == Good(Now, freed)

LEMMA OwnsTop ==
  ASSUME StackInv, Owns, Depth > 0
  PROVE  /\ Good(Now, freed) /\ Now.heap = heap /\ Now.stack = stack /\ Now.frames = frames
         /\ Depth \in Nat /\ Len(Now.stack) = Depth /\ Len(stack) = Depth /\ Nested(stack)
         /\ stack[Depth] = Top /\ Now.stack[Len(Now.stack)] = Top
         /\ TopOf(Now) = F /\ Now.frames[Len(Now.stack)] = F /\ FrameOK(heap, freed, Top, F)
<1>1. Good(Now, freed) /\ Now.heap = heap /\ Now.stack = stack /\ Now.frames = frames
  BY DEF Owns, Now
<1>2. Nested(stack) /\ Depth \in Nat /\ Len(stack) = Depth /\ stack[Depth] = Top
  BY Basics
<1>3. TopOf(Now) = frames[Len(frames)] /\ Len(frames) = Depth
  BY <1>1, <1>2, GoodBasics DEF TopOf
<1>4. TopOf(Now) = F
  BY <1>3 DEF F
<1>5. FrameOK(Now.heap, freed, Now.stack[Len(Now.stack)], TopOf(Now))
  BY <1>1, <1>2, TopFrame
<1>6. QED
  BY <1>1, <1>2, <1>3, <1>4, <1>5

LEMMA BecomeOwns ==
  ASSUME NEW m, NEW gone, Good(m, gone), Become(m), freed' = gone
  PROVE  Owns'
<1>1. m = [heap |-> m.heap, stack |-> m.stack, frames |-> m.frames]
  BY DEF Good
<1>2. Now' = m
  BY <1>1 DEF Now, Become
<1>3. QED
  BY <1>2 DEF Owns

LEMMA OwnsOn ==
  ASSUME StackInv, Owns, NEW tok, On(tok)
  PROVE  /\ Good(Now, freed) /\ Now.heap = heap /\ Now.stack = stack /\ Now.frames = frames
         /\ Depth \in Nat /\ Depth > 0 /\ Len(Now.stack) = Depth /\ Len(stack) = Depth /\ Nested(stack)
         /\ stack[Depth] = Top /\ Now.stack[Len(Now.stack)] = Top
         /\ TopOf(Now) = F /\ Now.frames[Len(Now.stack)] = F /\ FrameOK(heap, freed, Top, F)
BY OnTop, OwnsTop

(* A section is opened on the context on top.                              *)
LEMMA OpensOnTopOwns ==
  ASSUME StackInv, Owns, NEW tok, On(tok), NEW type \in Opened, Takes(stack, type),
         NEW m \in {Now, TextSoFar(Now), Flush(Now), FlushText(Now)},
         NEW section, section = SectionOf(type), NEW m2, m2 = Open(m, type, section)
  PROVE  Good(m2, freed) /\ m2.stack = Append(stack, type)
<1>1. Good(Now, freed) /\ Now.stack = stack /\ Len(Now.stack) > 0
  BY OwnsOn
<1>2. Good(m, freed) /\ Same(Now, m)
  BY <1>1, GoodFlush
<1>3. m.stack = stack
  BY <1>1, <1>2 DEF Same
<1>4. QED
  BY <1>2, <1>3, GoodOpen

(* The section on top is finished.                                         *)
LEMMA FinishesTopOwns ==
  ASSUME StackInv, Owns, Depth > 0, Top \in Finishing, NEW m, Good(m, freed), m.stack = stack,
         Become(Finished(m)), UNCHANGED freed
  PROVE  Owns'
<1>1. Nested(stack) /\ Len(stack) = Depth /\ stack[Len(stack)] = Top /\ Top # "ROOT"
  BY OwnsTop DEF Finishing
<1>2. Len(stack) > 1
  BY <1>1, BelowTop
<1>3. Good(Finished(m), freed)
  BY <1>1, <1>2, GoodFinished
<1>4. QED
  BY <1>3, BecomeOwns

LEMMA AddressEndsOwns ==
  ASSUME StackInv, Owns, NEW tok, On(tok), Top = "EXTERNAL_LINK"
  PROVE  Good(AddressEnds, freed) /\ AddressEnds.stack = Append(stack, "EXTERNAL_LINK_VALUE")
<1>1. PICK m : m = WithText(Now, GenerateHref)
  OBVIOUS
<1>2. Good(m, freed) /\ m.stack = stack /\ TopOf(m) = F
  BY <1>1, OwnsOn, GoodText DEF TopOf
<1>3. Takes(stack, "EXTERNAL_LINK_VALUE")
  BY TakesOnTop, UnderEach
<1>4. PICK type : type = "EXTERNAL_LINK_VALUE"
  OBVIOUS
<1>5. PICK m2 : m2 = Push(m, type, None, F.section)
  OBVIOUS
<1>6. Good(m2, freed) /\ m2.stack = Append(m.stack, type)
  <2>1. type \in Sectionless /\ type # "INTERNAL_LINK_ANCHOR_TEXT"
    BY <1>4 DEF Sectionless
  <2>2. F.section = TopOf(m).section
    BY <1>2
  <2>3. Takes(m.stack, type)
    BY <1>2, <1>3, <1>4
  <2>4. QED
    BY <1>2, <1>5, <2>1, <2>2, <2>3, GoodPushValue
<1>7. AddressEnds = m2
  BY <1>1, <1>4, <1>5, Zenon DEF AddressEnds
<1>8. QED
  BY <1>2, <1>4, <1>6, <1>7

LEMMA LinkBeginOwns ==
  ASSUME StackInv, Owns, LinkBegin
  PROVE  Owns'
<1> DEFINE a == Append(stack, "EXTERNAL_LINK_VALUE")
<1>1. PICK tok : tok = {"[["} /\ On(tok)
  BY DEF LinkBegin
<1>2. Depth \in Nat /\ Len(stack) = Depth /\ Top \in Anywhere
  BY <1>1, OnTop, OnAnywhere, TakenTokens
<1>3. UNCHANGED freed
  BY DEF LinkBegin, rest
<1>4. PICK type : type = "INTERNAL_LINK" /\ type \in Opened /\ Untyped = SectionOf(type)
  BY FinishingSections DEF SectionOf
<1>5. CASE Top = "EXTERNAL_LINK"
  <2>1. Good(AddressEnds, freed) /\ AddressEnds.stack = a
    BY <1>1, <1>5, AddressEndsOwns
  <2>2. Takes(a, type)
    <3>1. Len(a) = Depth + 1 /\ a[Depth + 1] = "EXTERNAL_LINK_VALUE"
      BY <1>1, <1>5, AddressEndsShape
    <3>2. "EXTERNAL_LINK_VALUE" \in Under("INTERNAL_LINK")
      BY UnderEach DEF Anywhere, Context, Raw
    <3>3. QED
      BY <1>2, <1>4, <3>1, <3>2, UnderEach DEF Takes
  <2>3. Good(Open(AddressEnds, type, Untyped), freed)
    BY <1>4, <2>1, <2>2, GoodOpen
  <2>4. Become(Open(AddressEnds, type, Untyped))
    BY <1>4, <1>5, Zenon DEF LinkBegin, Untyped
  <2>5. QED
    BY <1>3, <2>3, <2>4, BecomeOwns
<1>6. CASE Top # "EXTERNAL_LINK"
  <2>1. Takes(stack, type)
    BY <1>1, <1>2, <1>4, <1>6, TakesOnTop, UnderEach DEF LinkBegin
  <2>2. PICK m : (m = Now \/ m = FlushText(Now)) /\ Become(Open(m, type, Untyped))
    <3>1. CASE redirect
      BY <1>4, <1>6, <3>1, Zenon DEF LinkBegin, Untyped
    <3>2. CASE ~redirect
      BY <1>4, <1>6, <3>2, Zenon DEF LinkBegin, Untyped
    <3>3. QED
      BY <3>1, <3>2
  <2>3. m \in {Now, TextSoFar(Now), Flush(Now), FlushText(Now)}
    BY <2>2
  <2>4. Good(Open(m, type, Untyped), freed)
    BY <1>1, <1>4, <2>1, <2>3, OpensOnTopOwns
  <2>5. QED
    BY <1>3, <2>2, <2>4, BecomeOwns
<1>7. QED
  BY <1>5, <1>6

(* A link that is open becomes text again.                                 *)
LEMMA BackToTextOwns ==
  ASSUME StackInv, Owns, NEW tok, On(tok), NEW n \in {1, 2},
         Top = IF n = 1 THEN "INTERNAL_LINK" ELSE "INTERNAL_LINK_ANCHOR_TEXT"
  PROVE  /\ Good(BackToText(n), freed \cup {LinkFrame(n).section}) /\ BackToText(n).stack = Below(stack, n)
         /\ n \in 0 .. Depth /\ Depth - n > 0 /\ stack[Depth - n] \in Under("INTERNAL_LINK")
         /\ Len(Below(stack, n)) > 0
<1>1. /\ Good(Now, freed) /\ Now.heap = heap /\ Now.stack = stack /\ Now.frames = frames
      /\ Depth \in Nat /\ Len(stack) = Depth /\ stack[Depth] = Top /\ Nested(stack) /\ Depth > 0
  BY OwnsOn
<1>2. /\ Depth > n /\ stack[Depth - n + 1] = "INTERNAL_LINK" /\ stack[Depth - n] \in Under("INTERNAL_LINK")
      /\ n = 2 => stack[Depth] = "INTERNAL_LINK_ANCHOR_TEXT"
  <2>1. CASE n = 1
    <3>1. stack[Len(stack)] = "INTERNAL_LINK" /\ Depth - n + 1 = Depth
      BY <1>1, <2>1
    <3>2. Len(stack) > 1 /\ stack[Len(stack) - 1] \in Under("INTERNAL_LINK")
      BY <1>1, <3>1, BelowTop
    <3>3. QED
      BY <1>1, <2>1, <3>1, <3>2
  <2>2. CASE n = 2
    <3>1. stack[Len(stack)] = "INTERNAL_LINK_ANCHOR_TEXT" /\ Depth - n + 1 = Depth - 1
      BY <1>1, <2>2
    <3>2. /\ Len(stack) > 2 /\ stack[Len(stack) - 1] = "INTERNAL_LINK"
          /\ stack[Len(stack) - 2] \in Under("INTERNAL_LINK")
      BY <1>1, <3>1, BelowTop
    <3>3. QED
      BY <1>1, <2>2, <3>1, <3>2
  <2>3. QED
    BY <2>1, <2>2
<1>3. PICK f : f = LinkFrame(n) /\ f = frames[Depth - n + 1]
  BY DEF LinkFrame
<1>4. PICK type, begin, h2 : /\ type = "INTERNAL_LINK" /\ begin = f.tok
                             /\ h2 = AppendText(heap, type, f, begin, pos)
  OBVIOUS
<1>5. PICK m2 : m2 = Pop(WithHeap(Now, h2), n)
  OBVIOUS
<1>6. m2 = BackToText(n)
  <2>1. h2 = AppendText(Now.heap, "INTERNAL_LINK", LinkFrame(n), LinkFrame(n).tok, pos)
    BY <1>1, <1>3, <1>4
  <2>2. QED
    BY <1>5, <2>1, Zenon DEF BackToText, WithHeap
<1>7. Good(m2, freed \cup {f.section}) /\ m2.stack = Below(stack, n)
  <2>1. PICK o : o = Now
    OBVIOUS
  <2>2. LinkOnTop(o, n) /\ f = LinkAt(o, n)
    BY <1>1, <1>2, <1>3, <2>1 DEF LinkOnTop, LinkAt
  <2>3. Good(m2, freed \cup {f.section}) /\ m2.stack = Below(o.stack, n)
    <3>1. Good(o, freed) /\ HasText(o.heap, f, h2)
      BY <1>1, <1>4, <2>1 DEF HasText
    <3>2. m2 = Pop(WithHeap(o, h2), n)
      BY <1>5, <2>1
    <3>3. QED
      BY <2>2, <3>1, <3>2, GoodBackToText
  <2>4. QED
    BY <1>1, <2>1, <2>3
<1>8. n \in 0 .. Depth /\ Depth - n > 0
  BY <1>1, <1>2
<1>9. Len(Below(stack, n)) > 0
  BY <1>1, <1>8, BelowIsPrefix DEF Nested
<1>10. QED
  BY <1>2, <1>3, <1>6, <1>7, <1>8, <1>9, Zenon

LEMMA LinkBeginInLinkOwns ==
  ASSUME StackInv, Owns, LinkBeginInLink
  PROVE  Owns'
<1>1. PICK tok : tok = {"[["} /\ On(tok)
  BY DEF LinkBeginInLink
<1>2. PICK type : type = "INTERNAL_LINK" /\ type \in Opened /\ Untyped = SectionOf(type)
  BY FinishingSections DEF SectionOf
<1>3. PICK n \in {1, 2} : /\ n = IF Top = "INTERNAL_LINK" THEN 1 ELSE 2
                          /\ Become(Open(BackToText(n), type, Untyped))
                          /\ freed' = freed \cup {LinkFrame(n).section}
  <2>1. PICK n : /\ n = IF Top = "INTERNAL_LINK" THEN 1 ELSE 2
                 /\ Become(Open(BackToText(n), type, Untyped))
                 /\ freed' = freed \cup {LinkFrame(n).section}
    BY <1>2, Zenon DEF LinkBeginInLink, Untyped
  <2>2. n \in {1, 2}
    BY <2>1
  <2>3. QED
    BY <2>1, <2>2
<1>4. Top = IF n = 1 THEN "INTERNAL_LINK" ELSE "INTERNAL_LINK_ANCHOR_TEXT"
  <2>1. Top \in {"INTERNAL_LINK", "INTERNAL_LINK_ANCHOR_TEXT"}
    BY Zenon DEF LinkBeginInLink
  <2>2. QED
    BY <1>3, <2>1
<1>5. PICK gone, m : gone = freed \cup {LinkFrame(n).section} /\ m = BackToText(n)
  OBVIOUS
<1>6. /\ Good(m, gone) /\ m.stack = Below(stack, n)
      /\ n \in 0 .. Depth /\ Depth - n > 0 /\ stack[Depth - n] \in Under("INTERNAL_LINK")
  BY <1>1, <1>4, <1>5, BackToTextOwns
<1>7. Takes(m.stack, type)
  <2>1. Nested(stack) /\ Len(stack) = Depth /\ type \in Context \ {"ROOT"}
    BY <1>1, <1>2, OwnsOn, UnderEach
  <2>2. Takes(Below(stack, n), type)
    BY <1>2, <1>6, <2>1, TakesBelow
  <2>3. QED
    BY <1>6, <2>2
<1>8. Good(Open(m, type, Untyped), gone)
  BY <1>2, <1>6, <1>7, GoodOpen
<1>9. QED
  BY <1>3, <1>5, <1>8, BecomeOwns

LEMMA LinksOwn ==
  ASSUME StackInv, Owns
  PROVE  /\ NewlineInInternalLink \/ SeparatorInInternalLink => Owns'
         /\ LinkEndInInternalLink \/ LinkEndInAnchorText => Owns'
<1>1. ASSUME NewlineInInternalLink PROVE Owns'
  <2>1. PICK tok : On(tok)
    BY <1>1 DEF NewlineInInternalLink
  <2>2. PICK n \in {1, 2} : n = 1
    OBVIOUS
  <2>3. PICK gone, m : gone = freed \cup {LinkFrame(n).section} /\ m = BackToText(n)
    OBVIOUS
  <2>4. Top = "INTERNAL_LINK"
    BY <1>1 DEF NewlineInInternalLink
  <2>5. Good(m, gone) /\ m.stack = Below(stack, n) /\ Len(Below(stack, n)) > 0
    BY <2>1, <2>2, <2>3, <2>4, BackToTextOwns
  <2>6. Good(SetTop(m, "start", pos), gone)
    BY <2>5, GoodSetTop
  <2>7. LinkFrame(n).section = F.section
    <3>1. Depth \in Nat
      BY <2>1, OwnsOn
    <3>2. QED
      BY <2>2, <3>1 DEF LinkFrame, F
  <2>8. Become(SetTop(m, "start", pos)) /\ freed' = gone
    BY <1>1, <2>2, <2>3, <2>7 DEF NewlineInInternalLink
  <2>9. QED
    BY <2>6, <2>8, BecomeOwns
<1>2. ASSUME SeparatorInInternalLink PROVE Owns'
  <2>1. PICK tok : On(tok)
    BY <1>2 DEF SeparatorInInternalLink
  <2>2. PICK type : type = "INTERNAL_LINK_ANCHOR_TEXT"
    OBVIOUS
  <2>3. PICK m : m = WithText(Now, Str(F.tok + 1, pos))
    OBVIOUS
  <2>4. Good(m, freed) /\ m.stack = stack /\ TopOf(m) = F
    BY <2>1, <2>3, OwnsOn, GoodText DEF TopOf
  <2>5. Takes(m.stack, type)
    BY <1>2, <2>1, <2>2, <2>4, TakesOnTop, UnderEach DEF SeparatorInInternalLink
  <2>6. PICK list : list = F.list
    OBVIOUS
  <2>7. Good(Push(m, type, None, list), freed)
    <3>1. type \in Sectionless /\ type \notin {"VALUE", "EXTERNAL_LINK_VALUE"} /\ list = TopOf(m).list
      BY <2>2, <2>4, <2>6 DEF Sectionless
    <3>2. QED
      BY <2>4, <2>5, <3>1, GoodPushValue
  <2>8. Become(Push(m, type, None, list)) /\ UNCHANGED freed
    BY <1>2, <2>2, <2>3, <2>6 DEF SeparatorInInternalLink, rest
  <2>9. QED
    BY <2>7, <2>8, BecomeOwns
<1>3. ASSUME LinkEndInInternalLink PROVE Owns'
  <2>1. PICK tok : On(tok)
    BY <1>3 DEF LinkEndInInternalLink
  <2>2. PICK m : m = WithText(Now, Str(F.tok + 1, pos))
    OBVIOUS
  <2>3. /\ Good(m, freed) /\ m.stack = stack /\ m.frames = frames /\ Len(m.stack) = Depth /\ Depth \in Nat
    BY <2>1, <2>2, OwnsOn, GoodText
  <2>4. Top = "INTERNAL_LINK" /\ Len(m.stack) > 1 /\ m.stack[Len(m.stack)] = "INTERNAL_LINK"
    BY <1>3, <2>1, <2>3, OwnsOn, BelowTop DEF LinkEndInInternalLink
  <2>5. PICK n \in {1, 2} : n = 1
    OBVIOUS
  <2>6. Len(m.stack) - n + 1 = Len(m.stack)
    BY <2>3, <2>5
  <2>7. PICK link : link = F.section
    OBVIOUS
  <2>8. PICK m1 : /\ m1 = AppendRedirect(m, link) \/ m1 = AppendLink(m, link)
                  /\ Become(Resume(Pop(m1, n)))
    <3>1. CASE redirect
      BY <1>3, <2>2, <2>5, <2>7, <3>1, Zenon DEF LinkEndInInternalLink
    <3>2. CASE ~redirect
      BY <1>3, <2>2, <2>5, <2>7, <3>2, Zenon DEF LinkEndInInternalLink
    <3>3. QED
      BY <3>1, <3>2
  <2>9. PICK m2 : m2 = Resume(Pop(m1, n))
    OBVIOUS
  <2>10. Good(m2, freed)
    <3>1. /\ Len(m.stack) > n /\ m.stack[Len(m.stack) - n + 1] = "INTERNAL_LINK" /\ n # 2
          /\ link = m.frames[Len(m.stack) - n + 1].section
          /\ m1 \in {AppendLink(m, link), AppendRedirect(m, link)}
      BY <2>3, <2>4, <2>5, <2>6, <2>7, <2>8 DEF F
    <3>2. QED
      BY <2>3, <2>9, <3>1, GoodLinkEnd
  <2>11. Become(m2) /\ UNCHANGED freed
    BY <1>3, <2>8, <2>9 DEF LinkEndInInternalLink, rest
  <2>12. QED
    BY <2>10, <2>11, BecomeOwns
<1>4. ASSUME LinkEndInAnchorText PROVE Owns'
  <2>1. PICK tok : On(tok)
    BY <1>4 DEF LinkEndInAnchorText
  <2>2. PICK n \in {1, 2} : n = 2
    OBVIOUS
  <2>3. PICK link : link = LinkFrame(n).section
    OBVIOUS
  <2>4. PICK alias, h, m : /\ h = [heap EXCEPT !.node[link].alias = alias] /\ m = [Now EXCEPT !.heap = h]
                           /\ Become(Resume(Pop(AppendLink(m, link), n)))
    <3>1. PICK alias : Become(Resume(Pop(AppendLink([Now EXCEPT !.heap.node[link].alias = alias], link), n)))
      BY <1>4, <2>2, <2>3, Zenon DEF LinkEndInAnchorText
    <3>2. PICK h : h = [heap EXCEPT !.node[link].alias = alias]
      OBVIOUS
    <3>3. PICK m : m = [Now EXCEPT !.heap = h]
      OBVIOUS
    <3>4. m = [Now EXCEPT !.heap.node[link].alias = alias]
      <4>1. PICK o, g : o = Now /\ g = o.heap
        OBVIOUS
      <4>2. g = heap
        BY <4>1 DEF Now
      <4>3. h = [g EXCEPT !.node[link].alias = alias] /\ m = [o EXCEPT !.heap = h]
        BY <3>2, <3>3, <4>1, <4>2, Zenon
      <4>4. m = [o EXCEPT !.heap.node[link].alias = alias]
        BY <4>1, <4>3, Zenon
      <4>5. QED
        BY <4>1, <4>4, Zenon
    <3>5. QED
      BY <3>1, <3>2, <3>3, <3>4, Zenon
  <2>5. /\ Good(Now, freed) /\ Now.heap = heap /\ Now.stack = stack /\ Now.frames = frames
        /\ Depth \in Nat /\ Len(stack) = Depth /\ stack[Depth] = Top /\ Nested(stack) /\ Depth > 0
    BY <2>1, OwnsOn
  <2>6. Good(m, freed) /\ m.stack = stack /\ m.frames = frames
    <3>1. Follows(heap, h, freed, None)
      <4>1. IsHeap(heap) /\ Forest(heap, freed)
        BY <2>5, GoodBasics
      <4>2. Retold(heap, h)
        BY <2>4, <4>1, TextIsSet
      <4>3. QED
        BY <4>1, <4>2, RetoldFollows
    <3>2. PICK o : o = Now
      OBVIOUS
    <3>3. Good(o, freed) /\ o.heap = heap /\ m = [o EXCEPT !.heap = h]
      BY <2>4, <2>5, <3>2
    <3>4. Good(m, freed) /\ m.stack = o.stack /\ m.frames = o.frames
      BY <3>1, <3>3, HeapChanged
    <3>5. QED
      BY <2>5, <3>2, <3>4
  <2>7. Top = "INTERNAL_LINK_ANCHOR_TEXT" /\ UNCHANGED freed
    BY <1>4 DEF LinkEndInAnchorText, rest
  <2>8. Len(stack) > 2 /\ stack[Len(stack) - 1] = "INTERNAL_LINK"
    BY <2>5, <2>7, BelowTop
  <2>9. PICK m1, m2 : m1 = AppendLink(m, link) /\ m2 = Resume(Pop(m1, n))
    OBVIOUS
  <2>10. Good(m2, freed)
    <3>1. /\ Len(m.stack) > n /\ m.stack[Len(m.stack) - n + 1] = "INTERNAL_LINK"
          /\ n = 2 => m.stack[Len(m.stack)] = "INTERNAL_LINK_ANCHOR_TEXT"
          /\ link = m.frames[Len(m.stack) - n + 1].section
      BY <2>2, <2>3, <2>5, <2>6, <2>7, <2>8 DEF LinkFrame
    <3>2. m1 \in {AppendLink(m, link), AppendRedirect(m, link)}
      BY <2>9
    <3>3. QED
      BY <2>6, <2>9, <3>1, <3>2, GoodLinkEnd
  <2>11. QED
    BY <2>4, <2>7, <2>9, <2>10, BecomeOwns
<1>5. QED
  BY <1>1, <1>2, <1>3, <1>4

(* The contexts that may be opened anywhere.                               *)
Freely == {"IMAGE", "EXTERNAL_LINK", "REF", "HEADING", "CATEGORY_LINK", "LANGUAGE_LINK", "PRE", "MATH",
           "SOURCE", "GALLERY", "TABLE"}
LEMMA OpensFreelyOwns ==
  ASSUME StackInv, Owns, NEW tok, On(tok), tok \subseteq TakenAnywhere, NEW type \in Freely,
         NEW section, section = SectionOf(type),
         NEW m \in {Now, TextSoFar(Now), Flush(Now), FlushText(Now)}
  PROVE  /\ Good(Open(m, type, section), freed) /\ Open(m, type, section).stack = Append(stack, type)
         /\ Takes(stack, type)
         /\ Become(Open(m, type, section)) /\ UNCHANGED freed => Owns'
<1>1. type \in Opened
  BY FinishingSections DEF Freely, Finishing
<1>2. Takes(stack, type)
  BY OpensAnywhere DEF Freely
<1>3. PICK m2 : m2 = Open(m, type, section)
  OBVIOUS
<1>4. Good(m2, freed) /\ m2.stack = Append(stack, type)
  BY <1>1, <1>2, <1>3, OpensOnTopOwns
<1>5. Become(m2) /\ UNCHANGED freed => Owns'
  BY <1>4, BecomeOwns
<1>6. QED
  BY <1>2, <1>3, <1>4, <1>5, Zenon

LEMMA SectionsOfThem ==
  /\ SectionOf("IMAGE") = "image" /\ SectionOf("TEMPLATE") = "template" /\ SectionOf("REF") = "ref"
  /\ SectionOf("EXTERNAL_LINK") = "external_link" /\ SectionOf("HEADING") = "heading"
  /\ SectionOf("CATEGORY_LINK") = "category" /\ SectionOf("LANGUAGE_LINK") = "language_link"
  /\ SectionOf("TABLE") = "table" /\ SectionOf("TABLE_CAPTION") = "table_caption"
  /\ SectionOf("TABLE_ROW") = "row" /\ SectionOf("TABLE_CELL") = "cell" /\ SectionOf("NOWIKI") = "text"
  /\ SectionOf("PRE") = "pre" /\ SectionOf("MATH") = "math" /\ SectionOf("SOURCE") = "source"
  /\ SectionOf("GALLERY") = "gallery"
BY DEF SectionOf

(* The end of a section that has only its own text.                        *)
LEMMA FinishesWithTextOwns ==
  ASSUME StackInv, Owns, Depth > 0, Top \in Finishing, NEW text,
         Become(Finished(WithText(Now, text))), UNCHANGED freed
  PROVE  Owns'
<1>1. PICK m : m = WithText(Now, text)
  OBVIOUS
<1>2. Good(m, freed) /\ m.stack = stack
  BY <1>1, OwnsTop, GoodText
<1>3. QED
  BY <1>1, <1>2, FinishesTopOwns

(* An alias is set.                                                        *)
LEMMA AliasOwns ==
  ASSUME NEW m, NEW gone, Good(m, gone), NEW sec, NEW alias,
         NEW m2, m2 = [m EXCEPT !.heap.node[sec].alias = alias]
  PROVE  Good(m2, gone) /\ m2.stack = m.stack /\ m2.frames = m.frames
<1>1. PICK h, h2 : h = m.heap /\ h2 = [h EXCEPT !.node[sec].alias = alias]
  OBVIOUS
<1>2. m2 = [m EXCEPT !.heap = h2]
  BY <1>1, Zenon
<1>3. IsHeap(h) /\ Forest(h, gone)
  BY <1>1, GoodBasics
<1>4. Follows(h, h2, gone, None)
  BY <1>1, <1>3, TextIsSet, RetoldFollows
<1>5. QED
  BY <1>1, <1>2, <1>4, HeapChanged

LEMMA SpecialLinksOwn ==
  ASSUME StackInv, Owns
  PROVE  /\ CategoryLinkBegin => Owns'
         /\ LanguageLinkBegin => Owns'
         /\ LinkEndInCategory \/ LinkEndInLanguageLink => Owns'
<1>1. ASSUME CategoryLinkBegin PROVE Owns'
  <2>1. PICK tok : tok = {"[[Category:"} /\ On(tok)
    BY <1>1 DEF CategoryLinkBegin
  <2>2. PICK m \in {Now, TextSoFar(Now), Flush(Now), FlushText(Now)} :
          Become(Open(m, "CATEGORY_LINK", "category"))
    BY <1>1 DEF CategoryLinkBegin, OpenSpecial
  <2>3. tok \subseteq TakenAnywhere /\ UNCHANGED freed
    BY <1>1, <2>1, TakenTokens DEF CategoryLinkBegin, rest
  <2>4. "CATEGORY_LINK" \in Freely /\ SectionOf("CATEGORY_LINK") = "category"
    BY SectionsOfThem DEF Freely
  <2>5. QED
    BY <2>1, <2>2, <2>3, <2>4, OpensFreelyOwns
<1>2. ASSUME LanguageLinkBegin PROVE Owns'
  <2>1. PICK tok : tok = {"[[de:"} /\ On(tok)
    BY <1>2 DEF LanguageLinkBegin
  <2>2. PICK o : o = OpenSpecial("LANGUAGE_LINK", "language_link")
    OBVIOUS
  <2>3. PICK m \in {Now, TextSoFar(Now), Flush(Now), FlushText(Now)} :
          o = Open(m, "LANGUAGE_LINK", "language_link")
    BY <2>2 DEF OpenSpecial
  <2>4. tok \subseteq TakenAnywhere /\ UNCHANGED freed
    BY <1>2, <2>1, TakenTokens DEF LanguageLinkBegin, rest
  <2>5. "LANGUAGE_LINK" \in Freely /\ SectionOf("LANGUAGE_LINK") = "language_link"
    BY SectionsOfThem DEF Freely
  <2>6. Good(o, freed)
    BY <2>1, <2>3, <2>4, <2>5, OpensFreelyOwns
  <2>7. PICK o2 : o2 = [o EXCEPT !.heap.node[TopOf(o).section].alias = RetrieveLanguage]
    OBVIOUS
  <2>8. Good(o2, freed)
    BY <2>6, <2>7, AliasOwns
  <2>9. Become(o2)
    BY <1>2, <2>2, <2>7, Zenon DEF LanguageLinkBegin
  <2>10. QED
    BY <2>4, <2>8, <2>9, BecomeOwns
<1>3. ASSUME LinkEndInCategory \/ LinkEndInLanguageLink PROVE Owns'
  <2>1. PICK tok : On(tok)
    BY <1>3 DEF LinkEndInCategory, LinkEndInLanguageLink
  <2>2. Depth > 0
    BY <2>1, OnTop
  <2>3. /\ Top \in Finishing /\ Become(Finished(WithText(Now, Str(F.start, pos)))) /\ UNCHANGED freed
    BY <1>3 DEF LinkEndInCategory, LinkEndInLanguageLink, CloseSpecial, rest, Finishing
  <2>4. QED
    BY <2>2, <2>3, FinishesWithTextOwns
<1>4. QED
  BY <1>1, <1>2, <1>3

-----------------------------------------------------------------------------
(* Templates, images and their parameters.                                 *)

(* The values or the parameter on top are closed.                          *)
LEMMA CloseParameterOwns ==
  ASSUME StackInv, Owns, Depth > 0, Top = "PARAMETER"
  PROVE  /\ Good(CloseParameter, freed) /\ CloseParameter.stack = Below(stack, 1)
         /\ Takes(Below(stack, 1), "PARAMETER")
<1>1. /\ Good(Now, freed) /\ Now.stack = stack /\ Len(stack) = Depth /\ Depth \in Nat
      /\ Len(Below(stack, 1)) = Depth - 1 /\ Depth > 1 /\ Takes(Below(stack, 1), "PARAMETER")
  BY OwnsTop, CloseParameterShape
<1>2. PICK a : a = TextSoFar(Now)
  OBVIOUS
<1>3. Good(a, freed) /\ a.stack = stack
  BY <1>1, <1>2, GoodTextSoFar
<1>4. PICK b : b = Pop(a, 1)
  OBVIOUS
<1>5. Good(b, freed) /\ b.stack = Below(stack, 1) /\ Len(b.stack) > 0
  <2>1. 1 \in 0 .. Len(a.stack)
    BY <1>1, <1>3
  <2>2. Good(b, freed) /\ IsPop(a, b, 1)
    BY <1>3, <1>4, <2>1, GoodPop
  <2>3. QED
    BY <1>1, <1>3, <2>2 DEF IsPop
<1>6. PICK c : c = CountParameter(b)
  OBVIOUS
<1>7. Good(c, freed) /\ c.stack = b.stack
  <2>1. PICK field, v : field = "params" /\ v = TopOf(b).params + 1 /\ c = SetTop(b, field, v)
    BY <1>6 DEF CountParameter
  <2>2. Good(c, freed) /\ Same(b, c)
    BY <1>5, <2>1, GoodSetTop
  <2>3. QED
    BY <2>2 DEF Same
<1>8. PICK h, h2, text : h = c.heap /\ h2 = SetText(h, F.section, text) /\ text = <<ToString(TopOf(c).params)>>
  OBVIOUS
<1>9. PICK d : d = [c EXCEPT !.heap = h2]
  OBVIOUS
<1>10. Good(d, freed) /\ d.stack = c.stack
  <2>1. IsHeap(h) /\ Forest(h, freed)
    BY <1>7, <1>8, GoodBasics
  <2>2. Follows(h, h2, freed, None)
    BY <1>8, <2>1, TextIsSet, RetoldFollows
  <2>3. QED
    BY <1>7, <1>8, <1>9, <2>2, HeapChanged
<1>11. CloseParameter = d
  BY <1>2, <1>4, <1>6, <1>8, <1>9, Zenon DEF CloseParameter
<1>12. QED
  BY <1>1, <1>5, <1>7, <1>10, <1>11

LEMMA CloseValueOwns ==
  ASSUME StackInv, Owns, Depth > 0, Top = "VALUE"
  PROVE  /\ Good(CloseValue, freed) /\ CloseValue.stack = Below(stack, 2)
         /\ Takes(Below(stack, 2), "PARAMETER")
<1>1. /\ Good(Now, freed) /\ Now.stack = stack /\ Len(stack) = Depth /\ Depth \in Nat
      /\ Depth > 2 /\ Takes(Below(stack, 2), "PARAMETER")
  BY OwnsTop, CloseValueShape
<1>2. PICK a : a = TextSoFar(Now)
  OBVIOUS
<1>3. Good(a, freed) /\ a.stack = stack
  BY <1>1, <1>2, GoodTextSoFar
<1>4. PICK b : b = Pop(a, 2)
  OBVIOUS
<1>5. Good(b, freed) /\ b.stack = Below(stack, 2)
  <2>1. 2 \in 0 .. Len(a.stack)
    BY <1>1, <1>3
  <2>2. Good(b, freed) /\ IsPop(a, b, 2)
    BY <1>3, <1>4, <2>1, GoodPop
  <2>3. QED
    BY <1>3, <2>2 DEF IsPop
<1>6. CloseValue = b
  BY <1>2, <1>4, Zenon DEF CloseValue
<1>7. QED
  BY <1>1, <1>5, <1>6

(* Contexts that are alike have the same section and list on top.          *)
LEMMA SameTop ==
  ASSUME NEW m, NEW gone, Good(m, gone), Len(m.stack) > 0, NEW m2, Same(m, m2)
  PROVE  TopOf(m2).section = TopOf(m).section /\ TopOf(m2).list = TopOf(m).list
<1>1. Len(m.frames) = Len(m.stack) /\ Len(m.stack) \in 1 .. Len(m.stack)
  BY GoodBasics, TopFrame
<1>2. PICK k : k = Len(m.stack)
  OBVIOUS
<1>3. /\ Len(m2.frames) = k /\ Len(m.frames) = k /\ k \in 1 .. k
      /\ m2.frames[k].section = m.frames[k].section /\ m2.frames[k].list = m.frames[k].list
  BY <1>1, <1>2 DEF Same, Alike
<1>4. QED
  BY <1>3 DEF TopOf

(* The text of the section on top is set, and its end marked.              *)
LEMMA TitleOwns ==
  ASSUME StackInv, Owns, NEW tok, On(tok), NEW text,
         NEW m, m = WithText(SetTop(Now, "stop", pos), text)
  PROVE  /\ Good(m, freed) /\ m.stack = stack /\ TopOf(m).section = F.section
         /\ TopOf(m).list = F.list
<1>1. Good(Now, freed) /\ Now.stack = stack /\ Len(Now.stack) > 0 /\ TopOf(Now) = F
  BY OwnsOn
<1>2. PICK field, v, a : field = "stop" /\ v = pos /\ a = SetTop(Now, field, v)
  OBVIOUS
<1>3. Good(a, freed) /\ Same(Now, a)
  BY <1>1, <1>2, GoodSetTop
<1>4. m = WithText(a, text)
  BY <1>2
<1>5. Good(m, freed) /\ m.stack = a.stack /\ m.frames = a.frames
  BY <1>3, <1>4, GoodText
<1>6. a.stack = stack /\ TopOf(a).section = F.section /\ TopOf(a).list = F.list
  BY <1>1, <1>3, SameTop DEF Same
<1>7. TopOf(m) = TopOf(a)
  BY <1>5 DEF TopOf
<1>8. QED
  BY <1>5, <1>6, <1>7

LEMMA NextParameterOwns ==
  ASSUME NEW m, Good(m, freed), Takes(m.stack, "PARAMETER"), Become(NextParameter(m)), UNCHANGED freed
  PROVE  Owns'
<1>1. PICK m2 : m2 = NextParameter(m)
  OBVIOUS
<1>2. Good(m2, freed)
  BY <1>1, GoodNextParameter
<1>3. QED
  BY <1>1, <1>2, BecomeOwns

LEMMA TemplatesOwn ==
  ASSUME StackInv, Owns
  PROVE  /\ ImageBegin => Owns'
         /\ TemplateBegin => Owns'
         /\ SeparatorInTemplate \/ SeparatorInImage => Owns'
         /\ EqualsInParameter => Owns'
<1>1. ASSUME ImageBegin PROVE Owns'
  <2>1. PICK tok : tok = {"[[Image:"} /\ On(tok)
    BY <1>1 DEF ImageBegin
  <2>2. PICK m \in {Now, TextSoFar(Now), Flush(Now), FlushText(Now)} : Become(Open(m, "IMAGE", "image"))
    BY <1>1 DEF ImageBegin
  <2>3. tok \subseteq TakenAnywhere /\ UNCHANGED freed
    BY <1>1, <2>1, TakenTokens DEF ImageBegin, rest
  <2>4. "IMAGE" \in Freely /\ SectionOf("IMAGE") = "image"
    BY SectionsOfThem DEF Freely
  <2>5. QED
    BY <2>1, <2>2, <2>3, <2>4, OpensFreelyOwns
<1>2. ASSUME TemplateBegin PROVE Owns'
  <2>1. PICK tok : tok = {"{{"} /\ On(tok)
    BY <1>2 DEF TemplateBegin
  <2>2. Top \in TemplateBeginIn
    <3>1. Tok \in {"{{"} /\ Top \in HandledIn(Tok)
      BY <2>1, OnTop
    <3>2. HandledIn(Tok) = TemplateBeginIn
      BY <3>1, TokensHandled
    <3>3. QED
      BY <3>1, <3>2
  <2>3. Takes(stack, "TEMPLATE")
    BY <2>1, <2>2, TakesOnTop, UnderEach DEF TemplateBeginIn
  <2>4. PICK m2 : m2 = Open(Flush(Now), "TEMPLATE", "template")
    OBVIOUS
  <2>5. "TEMPLATE" \in Opened /\ SectionOf("TEMPLATE") = "template"
    BY SectionsOfThem, FinishingSections DEF Finishing
  <2>6. Good(m2, freed)
    BY <2>1, <2>3, <2>4, <2>5, OpensOnTopOwns
  <2>7. Become(m2) /\ UNCHANGED freed
    BY <1>2, <2>4 DEF TemplateBegin, rest
  <2>8. QED
    BY <2>6, <2>7, BecomeOwns
<1>3. ASSUME SeparatorInTemplate \/ SeparatorInImage PROVE Owns'
  <2>1. PICK tok : tok = {"|"} /\ On(tok)
    BY <1>3 DEF SeparatorInTemplate, SeparatorInImage
  <2>2. PICK text : Become(NextParameter(WithText(SetTop(Now, "stop", pos), text)))
    BY <1>3 DEF SeparatorInTemplate, SeparatorInImage
  <2>3. PICK m : m = WithText(SetTop(Now, "stop", pos), text)
    OBVIOUS
  <2>4. Good(m, freed) /\ m.stack = stack
    BY <2>1, <2>3, TitleOwns
  <2>5. Takes(stack, "PARAMETER")
    BY <1>3, <2>1, TakesOnTop, UnderEach DEF SeparatorInTemplate, SeparatorInImage
  <2>6. UNCHANGED freed
    BY <1>3 DEF SeparatorInTemplate, SeparatorInImage, rest
  <2>7. QED
    BY <2>2, <2>3, <2>4, <2>5, <2>6, NextParameterOwns
<1>4. ASSUME EqualsInParameter PROVE Owns'
  <2>1. PICK tok : On(tok)
    BY <1>4 DEF EqualsInParameter
  <2>2. PICK m : m = WithText(SetTop(Now, "stop", pos), Strip(Str(F.start, pos)))
    OBVIOUS
  <2>3. Good(m, freed) /\ m.stack = stack /\ TopOf(m).section = F.section
    BY <2>1, <2>2, TitleOwns
  <2>4. PICK type, list : type = "VALUE" /\ list = F.section
    OBVIOUS
  <2>5. Takes(m.stack, type)
    BY <1>4, <2>1, <2>3, <2>4, TakesOnTop, UnderEach DEF EqualsInParameter
  <2>6. PICK m2 : m2 = Push(m, type, None, list)
    OBVIOUS
  <2>7. Good(m2, freed)
    <3>1. type \in Sectionless /\ type # "INTERNAL_LINK_ANCHOR_TEXT" /\ list = TopOf(m).section
      BY <2>3, <2>4 DEF Sectionless
    <3>2. QED
      BY <2>3, <2>5, <2>6, <3>1, GoodPushValue
  <2>8. Become(m2) /\ UNCHANGED freed
    BY <1>4, <2>2, <2>4, <2>6 DEF EqualsInParameter, rest
  <2>9. QED
    BY <2>7, <2>8, BecomeOwns
<1>5. QED
  BY <1>1, <1>2, <1>3, <1>4

(* What remains of the stack when a parameter or value has been closed is  *)
(* a template or an image on top of another context.                       *)
LEMMA ParameterIsOn ==
  ASSUME NEW s, Nested(s), NEW n \in {1, 2}, Len(s) > 0,
         s[Len(s)] = IF n = 1 THEN "PARAMETER" ELSE "VALUE"
  PROVE  /\ Nested(Below(s, n)) /\ Len(Below(s, n)) > 1
         /\ Below(s, n)[Len(Below(s, n))] \in {"TEMPLATE", "IMAGE"}
<1>1. s \in Seq(Context) /\ Len(s) \in Nat
  BY DEF Nested
<1>2. PICK k \in Nat : k = Len(s) - n /\ k > 0 /\ s[k] \in {"TEMPLATE", "IMAGE"}
  <2>1. CASE n = 1
    <3>1. Len(s) > 1 /\ s[Len(s) - 1] \in Under("PARAMETER")
      BY <2>1, BelowTop
    <3>2. QED
      BY <1>1, <2>1, <3>1, UnderEach
  <2>2. CASE n = 2
    <3>1. Len(s) > 2 /\ s[Len(s) - 2] \in {"TEMPLATE", "IMAGE"}
      BY <2>2, BelowTop
    <3>2. QED
      BY <1>1, <2>2, <3>1
  <2>3. QED
    BY <2>1, <2>2
<1>3. n \in 0 .. Len(s) /\ Len(s) - n = k
  BY <1>1, <1>2
<1>4. Len(Below(s, n)) = k /\ \A d \in 1 .. k : Below(s, n)[d] = s[d]
  BY <1>1, <1>3, BelowIsPrefix
<1>5. Nested(Below(s, n))
  BY <1>3, BelowIsNested
<1>6. Below(s, n)[k] = s[k]
  BY <1>2, <1>4
<1>7. QED
  <2>1. PICK b : b = Below(s, n)
    OBVIOUS
  <2>2. Nested(b) /\ Len(b) = k /\ b[k] \in {"TEMPLATE", "IMAGE"} /\ k > 0
    BY <1>2, <1>4, <1>5, <1>6, <2>1
  <2>3. Len(b) > 1
    BY <2>2, BelowTop
  <2>4. QED
    BY <2>1, <2>2, <2>3

LEMMA ParametersEndOwn ==
  ASSUME StackInv, Owns
  PROVE  /\ SeparatorInParameter \/ SeparatorInValue => Owns'
         /\ TemplateEndInParameter \/ LinkEndInParameter => Owns'
         /\ TemplateEndInValue \/ LinkEndInValue => Owns'
         /\ TemplateEndInImageValue => Owns'
<1>1. ASSUME NEW n \in {1, 2}, NEW m, Depth > 0,
             \/ n = 1 /\ Top = "PARAMETER" /\ m = CloseParameter
             \/ n = 2 /\ Top = "VALUE" /\ m = CloseValue
      PROVE  /\ Good(m, freed) /\ m.stack = Below(stack, n) /\ Takes(Below(stack, n), "PARAMETER")
             /\ Become(Finished(m)) /\ UNCHANGED freed => Owns'
  <2>1. Good(m, freed) /\ m.stack = Below(stack, n) /\ Takes(Below(stack, n), "PARAMETER")
    BY <1>1, CloseParameterOwns, CloseValueOwns
  <2>2. Nested(stack) /\ Len(stack) > 0 /\ stack[Len(stack)] = IF n = 1 THEN "PARAMETER" ELSE "VALUE"
    BY <1>1, OwnsTop
  <2>3. PICK b : b = Below(stack, n)
    OBVIOUS
  <2>4. Len(b) > 1 /\ b[Len(b)] \in {"TEMPLATE", "IMAGE"}
    BY <2>2, <2>3, ParameterIsOn
  <2>5. PICK m2 : m2 = Finished(m)
    OBVIOUS
  <2>6. Good(m2, freed)
    <3>1. Len(m.stack) > 1 /\ m.stack[Len(m.stack)] \in Finishing
      BY <2>1, <2>3, <2>4 DEF Finishing
    <3>2. QED
      BY <2>1, <2>5, <3>1, GoodFinished
  <2>7. Become(m2) /\ UNCHANGED freed => Owns'
    BY <2>6, BecomeOwns
  <2>8. QED
    BY <2>1, <2>5, <2>7, Zenon
<1>2. PICK n1 \in {1, 2}, n2 \in {1, 2} : n1 = 1 /\ n2 = 2
  OBVIOUS
<1>3. PICK p, v : p = CloseParameter /\ v = CloseValue
  OBVIOUS
<1>4. Depth > 0 /\ Top = "PARAMETER" =>
        /\ Good(p, freed) /\ Takes(p.stack, "PARAMETER")
        /\ Become(Finished(p)) /\ UNCHANGED freed => Owns'
  BY <1>1, <1>2, <1>3
<1>5. Depth > 0 /\ Top = "VALUE" =>
        /\ Good(v, freed) /\ Takes(v.stack, "PARAMETER")
        /\ Become(Finished(v)) /\ UNCHANGED freed => Owns'
  BY <1>1, <1>2, <1>3
<1>6. ASSUME SeparatorInParameter \/ SeparatorInValue PROVE Owns'
  <2>1. PICK tok : On(tok)
    BY <1>6 DEF SeparatorInParameter, SeparatorInValue
  <2>2. Depth > 0
    BY <2>1, OnTop
  <2>3. PICK m : Good(m, freed) /\ Takes(m.stack, "PARAMETER") /\ Become(NextParameter(m))
    <3>1. CASE SeparatorInParameter
      <4>1. Top = "PARAMETER" /\ Become(NextParameter(p))
        BY <1>3, <3>1, Zenon DEF SeparatorInParameter
      <4>2. QED
        BY <1>4, <2>2, <4>1
    <3>2. CASE SeparatorInValue
      <4>1. Top = "VALUE" /\ Become(NextParameter(v))
        BY <1>3, <3>2, Zenon DEF SeparatorInValue
      <4>2. QED
        BY <1>5, <2>2, <4>1
    <3>3. QED
      BY <1>6, <3>1, <3>2
  <2>4. UNCHANGED freed
    BY <1>6 DEF SeparatorInParameter, SeparatorInValue, rest
  <2>5. QED
    BY <2>3, <2>4, NextParameterOwns
<1>7. ASSUME TemplateEndInParameter \/ LinkEndInParameter PROVE Owns'
  <2>1. PICK tok : On(tok)
    BY <1>7 DEF TemplateEndInParameter, LinkEndInParameter
  <2>2. Top = "PARAMETER" /\ Become(Finished(p)) /\ UNCHANGED freed
    BY <1>3, <1>7 DEF TemplateEndInParameter, LinkEndInParameter, rest
  <2>3. QED
    BY <1>4, <2>1, <2>2, OnTop
<1>8. ASSUME TemplateEndInValue \/ LinkEndInValue PROVE Owns'
  <2>1. PICK tok : On(tok)
    BY <1>8 DEF TemplateEndInValue, LinkEndInValue
  <2>2. Top = "VALUE" /\ Become(Finished(v)) /\ UNCHANGED freed
    BY <1>3, <1>8 DEF TemplateEndInValue, LinkEndInValue, rest
  <2>3. QED
    BY <1>5, <2>1, <2>2, OnTop
<1>9. ASSUME TemplateEndInImageValue PROVE Owns'
  <2>1. PICK tok : On(tok)
    BY <1>9 DEF TemplateEndInImageValue
  <2>2. Top = "VALUE" /\ Become(v) /\ UNCHANGED freed
    BY <1>3, <1>9 DEF TemplateEndInImageValue
  <2>3. Good(v, freed)
    BY <1>5, <2>1, <2>2, OnTop
  <2>4. QED
    BY <2>2, <2>3, BecomeOwns
<1>10. QED
  BY <1>6, <1>7, <1>8, <1>9

LEMMA TemplatesEndOwn ==
  ASSUME StackInv, Owns
  PROVE  TemplateEndInTemplate \/ LinkEndInImage => Owns'
<1>1. ASSUME TemplateEndInTemplate PROVE Owns'
  <2>1. PICK tok : On(tok)
    BY <1>1 DEF TemplateEndInTemplate
  <2>2. Depth > 0
    BY <2>1, OnTop
  <2>3. /\ Top \in Finishing /\ Become(Finished(WithText(Now, Str(F.tok + 1, pos))))
        /\ UNCHANGED freed
    BY <1>1 DEF TemplateEndInTemplate, rest, Finishing
  <2>4. QED
    BY <2>2, <2>3, FinishesWithTextOwns
<1>2. ASSUME LinkEndInImage PROVE Owns'
  <2>1. PICK tok : On(tok)
    BY <1>2 DEF LinkEndInImage
  <2>2. Depth > 0 /\ Good(Now, freed) /\ Now.stack = stack
    BY <2>1, OwnsOn
  <2>3. PICK o \in {Now, WithText(Now, Str(F.start, pos))} : Become(Finished(o))
    BY <1>2 DEF LinkEndInImage
  <2>4. Good(o, freed) /\ o.stack = stack
    BY <2>2, <2>3, GoodText
  <2>5. Top \in Finishing /\ UNCHANGED freed
    BY <1>2 DEF LinkEndInImage, rest, Finishing
  <2>6. QED
    BY <2>2, <2>3, <2>4, <2>5, FinishesTopOwns
<1>3. QED
  BY <1>1, <1>2

-----------------------------------------------------------------------------
(* Text that is not parsed, references, external links and headings.       *)

LEMMA RawBeginsOwn ==
  ASSUME StackInv, Owns
  PROVE  /\ NowikiBegin => Owns'
         /\ PreBegin \/ MathBegin \/ SourceBegin \/ GalleryBegin => Owns'
<1>1. ASSUME NowikiBegin PROVE Owns'
  <2> DEFINE a == Append(stack, "EXTERNAL_LINK_VALUE")
  <2>1. PICK tok : tok = {"<nowiki>"} /\ On(tok)
    BY <1>1 DEF NowikiBegin
  <2>2. Depth \in Nat /\ Len(stack) = Depth /\ Top \in Anywhere
    BY <2>1, OnTop, OnAnywhere, TakenTokens
  <2>3. UNCHANGED freed
    BY <1>1 DEF NowikiBegin, rest
  <2>4. PICK type, section : /\ type = "NOWIKI" /\ type \in Opened /\ section = "text"
                             /\ section = SectionOf(type)
    BY FinishingSections, SectionsOfThem DEF Finishing
  <2>5. CASE Top = "EXTERNAL_LINK"
    <3>1. Good(AddressEnds, freed) /\ AddressEnds.stack = a
      BY <2>1, <2>5, AddressEndsOwns
    <3>2. Takes(a, type)
      <4>1. Len(a) = Depth + 1 /\ a[Depth + 1] = "EXTERNAL_LINK_VALUE"
        BY <2>1, <2>5, AddressEndsShape
      <4>2. "EXTERNAL_LINK_VALUE" \in Under("NOWIKI")
        BY UnderEach DEF Anywhere, Context, Raw
      <4>3. QED
        BY <2>2, <2>4, <4>1, <4>2, UnderEach DEF Takes
    <3>3. PICK m2 : m2 = Open(AddressEnds, type, section)
      OBVIOUS
    <3>4. Good(m2, freed)
      BY <2>4, <3>1, <3>2, <3>3, GoodOpen
    <3>5. Become(m2)
      BY <1>1, <2>4, <2>5, <3>3, Zenon DEF NowikiBegin
    <3>6. QED
      BY <2>3, <3>4, <3>5, BecomeOwns
  <2>6. CASE Top # "EXTERNAL_LINK"
    <3>1. Takes(stack, type)
      BY <2>1, <2>2, <2>4, <2>6, TakesOnTop, UnderEach
    <3>2. PICK m2 : m2 = Open(FlushText(Now), type, section)
      OBVIOUS
    <3>3. Good(m2, freed)
      BY <2>1, <2>4, <3>1, <3>2, OpensOnTopOwns
    <3>4. Become(m2)
      BY <1>1, <2>4, <2>6, <3>2, Zenon DEF NowikiBegin
    <3>5. QED
      BY <2>3, <3>3, <3>4, BecomeOwns
  <2>7. QED
    BY <2>5, <2>6
<1>2. ASSUME PreBegin \/ MathBegin \/ SourceBegin \/ GalleryBegin PROVE Owns'
  <2>1. PICK tok, type, section : /\ tok \in TakenAnywhere /\ On({tok})
                                 /\ type \in Freely /\ section = SectionOf(type)
                                 /\ OpenRaw(type, section)
    BY <1>2, TakenTokens, SectionsOfThem DEF PreBegin, MathBegin, SourceBegin, GalleryBegin, Freely
  <2>2. PICK toks : toks = {tok} /\ On(toks) /\ toks \subseteq TakenAnywhere
    BY <2>1
  <2>3. PICK m \in {Now, TextSoFar(Now), Flush(Now), FlushText(Now)} : Become(Open(m, type, section))
    BY <2>1 DEF OpenRaw
  <2>4. UNCHANGED freed
    BY <2>1 DEF OpenRaw, rest
  <2>5. QED
    BY <2>1, <2>2, <2>3, <2>4, OpensFreelyOwns
<1>3. QED
  BY <1>1, <1>2

LEMMA RawEndsOwn ==
  ASSUME StackInv, Owns
  PROVE  /\ NowikiEnd => Owns'
         /\ PreEnd \/ MathEnd \/ SourceEnd \/ GalleryEnd => Owns'
         /\ SourceEndElsewhere => Owns'
<1>1. ASSUME NEW tok, NEW type \in Raw, OnRaw(tok, type)
      PROVE  Depth > 0 /\ Top \in Finishing
  <2>1. phase = "scan" /\ Top \in Raw
    BY <1>1 DEF OnRaw, Scanning
  <2>2. QED
    BY <2>1 DEF StackInv, Raw, Finishing
<1>2. ASSUME NEW tok, NEW type \in Raw, OnRaw(tok, type), CloseRaw
      PROVE  Owns'
  <2>1. Become(Finished(WithText(Now, Str(F.start, pos)))) /\ UNCHANGED freed
    BY <1>2 DEF CloseRaw, rest
  <2>2. QED
    BY <1>1, <1>2, <2>1, FinishesWithTextOwns
<1>3. ASSUME NowikiEnd PROVE Owns'
  <2>1. PICK tok, type : type \in Raw /\ OnRaw(tok, type)
    BY <1>3 DEF NowikiEnd, Raw
  <2>2. CASE CloseRaw
    BY <1>2, <2>1, <2>2
  <2>3. CASE Become(Resume(Pop(Now, 1))) /\ UNCHANGED rest
    <3>1. Depth > 0 /\ Top \in Finishing
      BY <1>1, <2>1
    <3>2. PICK o : o = Now
      OBVIOUS
    <3>3. Good(o, freed) /\ Len(o.stack) \in Nat /\ Len(o.stack) > 1
      <4>1. Good(Now, freed) /\ Now.stack = stack /\ Nested(stack) /\ Len(stack) > 0 /\ Len(stack) \in Nat
            /\ stack[Len(stack)] # "ROOT"
        BY <3>1, OwnsTop DEF Finishing
      <4>2. Len(stack) > 1
        BY <4>1, BelowTop
      <4>3. QED
        BY <3>2, <4>1, <4>2
    <3>4. PICK n \in {1, 2} : n = 1 /\ n \in 0 .. Len(o.stack) /\ Len(o.stack) - n > 0
      BY <3>3
    <3>5. PICK m : m = Pop(o, n)
      OBVIOUS
    <3>6. Good(m, freed) /\ Len(m.stack) > 0
      BY <3>3, <3>4, <3>5, GoodPop DEF IsPop
    <3>7. PICK m2 : m2 = Resume(m)
      OBVIOUS
    <3>8. Good(m2, freed)
      BY <3>6, <3>7, GoodResume
    <3>9. Become(m2) /\ UNCHANGED freed
      BY <2>3, <3>2, <3>4, <3>5, <3>7 DEF rest
    <3>10. QED
      BY <3>8, <3>9, BecomeOwns
  <2>4. QED
    BY <1>3, <2>2, <2>3 DEF NowikiEnd
<1>4. ASSUME PreEnd \/ MathEnd \/ SourceEnd \/ GalleryEnd PROVE Owns'
  <2>1. PICK tok, type : type \in Raw /\ OnRaw(tok, type) /\ CloseRaw
    BY <1>4 DEF PreEnd, MathEnd, SourceEnd, GalleryEnd, Raw
  <2>2. QED
    BY <1>2, <2>1
<1>5. ASSUME SourceEndElsewhere PROVE Owns'
  <2>1. UNCHANGED <<stack, frames, heap, freed>>
    BY <1>5 DEF SourceEndElsewhere
  <2>2. QED
    BY <2>1 DEF Owns, Now
<1>6. QED
  BY <1>3, <1>4, <1>5

LEMMA ReferencesOwn ==
  ASSUME StackInv, Owns
  PROVE  /\ Ref => Owns'
         /\ RefBegin => Owns'
         /\ RefEnd => Owns'
<1>1. ASSUME Ref PROVE Owns'
  <2>1. PICK tok : On(tok)
    BY <1>1 DEF Ref
  <2>2. PICK m : m = Flush(Now)
    OBVIOUS
  <2>3. Good(m, freed) /\ Len(m.stack) > 0
    <3>1. Good(Now, freed) /\ Now.stack = stack /\ Len(Now.stack) > 0
      BY <2>1, OwnsOn
    <3>2. Good(m, freed) /\ Same(Now, m)
      BY <2>2, <3>1, GoodFlush
    <3>3. QED
      BY <3>1, <3>2 DEF Same
  <2>4. PICK h, type, h1, new, list : /\ h = m.heap /\ type = "ref" /\ h1 = Build(h, type)
                                      /\ new = Fresh(h) /\ list = TopOf(m).list
    OBVIOUS
  <2>5. PICK h3 : h3 = AppendSection(h1, list, new)
    OBVIOUS
  <2>6. Collects(h, list) /\ IsHeap(h) /\ Forest(h, freed)
    BY <2>3, <2>4, TopFrame, GoodBasics DEF FrameOK
  <2>7. list \in Sections(h) /\ type \in Holds(Type(h, list))
    BY <2>4, <2>6 DEF Collects, InlineSection
  <2>8. Follows(m.heap, h3, freed, None)
    <3>1. Follows(h, h3, freed, None)
      BY <2>4, <2>5, <2>6, <2>7, BuiltIsListed
    <3>2. QED
      BY <2>4, <3>1
  <2>9. PICK o : o = [m EXCEPT !.heap = h3]
    OBVIOUS
  <2>10. Good(o, freed) /\ o.stack = m.stack
    <3>1. h3 = m.heap \/ Follows(m.heap, h3, freed, None)
      BY <2>8
    <3>2. Good(m, freed)
      BY <2>3
    <3>3. Good(o, freed) /\ o.heap = h3 /\ o.stack = m.stack /\ o.frames = m.frames /\ Same(m, o)
      BY <2>9, <3>1, <3>2, HeapChanged
    <3>4. QED
      BY <3>3
  <2>11. PICK m2 : m2 = Resume(o)
    OBVIOUS
  <2>12. Good(m2, freed)
    BY <2>3, <2>10, <2>11, GoodResume
  <2>13. PICK m1 : m1 = [m EXCEPT !.heap = h1]
    OBVIOUS
  <2>14. Become(Resume(AppendTo(m1, new)))
    BY <1>1, <2>2, <2>4, <2>13, Zenon DEF Ref
  <2>15. AppendTo(m1, new) = o
    <3>1. Good(m, freed) /\ h1 = m1.heap /\ m1.frames = m.frames /\ o = [m1 EXCEPT !.heap = h3]
      BY <2>3, <2>9, <2>13 DEF Good
    <3>2. TopOf(m1).list = list
      BY <2>4, <3>1 DEF TopOf
    <3>3. QED
      BY <2>5, <3>1, <3>2 DEF AppendTo
  <2>16. Become(m2) /\ UNCHANGED freed
    BY <1>1, <2>11, <2>14, <2>15 DEF Ref, rest
  <2>17. QED
    BY <2>12, <2>16, BecomeOwns
<1>2. ASSUME RefBegin PROVE Owns'
  <2>1. PICK tok : tok = {"<ref>"} /\ On(tok)
    BY <1>2 DEF RefBegin
  <2>2. tok \subseteq TakenAnywhere /\ UNCHANGED freed
    BY <1>2, <2>1, TakenTokens DEF RefBegin, rest
  <2>3. PICK m \in {Now, TextSoFar(Now), Flush(Now), FlushText(Now)} : Become(Open(m, "REF", "ref"))
    BY <1>2 DEF RefBegin
  <2>4. "REF" \in Freely /\ SectionOf("REF") = "ref"
    BY SectionsOfThem DEF Freely
  <2>5. QED
    BY <2>1, <2>2, <2>3, <2>4, OpensFreelyOwns
<1>3. ASSUME RefEnd PROVE Owns'
  <2>1. PICK tok : tok = {"</ref>"} /\ On(tok)
    BY <1>3 DEF RefEnd
  <2>2. Tok \in tok /\ Top \in HandledIn(Tok)
    BY <2>1, OnTop
  <2>3. Top = "REF" /\ Top \in Finishing
    BY <2>1, <2>2, TokensHandled DEF Finishing
  <2>4. UNCHANGED freed
    BY <1>3 DEF RefEnd
  <2>5. CASE UNCHANGED <<stack, frames, heap>>
    BY <2>4, <2>5 DEF Owns, Now
  <2>6. CASE ~UNCHANGED <<stack, frames, heap>>
    <3>1. PICK stop : Become(Finished([Now EXCEPT !.heap = AppendText(@, "REF", F, F.start, stop)]))
      BY <1>3, <2>6, Zenon DEF RefEnd
    <3>2. PICK type, f, begin : type = "REF" /\ f = F /\ begin = F.start
      OBVIOUS
    <3>3. PICK h : h = AppendText(heap, type, f, begin, stop)
      OBVIOUS
    <3>4. /\ Good(Now, freed) /\ Now.heap = heap /\ Now.stack = stack /\ FrameOK(heap, freed, Top, F)
          /\ Depth > 0
      BY <2>1, OwnsOn
    <3>5. h = heap \/ Follows(heap, h, freed, None)
      <4>1. IsHeap(heap) /\ Forest(heap, freed) /\ Collects(heap, f.list)
        BY <3>2, <3>4, GoodBasics DEF FrameOK
      <4>2. QED
        BY <3>3, <4>1, TextFollows
    <3>6. PICK o : o = Now
      OBVIOUS
    <3>7. PICK m : m = [o EXCEPT !.heap = h]
      OBVIOUS
    <3>8. Good(m, freed) /\ m.stack = stack
      <4>1. Good(o, freed) /\ o.heap = heap /\ o.stack = stack
        BY <3>4, <3>6
      <4>2. QED
        BY <3>5, <3>7, <4>1, HeapChanged
    <3>9. Become(Finished(m))
      <4>1. h = AppendText(Now.heap, "REF", F, F.start, stop)
        BY <3>2, <3>3, <3>4
      <4>2. QED
        BY <3>1, <3>6, <3>7, <4>1, Zenon
    <3>10. QED
      BY <2>3, <2>4, <3>4, <3>8, <3>9, FinishesTopOwns
  <2>7. QED
    BY <2>5, <2>6
<1>4. QED
  BY <1>1, <1>2, <1>3

LEMMA ExternalLinksOwn ==
  ASSUME StackInv, Owns
  PROVE  /\ ExternalLinkBegin => Owns'
         /\ SpaceInExternalLink => Owns'
         /\ ExternalLinkEndInExternalLink => Owns'
         /\ ExternalLinkEndInValue => Owns'
<1>1. ASSUME ExternalLinkBegin PROVE Owns'
  <2>1. PICK tok : tok = {"[http://"} /\ On(tok)
    BY <1>1 DEF ExternalLinkBegin
  <2>2. tok \subseteq TakenAnywhere /\ UNCHANGED freed
    BY <1>1, <2>1, TakenTokens DEF ExternalLinkBegin, rest
  <2>3. PICK m \in {Now, TextSoFar(Now), Flush(Now), FlushText(Now)} :
          Become(Open(m, "EXTERNAL_LINK", "external_link"))
    BY <1>1 DEF ExternalLinkBegin
  <2>4. "EXTERNAL_LINK" \in Freely /\ SectionOf("EXTERNAL_LINK") = "external_link"
    BY SectionsOfThem DEF Freely
  <2>5. QED
    BY <2>1, <2>2, <2>3, <2>4, OpensFreelyOwns
<1>2. ASSUME SpaceInExternalLink PROVE Owns'
  <2>1. PICK tok : tok = {" "} /\ On(tok)
    BY <1>2 DEF SpaceInExternalLink
  <2>2. Tok \in tok /\ Top \in HandledIn(Tok)
    BY <2>1, OnTop
  <2>3. Top = "EXTERNAL_LINK"
    BY <2>1, <2>2, TokensHandled DEF SpaceIn
  <2>4. Good(AddressEnds, freed)
    BY <2>1, <2>3, AddressEndsOwns
  <2>5. Become(AddressEnds) /\ UNCHANGED freed
    BY <1>2 DEF SpaceInExternalLink, rest
  <2>6. QED
    BY <2>4, <2>5, BecomeOwns
<1>3. ASSUME ExternalLinkEndInExternalLink PROVE Owns'
  <2>1. PICK tok : On(tok)
    BY <1>3 DEF ExternalLinkEndInExternalLink
  <2>2. Depth > 0
    BY <2>1, OnTop
  <2>3. Top \in Finishing /\ Become(Finished(WithText(Now, GenerateHref))) /\ UNCHANGED freed
    BY <1>3 DEF ExternalLinkEndInExternalLink, rest, Finishing
  <2>4. QED
    BY <2>2, <2>3, FinishesWithTextOwns
<1>4. ASSUME ExternalLinkEndInValue PROVE Owns'
  <2>1. PICK tok : On(tok)
    BY <1>4 DEF ExternalLinkEndInValue
  <2>2. PICK a : a = TextSoFar(Now)
    OBVIOUS
  <2>3. /\ Good(a, freed) /\ a.stack = stack /\ Len(stack) = Depth /\ Depth \in Nat /\ Depth > 0
        /\ Nested(stack) /\ stack[Depth] = "EXTERNAL_LINK_VALUE"
    <3>1. /\ Good(Now, freed) /\ Now.stack = stack /\ Len(Now.stack) > 0 /\ Len(stack) = Depth
          /\ Depth \in Nat /\ Depth > 0 /\ Nested(stack) /\ stack[Depth] = Top
      BY <2>1, OwnsOn
    <3>2. Good(a, freed) /\ a.stack = Now.stack
      BY <2>2, <3>1, GoodTextSoFar
    <3>3. QED
      BY <1>4, <3>1, <3>2 DEF ExternalLinkEndInValue
  <2>4. Depth > 1 /\ stack[Depth - 1] = "EXTERNAL_LINK"
    BY <2>3, BelowTop, UnderEach
  <2>5. PICK n \in {1, 2} : n = 1 /\ n \in 0 .. Len(a.stack)
    BY <2>3, <2>4
  <2>6. PICK m, s : m = Pop(a, n) /\ s = Below(stack, n)
    OBVIOUS
  <2>7. Good(m, freed) /\ m.stack = s
    BY <2>3, <2>5, <2>6, GoodPop DEF IsPop
  <2>8. Len(s) > 1 /\ s[Len(s)] \in Finishing
    <3>1. stack \in Seq(Context) /\ n \in 0 .. Len(stack) /\ Depth - 1 \in 1 .. Len(stack) - n
      BY <2>3, <2>4, <2>5 DEF Nested
    <3>2. Len(s) = Len(stack) - n /\ s[Depth - 1] = stack[Depth - 1]
      BY <2>6, <3>1, BelowIsPrefix
    <3>3. Len(s) = Depth - 1 /\ s[Len(s)] = "EXTERNAL_LINK" /\ Len(s) > 0
      BY <2>3, <2>4, <2>5, <3>2
    <3>4. Nested(s)
      BY <2>7, GoodBasics
    <3>5. Len(s) > 1
      BY <3>3, <3>4, BelowTop
    <3>6. QED
      BY <3>3, <3>5 DEF Finishing
  <2>9. PICK m2 : m2 = Finished(m)
    OBVIOUS
  <2>10. Good(m2, freed)
    BY <2>7, <2>8, <2>9, GoodFinished
  <2>11. Become(m2) /\ UNCHANGED freed
    BY <1>4, <2>2, <2>5, <2>6, <2>9 DEF ExternalLinkEndInValue, rest
  <2>12. QED
    BY <2>10, <2>11, BecomeOwns
<1>5. QED
  BY <1>1, <1>2, <1>3, <1>4

LEMMA HeadingsOwn ==
  ASSUME StackInv, Owns
  PROVE  Heading \/ Formatting => Owns'
<1>1. ASSUME Heading PROVE Owns'
  <2>1. PICK tok : tok = HeadingMark /\ On(tok)
    BY <1>1 DEF Heading
  <2>2. tok \subseteq TakenAnywhere /\ UNCHANGED freed
    BY <1>1, <2>1, TakenTokens DEF Heading, rest
  <2>3. PICK a : a = TextSoFar(Now)
    OBVIOUS
  <2>4. Good(a, freed) /\ a.stack = stack /\ Depth > 0
    <3>1. Good(Now, freed) /\ Now.stack = stack /\ Len(Now.stack) > 0 /\ Depth > 0
      BY <2>1, OwnsOn
    <3>2. Good(a, freed) /\ a.stack = Now.stack
      BY <2>3, <3>1, GoodTextSoFar
    <3>3. QED
      BY <3>1, <3>2
  <2>5. CASE Top = "HEADING"
    <3>1. Become(Finished(a)) /\ Top \in Finishing
      BY <1>1, <2>3, <2>5 DEF Heading, Finishing
    <3>2. QED
      BY <2>2, <2>4, <3>1, FinishesTopOwns
  <2>6. CASE Top # "HEADING"
    <3>1. PICK m \in {Now, TextSoFar(Now), Flush(Now), FlushText(Now)} :
            Become(Open(m, "HEADING", "heading"))
      BY <1>1, <2>6 DEF Heading
    <3>2. "HEADING" \in Freely /\ SectionOf("HEADING") = "heading"
      BY SectionsOfThem DEF Freely
    <3>3. QED
      BY <2>1, <2>2, <3>1, <3>2, OpensFreelyOwns
  <2>7. QED
    BY <2>5, <2>6
<1>2. ASSUME Formatting PROVE Owns'
  <2>1. PICK tok : On(tok)
    BY <1>2 DEF Formatting
  <2>2. PICK m \in {Now, TextSoFar(Now), Flush(Now), FlushText(Now)} : Become(Resume(m))
    BY <1>2 DEF Formatting
  <2>3. Good(m, freed) /\ Len(m.stack) > 0
    <3>1. Good(Now, freed) /\ Len(Now.stack) > 0
      BY <2>1, OwnsOn
    <3>2. Good(m, freed) /\ Same(Now, m)
      BY <2>2, <3>1, GoodFlush
    <3>3. QED
      BY <3>1, <3>2 DEF Same
  <2>4. PICK m2 : m2 = Resume(m)
    OBVIOUS
  <2>5. Good(m2, freed)
    BY <2>3, <2>4, GoodResume
  <2>6. Become(m2) /\ UNCHANGED freed
    BY <1>2, <2>2, <2>4 DEF Formatting, rest
  <2>7. QED
    BY <2>5, <2>6, BecomeOwns
<1>3. QED
  BY <1>1, <1>2

-----------------------------------------------------------------------------
(* Tables.                                                                 *)

LEMMA FirstLineOwns ==
  ASSUME StackInv, Owns, Depth > 0
  PROVE  Good(FirstLine, freed) /\ FirstLine.stack = stack
<1>1. Good(Now, freed) /\ Now.stack = stack /\ Len(Now.stack) > 0
  BY OwnsTop
<1>2. PICK a : a = WithText(Now, Strip(Str(F.start, pos)))
  OBVIOUS
<1>3. Good(a, freed) /\ a.stack = stack
  BY <1>1, <1>2, GoodText
<1>4. PICK field, v, b : field = "newline" /\ v = TRUE /\ b = SetTop(a, field, v)
  OBVIOUS
<1>5. Good(b, freed) /\ b.stack = stack
  <2>1. Len(a.stack) > 0
    BY <1>1, <1>3
  <2>2. Good(b, freed) /\ Same(a, b)
    BY <1>3, <1>4, <2>1, GoodSetTop
  <2>3. QED
    BY <1>3, <2>2 DEF Same
<1>6. FirstLine \in {Now, b}
  BY <1>2, <1>4, Zenon DEF FirstLine
<1>7. QED
  BY <1>1, <1>5, <1>6

LEMMA TablesBeginOwn ==
  ASSUME StackInv, Owns
  PROVE  /\ TableBegin => Owns'
         /\ NewlineInTable \/ NewlineInTableRow => Owns'
         /\ TableCaptionBegin => Owns'
         /\ SeparatorInTableCaption => Owns'
         /\ TableRowBeginInTable => Owns'
<1>1. ASSUME TableBegin PROVE Owns'
  <2>1. PICK tok : tok = {"{|"} /\ On(tok)
    BY <1>1 DEF TableBegin
  <2>2. tok \subseteq TakenAnywhere /\ UNCHANGED freed
    BY <1>1, <2>1, TakenTokens DEF TableBegin, rest
  <2>3. PICK m \in {Now, TextSoFar(Now), Flush(Now), FlushText(Now)} : Become(Open(m, "TABLE", "table"))
    BY <1>1 DEF TableBegin
  <2>4. "TABLE" \in Freely /\ SectionOf("TABLE") = "table"
    BY SectionsOfThem DEF Freely
  <2>5. QED
    BY <2>1, <2>2, <2>3, <2>4, OpensFreelyOwns
<1>2. ASSUME NewlineInTable \/ NewlineInTableRow PROVE Owns'
  <2>1. PICK tok : On(tok)
    BY <1>2 DEF NewlineInTable, NewlineInTableRow
  <2>2. Depth > 0 /\ Good(Now, freed) /\ Now.stack = stack /\ Len(Now.stack) > 0
    BY <2>1, OwnsOn
  <2>3. PICK field, v, b : field = "newline" /\ v = TRUE /\ b = SetTop(Now, field, v)
    OBVIOUS
  <2>4. Good(b, freed)
    BY <2>2, <2>3, GoodSetTop
  <2>5. PICK m \in {FirstLine, b} : Become(m)
    BY <1>2, <2>3 DEF NewlineInTable, NewlineInTableRow
  <2>6. Good(m, freed)
    BY <2>2, <2>4, <2>5, FirstLineOwns
  <2>7. UNCHANGED freed
    BY <1>2 DEF NewlineInTable, NewlineInTableRow, rest
  <2>8. QED
    BY <2>5, <2>6, <2>7, BecomeOwns
<1>3. ASSUME TableCaptionBegin PROVE Owns'
  <2>1. PICK tok : tok = {"|+"} /\ On(tok)
    BY <1>3 DEF TableCaptionBegin
  <2>2. Tok \in tok /\ Top \in HandledIn(Tok)
    BY <2>1, OnTop
  <2>3. Top = "TABLE"
    BY <2>1, <2>2, TokensHandled
  <2>4. Takes(stack, "TABLE_CAPTION")
    BY <2>1, <2>3, TakesOnTop, UnderEach
  <2>5. PICK m2 : m2 = Open(Now, "TABLE_CAPTION", "table_caption")
    OBVIOUS
  <2>6. "TABLE_CAPTION" \in Opened /\ SectionOf("TABLE_CAPTION") = "table_caption"
    BY SectionsOfThem, FinishingSections
  <2>7. Good(m2, freed)
    BY <2>1, <2>4, <2>5, <2>6, OpensOnTopOwns
  <2>8. Become(m2) /\ UNCHANGED freed
    BY <1>3, <2>5 DEF TableCaptionBegin, rest
  <2>9. QED
    BY <2>7, <2>8, BecomeOwns
<1>4. ASSUME SeparatorInTableCaption PROVE Owns'
  <2>1. PICK tok : On(tok)
    BY <1>4 DEF SeparatorInTableCaption
  <2>2. PICK m : m = WithText(Now, Str(F.start, pos))
    OBVIOUS
  <2>3. Good(m, freed) /\ Len(m.stack) > 0
    BY <2>1, <2>2, OwnsOn, GoodText
  <2>4. PICK m2 : m2 = Resume(m)
    OBVIOUS
  <2>5. Good(m2, freed)
    BY <2>3, <2>4, GoodResume
  <2>6. Become(m2) /\ UNCHANGED freed
    BY <1>4, <2>2, <2>4 DEF SeparatorInTableCaption, rest
  <2>7. QED
    BY <2>5, <2>6, BecomeOwns
<1>5. ASSUME TableRowBeginInTable PROVE Owns'
  <2>1. PICK tok : On(tok)
    BY <1>5 DEF TableRowBeginInTable
  <2>2. Top = "TABLE"
    BY <1>5 DEF TableRowBeginInTable
  <2>3. PICK type, section : /\ type = "TABLE_ROW" /\ section = "row" /\ type \in Opened
                             /\ section = SectionOf(type)
    BY SectionsOfThem, FinishingSections
  <2>4. PICK m : m = FirstLine
    OBVIOUS
  <2>5. Good(m, freed) /\ m.stack = stack
    BY <2>1, <2>4, OnTop, FirstLineOwns
  <2>6. Takes(m.stack, type)
    BY <2>1, <2>2, <2>3, <2>5, TakesOnTop, UnderEach
  <2>7. PICK m2 : m2 = Open(m, type, section)
    OBVIOUS
  <2>8. Good(m2, freed)
    BY <2>3, <2>5, <2>6, <2>7, GoodOpen
  <2>9. Become(m2) /\ UNCHANGED freed
    BY <1>5, <2>3, <2>4, <2>7 DEF TableRowBeginInTable, rest
  <2>10. QED
    BY <2>8, <2>9, BecomeOwns
<1>6. QED
  BY <1>1, <1>2, <1>3, <1>4, <1>5

LEMMA CloseCellOwns ==
  ASSUME StackInv, Owns, Depth > 0, Top = "TABLE_CELL"
  PROVE  /\ Good(CloseCell, freed) /\ Takes(CloseCell.stack, "TABLE_CELL")
         /\ Good(CloseCellAndRow, freed) /\ Takes(CloseCellAndRow.stack, "TABLE_ROW")
         /\ Len(CloseCellAndRow.stack) > 1
         /\ CloseCellAndRow.stack[Len(CloseCellAndRow.stack)] \in Finishing
<1>1. PICK b, c : b = Below(stack, 1) /\ c = Below(b, 1)
  OBVIOUS
<1>2. Takes(b, "TABLE_CELL") /\ Takes(c, "TABLE_ROW") /\ Len(c) > 1
  BY <1>1, CloseCellShape
<1>3. /\ Len(b) > 0 /\ b[Len(b)] = "TABLE_ROW" /\ c[Len(c)] = "TABLE"
  BY <1>2, UnderEach DEF Takes
<1>4. PICK m : m = TextSoFar(Now)
  OBVIOUS
<1>5. Good(m, freed) /\ m.stack = stack /\ Len(m.stack) > 1 /\ m.stack[Len(m.stack)] = "TABLE_CELL"
  <2>1. /\ Good(Now, freed) /\ Now.stack = stack /\ Len(Now.stack) > 0 /\ Nested(stack)
        /\ stack[Len(stack)] = "TABLE_CELL"
    BY OwnsTop
  <2>2. Good(m, freed) /\ m.stack = Now.stack
    BY <1>4, <2>1, GoodTextSoFar
  <2>3. Len(stack) > 1
    BY <2>1, BelowTop
  <2>4. QED
    BY <2>1, <2>2, <2>3
<1>6. PICK m1 : m1 = CloseIntoBelow(m)
  OBVIOUS
<1>7. Good(m1, freed) /\ m1.stack = b
  BY <1>1, <1>5, <1>6, GoodCloseIntoBelow
<1>8. PICK m2 : m2 = CloseIntoBelow(m1)
  OBVIOUS
<1>9. Good(m2, freed) /\ m2.stack = c
  <2>1. Nested(b)
    BY <1>7, GoodBasics
  <2>2. Len(b) > 1
    BY <1>3, <2>1, BelowTop
  <2>3. QED
    BY <1>1, <1>3, <1>7, <1>8, <2>2, GoodCloseIntoBelow
<1>10. CloseCell = m1 /\ CloseCellAndRow = m2
  BY <1>4, <1>6, <1>8, Zenon DEF CloseCell, CloseCellAndRow
<1>11. Good(m2, freed) /\ Takes(m2.stack, "TABLE_ROW") /\ Len(m2.stack) > 1 /\ m2.stack[Len(m2.stack)] \in Finishing
  BY <1>2, <1>3, <1>9 DEF Finishing
<1>12. QED
  BY <1>2, <1>7, <1>10, <1>11, Zenon

LEMMA FirstCellOwns ==
  ASSUME StackInv, Owns, NEW tok, On(tok), Top = "TABLE_ROW"
  PROVE  Good(FirstCell, freed)
<1>1. PICK m : m = WithText(Now, Strip(Str(F.start, pos)))
  OBVIOUS
<1>2. Good(m, freed) /\ m.stack = stack
  BY <1>1, OwnsOn, GoodText
<1>3. PICK type, section : /\ type = "TABLE_CELL" /\ section = "cell" /\ type \in Opened
                           /\ section = SectionOf(type)
  BY SectionsOfThem, FinishingSections
<1>4. Takes(m.stack, type)
  BY <1>2, <1>3, TakesOnTop, UnderEach
<1>5. PICK m2 : m2 = Open(m, type, section)
  OBVIOUS
<1>6. Good(m2, freed)
  BY <1>2, <1>3, <1>4, <1>5, GoodOpen
<1>7. FirstCell = m2
  BY <1>1, <1>3, <1>5, Zenon DEF FirstCell
<1>8. QED
  BY <1>6, <1>7

(* The context on top is popped: its section is held by no context.        *)
ComesOff(m, gone, m2) ==
  /\ Good(m2, gone) /\ m2.heap = m.heap /\ Len(m2.stack) = Len(m.stack) - 1
  /\ m2.stack[Len(m2.stack)] = m.stack[Len(m.stack) - 1]
  /\ Loose(m.heap, gone, m2.stack, m2.frames, TopOf(m).section)
LEMMA TopComesOff ==
  ASSUME NEW m, NEW gone, Good(m, gone), Len(m.stack) > 1, m.stack[Len(m.stack)] \in Opened,
         NEW m2, m2 = Pop(m, 1)
  PROVE  ComesOff(m, gone, m2)
<1>1. PICK k \in Nat : k = Len(m.stack) /\ k > 1 /\ Len(m.frames) = k
  BY GoodBasics
<1>2. PICK sec : sec = TopOf(m).section
  OBVIOUS
<1>3. 1 \in 1 .. Len(m.stack) /\ Len(m.stack) - 1 > 0 /\ Len(m.stack) - 1 + 1 = k
  BY <1>1
<1>4. m.stack[Len(m.stack) - 1 + 1] \in Opened /\ sec = m.frames[Len(m.stack) - 1 + 1].section
  BY <1>1, <1>2, <1>3 DEF TopOf
<1>5. /\ Good(m2, gone) /\ m2.heap = m.heap /\ Len(m2.stack) = Len(m.stack) - 1
      /\ \A d \in 1 .. Len(m.stack) - 1 : m2.stack[d] = m.stack[d] /\ m2.frames[d] = m.frames[d]
      /\ Loose(m.heap, gone, m2.stack, m2.frames, sec)
  BY <1>3, <1>4, TopIsLoose
<1>6. k - 1 \in 1 .. Len(m.stack) - 1
  BY <1>1
<1>7. Len(m2.stack) = k - 1 /\ m2.stack[k - 1] = m.stack[k - 1]
  BY <1>1, <1>5, <1>6
<1>8. QED
  BY <1>1, <1>2, <1>5, <1>7 DEF ComesOff

LEMMA CaptionOwns ==
  ASSUME StackInv, Owns, TableRowBeginInCaption
  PROVE  Owns'
<1>1. PICK tok : On(tok)
  BY DEF TableRowBeginInCaption
<1>2. PICK a : a = TextSoFar(Now)
  OBVIOUS
<1>3. /\ Good(a, freed) /\ a.stack = stack /\ a.frames = frames /\ Len(stack) = Depth /\ Depth \in Nat
      /\ Depth > 0 /\ Nested(stack) /\ stack[Depth] = "TABLE_CAPTION"
  <2>1. /\ Good(Now, freed) /\ Now.stack = stack /\ Now.frames = frames /\ Len(Now.stack) > 0
        /\ Len(stack) = Depth /\ Depth \in Nat /\ Depth > 0 /\ Nested(stack) /\ stack[Depth] = Top
    BY <1>1, OwnsOn
  <2>2. Good(a, freed) /\ a.stack = Now.stack /\ a.frames = Now.frames
    BY <1>2, <2>1, GoodTextSoFar
  <2>3. Top = "TABLE_CAPTION"
    BY DEF TableRowBeginInCaption
  <2>4. QED
    BY <2>1, <2>2, <2>3
<1>4. Depth > 1 /\ stack[Depth - 1] = "TABLE"
  BY <1>3, BelowTop, UnderEach
<1>5. TopOf(a).section = F.section
  <2>1. Good(Now, freed) /\ Len(Now.stack) > 0 /\ TopOf(Now) = F
    BY <1>1, OwnsOn
  <2>2. Same(Now, a)
    BY <1>2, <2>1, GoodTextSoFar
  <2>3. QED
    BY <2>1, <2>2, SameTop
<1>6. PICK m, sec : m = Pop(a, 1) /\ sec = F.section
  OBVIOUS
<1>7. /\ Good(m, freed) /\ m.heap = a.heap /\ Len(m.stack) = Depth - 1 /\ m.stack[Depth - 1] = "TABLE"
      /\ Loose(m.heap, freed, m.stack, m.frames, sec)
  <2>1. Len(a.stack) > 1 /\ a.stack[Len(a.stack)] \in Opened
    BY <1>3, <1>4, FinishingSections
  <2>2. ComesOff(a, freed, m)
    BY <1>3, <1>6, <2>1, TopComesOff
  <2>3. QED
    BY <1>3, <1>4, <1>5, <1>6, <2>2 DEF ComesOff
<1>8. PICK h, s, fr, table : h = m.heap /\ s = m.stack /\ fr = m.frames /\ table = TopOf(m).section
  OBVIOUS
<1>9. Kept(h, freed, s, fr) /\ Loose(h, freed, s, fr, sec)
  BY <1>7, <1>8, GoodBasics
<1>10. /\ Len(m.stack) \in 1 .. Len(m.stack) /\ TopOf(m) = m.frames[Len(m.stack)]
       /\ FrameOK(h, freed, "TABLE", TopOf(m))
  <2>1. Len(m.stack) > 0 /\ m.stack[Len(m.stack)] = "TABLE"
    BY <1>3, <1>4, <1>7
  <2>2. QED
    BY <1>7, <1>8, <2>1, TopFrame
<1>11. table \in Sections(h) /\ Type(h, table) = "table"
  BY <1>8, <1>10, SectionsOfThem DEF FrameOK, Builds, Sectionless
<1>12. table < sec
  BY <1>7, <1>8, <1>10 DEF Loose, Before
<1>13. PICK h2 : h2 = [h EXCEPT !.node[table].held = sec]
  OBVIOUS
<1>14. Kept(h2, freed, s, fr)
  BY <1>9, <1>11, <1>12, <1>13, CaptionIsHeld
<1>15. PICK m2 : m2 = [m EXCEPT !.heap = h2]
  OBVIOUS
<1>16. Good(m2, freed) /\ m2.stack = m.stack
  <2>1. Parts(m2, h2, s, fr)
    BY <1>7, <1>8, <1>15, PartsOf
  <2>2. QED
    BY <1>8, <1>14, <2>1, GoodParts
<1>17. m2 = [m EXCEPT !.heap.node[TopOf(m).section].held = F.section]
  BY <1>6, <1>8, <1>13, <1>15, Zenon
<1>18. PICK type, section : /\ type = "TABLE_ROW" /\ section = "row" /\ type \in Opened
                            /\ section = SectionOf(type)
  BY SectionsOfThem, FinishingSections
<1>19. Takes(m2.stack, type)
  BY <1>3, <1>4, <1>7, <1>16, <1>18, UnderEach DEF Takes
<1>20. PICK m3 : m3 = Open(m2, type, section)
  OBVIOUS
<1>21. Good(m3, freed)
  BY <1>16, <1>18, <1>19, <1>20, GoodOpen
<1>22. Become(m3)
  BY <1>2, <1>6, <1>17, <1>18, <1>20, Zenon DEF TableRowBeginInCaption
<1>23. UNCHANGED freed
  BY DEF TableRowBeginInCaption, rest
<1>24. QED
  BY <1>21, <1>22, <1>23, BecomeOwns

LEMMA RowsAndCellsOwn ==
  ASSUME StackInv, Owns
  PROVE  /\ TableRowBeginInTableCell => Owns'
         /\ SeparatorInTableRow => Owns'
         /\ Exclamation => Owns'
         /\ SeparatorInTableCell => Owns'
<1>1. ASSUME TableRowBeginInTableCell PROVE Owns'
  <2>1. PICK tok : On(tok)
    BY <1>1 DEF TableRowBeginInTableCell
  <2>2. Top = "TABLE_CELL" /\ Depth > 0
    BY <1>1, <2>1, OnTop DEF TableRowBeginInTableCell
  <2>3. PICK m : m = CloseCellAndRow
    OBVIOUS
  <2>4. PICK type, section : /\ type = "TABLE_ROW" /\ section = "row" /\ type \in Opened
                             /\ section = SectionOf(type)
    BY SectionsOfThem, FinishingSections
  <2>5. Good(m, freed) /\ Takes(m.stack, type)
    BY <2>2, <2>3, <2>4, CloseCellOwns
  <2>6. PICK m2 : m2 = Open(m, type, section)
    OBVIOUS
  <2>7. Good(m2, freed)
    BY <2>4, <2>5, <2>6, GoodOpen
  <2>8. Become(m2) /\ UNCHANGED freed
    BY <1>1, <2>3, <2>4, <2>6, Zenon DEF TableRowBeginInTableCell, rest
  <2>9. QED
    BY <2>7, <2>8, BecomeOwns
<1>2. ASSUME SeparatorInTableRow PROVE Owns'
  <2>1. PICK tok : On(tok)
    BY <1>2 DEF SeparatorInTableRow
  <2>2. Top = "TABLE_ROW" /\ UNCHANGED freed
    BY <1>2 DEF SeparatorInTableRow, rest
  <2>3. PICK m \in {FirstCell, Now} : Become(m)
    BY <1>2 DEF SeparatorInTableRow
  <2>4. Good(m, freed)
    BY <2>1, <2>2, <2>3, FirstCellOwns, OwnsOn
  <2>5. QED
    BY <2>2, <2>3, <2>4, BecomeOwns
<1>3. ASSUME Exclamation PROVE Owns'
  <2>1. PICK tok : tok = {"!"} /\ On(tok)
    BY <1>3 DEF Exclamation
  <2>2. Tok \in tok /\ Top \in HandledIn(Tok)
    BY <2>1, OnTop
  <2>3. Top = "TABLE_ROW"
    BY <2>1, <2>2, TokensHandled
  <2>4. PICK c, sec, alias : /\ c = FirstCell /\ sec = TopOf(FirstCell).section
                             /\ alias = <<"header">>
    OBVIOUS
  <2>5. PICK c2 : c2 = [c EXCEPT !.heap.node[sec].alias = alias]
    OBVIOUS
  <2>6. Good(c2, freed) /\ Good(Now, freed)
    <3>1. Good(c, freed)
      BY <2>1, <2>3, <2>4, FirstCellOwns
    <3>2. Good(c2, freed)
      BY <2>5, <3>1, AliasOwns
    <3>3. QED
      BY <2>1, <3>2, OwnsOn
  <2>7. PICK m \in {c2, Now} : Become(m)
    <3>1. CASE IsLeading
      <4>1. Become(c2)
        BY <1>3, <2>4, <2>5, <3>1, Zenon DEF Exclamation
      <4>2. QED
        BY <4>1
    <3>2. CASE ~IsLeading
      <4>1. Become(Now)
        BY <1>3, <3>2 DEF Exclamation
      <4>2. QED
        BY <4>1
    <3>3. QED
      BY <3>1, <3>2
  <2>8. UNCHANGED freed
    BY <1>3 DEF Exclamation, rest
  <2>9. QED
    BY <2>6, <2>7, <2>8, BecomeOwns
<1>4. ASSUME SeparatorInTableCell PROVE Owns'
  <2>1. PICK tok : On(tok)
    BY <1>4 DEF SeparatorInTableCell
  <2>2. Top = "TABLE_CELL" /\ Depth > 0 /\ UNCHANGED freed
    BY <1>4, <2>1, OnTop DEF SeparatorInTableCell, rest
  <2>3. CASE IsLeading
    <3>1. PICK m : m = CloseCell
      OBVIOUS
    <3>2. PICK type, section : /\ type = "TABLE_CELL" /\ section = "cell" /\ type \in Opened
                               /\ section = SectionOf(type)
      BY SectionsOfThem, FinishingSections
    <3>3. Good(m, freed) /\ Takes(m.stack, type)
      BY <2>2, <3>1, <3>2, CloseCellOwns
    <3>4. PICK m2 : m2 = Open(m, type, section)
      OBVIOUS
    <3>5. Good(m2, freed)
      BY <3>2, <3>3, <3>4, GoodOpen
    <3>6. Become(m2)
      BY <1>4, <2>3, <3>1, <3>2, <3>4, Zenon DEF SeparatorInTableCell
    <3>7. QED
      BY <2>2, <3>5, <3>6, BecomeOwns
  <2>4. CASE ~IsLeading
    <3>1. PICK m : m = WithText(Now, Strip(Str(F.start, pos)))
      OBVIOUS
    <3>2. Good(m, freed) /\ Len(m.stack) > 0
      BY <2>1, <3>1, OwnsOn, GoodText
    <3>3. PICK m2 : m2 = Resume(m)
      OBVIOUS
    <3>4. Good(m2, freed)
      BY <3>2, <3>3, GoodResume
    <3>5. Become(m2)
      BY <1>4, <2>4, <3>1, <3>3 DEF SeparatorInTableCell
    <3>6. QED
      BY <2>2, <3>4, <3>5, BecomeOwns
  <2>5. QED
    BY <2>3, <2>4
<1>5. QED
  BY <1>1, <1>2, <1>3, <1>4

LEMMA TablesEndOwn ==
  ASSUME StackInv, Owns
  PROVE  /\ TableEndInTable => Owns'
         /\ TableEndInTableRow => Owns'
         /\ TableEndInTableCell => Owns'
<1>1. ASSUME TableEndInTable PROVE Owns'
  <2>1. PICK tok : On(tok)
    BY <1>1 DEF TableEndInTable
  <2>2. Depth > 0 /\ Good(Now, freed) /\ Now.stack = stack
    BY <2>1, OwnsOn
  <2>3. Top \in Finishing /\ Become(Finished(Now)) /\ UNCHANGED freed
    BY <1>1 DEF TableEndInTable, rest, Finishing
  <2>4. QED
    BY <2>2, <2>3, FinishesTopOwns
<1>2. ASSUME TableEndInTableRow PROVE Owns'
  <2>1. PICK tok : On(tok)
    BY <1>2 DEF TableEndInTableRow
  <2>2. PICK o, sec : o = Now /\ sec = F.section
    OBVIOUS
  <2>3. /\ Good(o, freed) /\ o.heap = heap /\ o.stack = stack /\ o.frames = frames
        /\ Len(stack) = Depth /\ Depth \in Nat /\ Depth > 0 /\ Nested(stack)
        /\ stack[Depth] = "TABLE_ROW"
    BY <1>2, <2>1, <2>2, OwnsOn DEF TableEndInTableRow
  <2>4. Depth > 1 /\ stack[Depth - 1] = "TABLE"
    BY <2>3, BelowTop, UnderEach
  <2>5. TopOf(o).section = sec
    BY <2>2, <2>3, OwnsTop
  <2>6. PICK m : m = Pop(o, 1)
    OBVIOUS
  <2>7. /\ Good(m, freed) /\ m.heap = heap /\ Len(m.stack) = Depth - 1 /\ m.stack[Depth - 1] = "TABLE"
        /\ Loose(heap, freed, m.stack, m.frames, sec)
    <3>1. Len(o.stack) > 1 /\ o.stack[Len(o.stack)] \in Opened
      BY <2>3, <2>4, FinishingSections
    <3>2. ComesOff(o, freed, m)
      BY <2>3, <2>6, <3>1, TopComesOff
    <3>3. QED
      BY <2>3, <2>4, <2>5, <3>2 DEF ComesOff
  <2>8. PICK more, gone : more = Reach(heap, sec) /\ gone = freed \cup more
    OBVIOUS
  <2>9. Good(m, gone)
    <3>1. PICK s, fr : s = m.stack /\ fr = m.frames
      OBVIOUS
    <3>2. Kept(heap, freed, s, fr) /\ Loose(heap, freed, s, fr, sec)
      BY <2>7, <3>1, GoodBasics
    <3>3. Kept(heap, gone, s, fr)
      BY <2>8, <3>2, LooseIsFreed
    <3>4. m = [heap |-> m.heap, stack |-> m.stack, frames |-> m.frames]
      BY <2>7 DEF Good
    <3>5. QED
      BY <2>7, <3>1, <3>3, <3>4 DEF Good
  <2>10. freed' = gone
    <3>1. IsHeap(heap) /\ Forest(heap, freed) /\ sec \in Sections(heap)
      BY <2>3, <2>7, GoodBasics DEF Loose, Root
    <3>2. Owned(heap, sec) = Reach(heap, sec)
      BY <3>1, HeapBasics, OwnedIsReached DEF Forest
    <3>3. freed' = freed \cup Owned(heap, sec)
      BY <1>2, <2>2 DEF TableEndInTableRow, FreeTableRow
    <3>4. QED
      BY <2>6, <2>8, <3>2, <3>3
  <2>11. PICK m2 : m2 = Finished(m)
    OBVIOUS
  <2>12. Good(m2, gone)
    <3>1. /\ Len(m.stack) > 0 /\ m.stack[Len(m.stack)] = "TABLE" /\ Nested(m.stack)
      BY <2>3, <2>4, <2>7, GoodBasics
    <3>2. Len(m.stack) > 1 /\ m.stack[Len(m.stack)] \in Finishing
      BY <3>1, BelowTop DEF Finishing
    <3>3. QED
      BY <2>9, <2>11, <3>2, GoodFinished
  <2>13. Become(m2)
    BY <1>2, <2>2, <2>6, <2>11 DEF TableEndInTableRow
  <2>14. QED
    BY <2>10, <2>12, <2>13, BecomeOwns
<1>3. ASSUME TableEndInTableCell PROVE Owns'
  <2>1. PICK tok : On(tok)
    BY <1>3 DEF TableEndInTableCell
  <2>2. Top = "TABLE_CELL" /\ Depth > 0 /\ UNCHANGED freed
    BY <1>3, <2>1, OnTop DEF TableEndInTableCell, rest
  <2>3. PICK m : m = CloseCellAndRow
    OBVIOUS
  <2>4. Good(m, freed) /\ Len(m.stack) > 1 /\ m.stack[Len(m.stack)] \in Finishing
    BY <2>2, <2>3, CloseCellOwns
  <2>5. PICK m2 : m2 = Finished(m)
    OBVIOUS
  <2>6. Good(m2, freed)
    BY <2>4, <2>5, GoodFinished
  <2>7. Become(m2)
    BY <1>3, <2>3, <2>5 DEF TableEndInTableCell
  <2>8. QED
    BY <2>2, <2>6, <2>7, BecomeOwns
<1>4. QED
  BY <1>1, <1>2, <1>3

-----------------------------------------------------------------------------
(* The whole specification.                                                *)

LEMMA HandlersOwn ==
  ASSUME StackInv, Owns, Handler
  PROVE  Owns'
<1>1. CASE Skip \/ Redirect \/ RawSkip
  <2>1. UNCHANGED <<stack, frames, heap, freed>>
    BY <1>1 DEF Skip, Redirect, RawSkip, rest
  <2>2. QED
    BY <2>1 DEF Owns, Now
<1>2. CASE \/ LinkBegin \/ LinkBeginInLink \/ NewlineInInternalLink
           \/ SeparatorInInternalLink \/ LinkEndInInternalLink \/ LinkEndInAnchorText
  BY <1>2, LinkBeginOwns, LinkBeginInLinkOwns, LinksOwn
<1>3. CASE \/ CategoryLinkBegin \/ LinkEndInCategory \/ LanguageLinkBegin \/ LinkEndInLanguageLink
  BY <1>3, SpecialLinksOwn
<1>4. CASE \/ ImageBegin \/ TemplateBegin \/ SeparatorInTemplate \/ SeparatorInImage
           \/ EqualsInParameter
  BY <1>4, TemplatesOwn
<1>5. CASE \/ SeparatorInParameter \/ SeparatorInValue \/ TemplateEndInParameter
           \/ TemplateEndInValue \/ TemplateEndInImageValue \/ LinkEndInParameter \/ LinkEndInValue
  BY <1>5, ParametersEndOwn
<1>6. CASE TemplateEndInTemplate \/ LinkEndInImage
  BY <1>6, TemplatesEndOwn
<1>7. CASE \/ NowikiBegin \/ PreBegin \/ MathBegin \/ SourceBegin \/ GalleryBegin
  BY <1>7, RawBeginsOwn
<1>8. CASE \/ NowikiEnd \/ PreEnd \/ MathEnd \/ SourceEnd \/ GalleryEnd \/ SourceEndElsewhere
  BY <1>8, RawEndsOwn
<1>9. CASE Ref \/ RefBegin \/ RefEnd
  BY <1>9, ReferencesOwn
<1>10. CASE \/ ExternalLinkBegin \/ SpaceInExternalLink
            \/ ExternalLinkEndInExternalLink \/ ExternalLinkEndInValue
  BY <1>10, ExternalLinksOwn
<1>11. CASE Heading \/ Formatting
  BY <1>11, HeadingsOwn
<1>12. CASE \/ TableBegin \/ NewlineInTable \/ NewlineInTableRow
            \/ TableCaptionBegin \/ SeparatorInTableCaption \/ TableRowBeginInTable
  BY <1>12, TablesBeginOwn
<1>13. CASE \/ TableRowBeginInCaption \/ TableRowBeginInTableCell
            \/ SeparatorInTableRow \/ Exclamation \/ SeparatorInTableCell
  BY <1>13, CaptionOwns, RowsAndCellsOwn
<1>14. CASE TableEndInTable \/ TableEndInTableRow \/ TableEndInTableCell
  BY <1>14, TablesEndOwn
<1>15. QED
  BY <1>1, <1>2, <1>3, <1>4, <1>5, <1>6, <1>7, <1>8, <1>9, <1>10, <1>11, <1>12, <1>13, <1>14
     DEF Handler

(* The text that is appended goes to a list, whatever else its frame says. *)
LEMMA TextGoesToList ==
  ASSUME NEW h, NEW type, NEW f, NEW g, f.list = g.list, NEW begin, NEW end
  PROVE  AppendText(h, type, f, begin, end) = AppendText(h, type, g, begin, end)
BY Zenon DEF AppendText

LEMMA EndOfFileOwns ==
  ASSUME StackInv, Owns, EndOfFile
  PROVE  Owns'
<1>1. /\ Good(Now, freed) /\ Now.stack = stack /\ Len(Now.stack) > 0 /\ TopOf(Now) = F
      /\ Nested(stack) /\ Len(stack) > 0 /\ stack[Len(stack)] = Top
  BY OwnsTop DEF StackInv, EndOfFile
<1>2. PICK m : m = Flush(Now)
  OBVIOUS
<1>3. Good(m, freed) /\ m.stack = stack /\ TopOf(m).section = F.section /\ TopOf(m).list = F.list
  <2>1. Good(m, freed) /\ Same(Now, m)
    BY <1>1, <1>2, GoodFlush
  <2>2. m.stack = Now.stack
    BY <2>1 DEF Same
  <2>3. TopOf(m).section = F.section /\ TopOf(m).list = F.list
    BY <1>1, <2>1, SameTop
  <2>4. QED
    BY <1>1, <2>1, <2>2, <2>3
<1>4. CASE Top = "INTERNAL_LINK"
  <2>1. PICK type, begin, f, gone : /\ type = Top /\ begin = F.tok /\ f = TopOf(m)
                                    /\ gone = freed \cup {f.section}
    OBVIOUS
  <2>2. PICK h2 : h2 = AppendText(m.heap, type, f, begin, pos)
    OBVIOUS
  <2>3. PICK m2 : m2 = Pop(WithHeap(m, h2), 1)
    OBVIOUS
  <2>4. Good(m2, gone)
    <3>1. Len(m.stack) \in Nat /\ Len(m.stack) > 1 /\ m.stack[Len(m.stack)] = "INTERNAL_LINK"
      BY <1>1, <1>3, <1>4, BelowTop DEF Nested
    <3>2. PICK n \in {1, 2} : n = 1
      OBVIOUS
    <3>3. Len(m.stack) - n + 1 = Len(m.stack)
      BY <3>1, <3>2
    <3>4. LinkOnTop(m, n)
      BY <3>1, <3>2, <3>3 DEF LinkOnTop
    <3>5. f = LinkAt(m, n)
      <4>1. TopOf(m) = m.frames[Len(m.stack)]
        BY <1>3, <3>1, TopFrame
      <4>2. QED
        BY <2>1, <3>3, <4>1 DEF LinkAt
    <3>6. HasText(m.heap, f, h2)
      BY <2>2 DEF HasText
    <3>7. m2 = Pop(WithHeap(m, h2), n)
      BY <2>3, <3>2
    <3>8. Good(m2, freed \cup {f.section})
      BY <1>3, <3>4, <3>5, <3>6, <3>7, GoodBackToText
    <3>9. QED
      BY <2>1, <3>8
  <2>5. Become(m2)
    <3>1. h2 = AppendText(m.heap, Top, F, F.tok, pos)
      <4>1. f.list = F.list
        BY <1>3, <2>1
      <4>2. AppendText(m.heap, type, f, begin, pos) = AppendText(m.heap, type, F, begin, pos)
        BY <4>1, TextGoesToList
      <4>3. QED
        BY <2>1, <2>2, <4>2
    <3>2. Become(Pop([m EXCEPT !.heap = AppendText(@, Top, F, F.tok, pos)], 1))
      BY <1>2, <1>4, Zenon DEF EndOfFile
    <3>3. QED
      BY <2>3, <3>1, <3>2, Zenon DEF WithHeap
  <2>6. freed' = gone
    <3>1. freed' = freed \cup {F.section}
      BY <1>4, Zenon DEF EndOfFile
    <3>2. QED
      BY <1>3, <2>1, <3>1
  <2>7. QED
    BY <2>4, <2>5, <2>6, BecomeOwns
<1>5. CASE Top # "INTERNAL_LINK"
  <2>1. PICK o \in {m, WithText(m, Strip(Str(F.start, pos)))} : Become(o) /\ freed' = freed
    BY <1>2, <1>5 DEF EndOfFile
  <2>2. Good(o, freed)
    BY <1>3, <2>1, GoodText
  <2>3. QED
    BY <2>1, <2>2, BecomeOwns
<1>6. QED
  BY <1>4, <1>5

LEMMA CleanupOwns ==
  ASSUME StackInv, Owns, CleanupParser
  PROVE  Owns'
<1>1. CASE ~(Depth > 0)
  <2>1. UNCHANGED <<stack, frames, heap, freed>>
    BY <1>1 DEF CleanupParser
  <2>2. QED
    BY <2>1 DEF Owns, Now
<1>2. CASE Depth > 0
  <2>1. PICK o, sec : o = Now /\ sec = F.section
    OBVIOUS
  <2>2. /\ Good(o, freed) /\ o.heap = heap /\ o.stack = stack /\ TopOf(o).section = sec
        /\ Depth \in Nat /\ Len(stack) = Depth /\ Nested(stack) /\ stack[Depth] = Top
        /\ FrameOK(heap, freed, Top, F)
    BY <1>2, <2>1, OwnsTop
  <2>3. PICK m : m = Pop(o, 1)
    OBVIOUS
  <2>4. PICK gone : gone = freed \cup FreeSection(heap, sec)
    OBVIOUS
  <2>5. Become(m) /\ freed' = gone
    BY <1>2, <2>1, <2>3, <2>4 DEF CleanupParser
  <2>6. Good(m, gone)
    <3>1. CASE FreeSection(heap, sec) = {}
      <4>1. gone = freed
        BY <2>4, <3>1
      <4>2. PICK n \in {1, 2} : n = 1 /\ n \in 0 .. Len(o.stack)
        BY <1>2, <2>2
      <4>3. Good(m, freed)
        BY <2>2, <2>3, <4>2, GoodPop
      <4>4. QED
        BY <4>1, <4>3
    <3>2. CASE FreeSection(heap, sec) # {}
      <4>1. /\ sec # None /\ HasFreeCase(heap.node[sec].type)
            /\ FreeSection(heap, sec) = Owned(heap, sec)
        BY <3>2, Zenon DEF FreeSection
      <4>2. Type(heap, sec) # "key_value"
        BY <4>1, Zenon DEF HasFreeCase, Type
      <4>3. Top \notin Sectionless
        BY <2>1, <2>2, <4>1 DEF FrameOK
      <4>4. Builds(heap, freed, Top, sec)
        BY <2>1, <2>2, <4>3 DEF FrameOK
      <4>5. Top # "PARAMETER"
        BY <4>2, <4>4 DEF Builds, SectionOf
      <4>6. Top \in Opened
        <5>1. Top \in Context
          BY <1>2, <2>2 DEF Nested
        <5>2. QED
          BY <4>3, <4>5, <5>1 DEF Opened
      <4>7. Len(stack) > 1
        <5>1. Top # "ROOT"
          BY <4>3 DEF Sectionless
        <5>2. QED
          BY <1>2, <2>2, <5>1, BelowTop
      <4>8. ComesOff(o, freed, m)
        BY <2>2, <2>3, <4>6, <4>7, TopComesOff
      <4>9. Good(m, freed) /\ m.heap = heap /\ Loose(heap, freed, m.stack, m.frames, sec)
        BY <2>2, <4>8 DEF ComesOff
      <4>10. PICK s, fr, more : s = m.stack /\ fr = m.frames /\ more = Reach(heap, sec)
        OBVIOUS
      <4>11. Kept(heap, freed \cup more, s, fr)
        <5>1. Kept(heap, freed, s, fr) /\ Loose(heap, freed, s, fr, sec)
          BY <4>9, <4>10, GoodBasics
        <5>2. QED
          BY <4>10, <5>1, LooseIsFreed
      <4>12. Owned(heap, sec) = more
        <5>1. IsHeap(heap) /\ Forest(heap, freed) /\ sec \in Sections(heap)
          BY <4>4, <4>9, GoodBasics DEF Builds
        <5>2. QED
          BY <4>10, <5>1, HeapBasics, OwnedIsReached DEF Forest
      <4>13. gone = freed \cup more
        BY <2>4, <4>1, <4>12
      <4>14. m = [heap |-> m.heap, stack |-> m.stack, frames |-> m.frames]
        BY <4>9 DEF Good
      <4>15. QED
        BY <4>9, <4>10, <4>11, <4>13, <4>14 DEF Good
    <3>3. QED
      BY <3>1, <3>2
  <2>7. QED
    BY <2>5, <2>6, BecomeOwns
<1>3. QED
  BY <1>1, <1>2

(* A handler leaves the parser scanning, cleaning up or crashed.           *)
LEMMA HandlersScan ==
  ASSUME Handler
  PROVE  phase = "scan" /\ phase' \in {"scan", "cleanup", "crashed"}
<1>1. CASE \/ Skip \/ Redirect \/ RawSkip
  BY <1>1 DEF Skip, Redirect, RawSkip, On, Scanning, rest
<1>2. CASE \/ LinkBegin \/ LinkBeginInLink \/ NewlineInInternalLink
           \/ SeparatorInInternalLink \/ LinkEndInInternalLink \/ LinkEndInAnchorText
  <2>1. phase = "scan" /\ phase' = phase
    BY <1>2, Zenon DEF LinkBegin, LinkBeginInLink, NewlineInInternalLink, SeparatorInInternalLink,
       LinkEndInInternalLink, LinkEndInAnchorText, On, Scanning, rest
  <2>2. QED
    BY <2>1
<1>3. CASE \/ CategoryLinkBegin \/ LinkEndInCategory \/ LanguageLinkBegin \/ LinkEndInLanguageLink
  <2>1. phase = "scan" /\ phase' = phase
    BY <1>3, Zenon DEF CategoryLinkBegin, LinkEndInCategory, LanguageLinkBegin, LinkEndInLanguageLink,
       On, Scanning, rest
  <2>2. QED
    BY <2>1
<1>4. CASE \/ ImageBegin \/ TemplateBegin \/ SeparatorInTemplate \/ SeparatorInImage
           \/ EqualsInParameter
  <2>1. phase = "scan" /\ phase' = phase
    BY <1>4, Zenon DEF ImageBegin, TemplateBegin, SeparatorInTemplate, SeparatorInImage,
       EqualsInParameter, On, Scanning, rest
  <2>2. QED
    BY <2>1
<1>5. CASE \/ SeparatorInParameter \/ SeparatorInValue \/ TemplateEndInParameter
           \/ TemplateEndInValue \/ LinkEndInParameter \/ LinkEndInValue
  <2>1. phase = "scan" /\ phase' = phase
    BY <1>5, Zenon DEF SeparatorInParameter, SeparatorInValue, TemplateEndInParameter, TemplateEndInValue,
       LinkEndInParameter, LinkEndInValue, On, Scanning, rest
  <2>2. QED
    BY <2>1
<1>6. CASE TemplateEndInImageValue \/ SourceEndElsewhere
  <2>1. phase = "scan" /\ phase' = "cleanup"
    BY <1>6, Zenon DEF TemplateEndInImageValue, SourceEndElsewhere, SetError, On, OnRaw,
       Scanning
  <2>2. QED
    BY <2>1
<1>7. CASE TemplateEndInTemplate \/ LinkEndInImage
  <2>1. phase = "scan" /\ phase' = phase
    BY <1>7, Zenon DEF TemplateEndInTemplate, LinkEndInImage, On, Scanning, rest
  <2>2. QED
    BY <2>1
<1>8. CASE \/ NowikiBegin \/ PreBegin \/ MathBegin \/ SourceBegin \/ GalleryBegin
  <2>1. phase = "scan" /\ phase' = phase
    BY <1>8, Zenon DEF NowikiBegin, PreBegin, MathBegin, SourceBegin, GalleryBegin, OpenRaw, On,
       Scanning, rest
  <2>2. QED
    BY <2>1
<1>9. CASE \/ NowikiEnd \/ PreEnd \/ MathEnd \/ SourceEnd \/ GalleryEnd
  <2>1. phase = "scan" /\ phase' = phase
    BY <1>9, Zenon DEF NowikiEnd, PreEnd, MathEnd, SourceEnd, GalleryEnd, CloseRaw, OnRaw, Scanning, rest
  <2>2. QED
    BY <2>1
<1>10. CASE Ref \/ RefBegin \/ RefEnd
  <2>1. phase = "scan" /\ (phase' = phase \/ phase' = "crashed")
    BY <1>10, Zenon DEF Ref, RefBegin, RefEnd, On, Scanning, rest
  <2>2. QED
    BY <2>1
<1>11. CASE \/ ExternalLinkBegin \/ SpaceInExternalLink
            \/ ExternalLinkEndInExternalLink \/ ExternalLinkEndInValue \/ Heading \/ Formatting
  <2>1. phase = "scan" /\ phase' = phase
    BY <1>11, Zenon DEF ExternalLinkBegin, SpaceInExternalLink, ExternalLinkEndInExternalLink,
       ExternalLinkEndInValue, Heading, Formatting, On, Scanning, rest
  <2>2. QED
    BY <2>1
<1>12. CASE \/ TableBegin \/ NewlineInTable \/ NewlineInTableRow
            \/ TableCaptionBegin \/ SeparatorInTableCaption \/ TableRowBeginInTable
  <2>1. phase = "scan" /\ phase' = phase
    BY <1>12, Zenon DEF TableBegin, NewlineInTable, NewlineInTableRow, TableCaptionBegin,
       SeparatorInTableCaption, TableRowBeginInTable, On, Scanning, rest
  <2>2. QED
    BY <2>1
<1>13. CASE \/ TableRowBeginInCaption \/ TableRowBeginInTableCell
            \/ SeparatorInTableRow \/ Exclamation \/ SeparatorInTableCell
  <2>1. phase = "scan" /\ phase' = phase
    BY <1>13, Zenon DEF TableRowBeginInCaption, TableRowBeginInTableCell, SeparatorInTableRow, Exclamation,
       SeparatorInTableCell, On, Scanning, rest
  <2>2. QED
    BY <2>1
<1>14. CASE TableEndInTable \/ TableEndInTableRow \/ TableEndInTableCell
  <2>1. phase = "scan" /\ phase' = phase
    BY <1>14, Zenon DEF TableEndInTable, TableEndInTableRow, TableEndInTableCell, On, Scanning, rest
  <2>2. QED
    BY <2>1
<1>15. QED
  BY <1>1, <1>2, <1>3, <1>4, <1>5, <1>6, <1>7, <1>8, <1>9, <1>10, <1>11, <1>12, <1>13, <1>14, Zenon
     DEF Handler

(* The inductive invariant.  When the tree has been freed the sections are *)
(* still a forest; nothing is said of what has been freed.                 *)
OwnInv ==
  /\ phase # "freed" => Owns
  /\ phase \in {"parsed", "freed"} => \A d \in 1 .. Depth : frames[d].section = None
  /\ IsHeap(heap) /\ Lists(heap) /\ Helds(heap) /\ ListedOnce(heap) /\ HeldOnce(heap)

LEMMA OwnsHeap ==
  ASSUME Owns
  PROVE  IsHeap(heap) /\ Lists(heap) /\ Helds(heap) /\ ListedOnce(heap) /\ HeldOnce(heap)
<1>1. Now.heap = heap /\ Good(Now, freed)
  BY DEF Owns, Now
<1>2. IsHeap(heap) /\ Forest(heap, freed)
  BY <1>1, GoodBasics
<1>3. QED
  BY <1>2 DEF Forest

LEMMA OwnsHeapNext == Owns' =>
  IsHeap(heap)' /\ Lists(heap)' /\ Helds(heap)' /\ ListedOnce(heap)' /\ HeldOnce(heap)'
<1>1. Owns => IsHeap(heap) /\ Lists(heap) /\ Helds(heap) /\ ListedOnce(heap) /\ HeldOnce(heap)
  BY OwnsHeap
<1>2. QED
  BY <1>1, PTL

LEMMA OwnershipKept ==
  ASSUME StackInv, OwnInv, [Next]_vars
  PROVE  OwnInv'
<1>1. ASSUME Owns', phase' \in {"scan", "cleanup", "crashed"} PROVE OwnInv'
  <2>1. IsHeap(heap)' /\ Lists(heap)' /\ Helds(heap)' /\ ListedOnce(heap)' /\ HeldOnce(heap)'
    BY <1>1, OwnsHeapNext
  <2>2. phase' \notin {"parsed", "freed"}
    BY <1>1
  <2>3. QED
    BY <1>1, <2>1, <2>2 DEF OwnInv
<1>2. CASE Handler
  <2>1. phase = "scan" /\ phase' \in {"scan", "cleanup", "crashed"}
    BY <1>2, HandlersScan
  <2>2. Owns
    BY <2>1 DEF OwnInv
  <2>3. Owns'
    BY <1>2, <2>2, HandlersOwn
  <2>4. QED
    BY <1>1, <2>1, <2>3
<1>3. CASE EndOfFile
  <2>1. phase = "scan" /\ phase' = "cleanup"
    BY <1>3 DEF EndOfFile
  <2>2. Owns
    BY <2>1 DEF OwnInv
  <2>3. Owns'
    BY <1>3, <2>2, EndOfFileOwns
  <2>4. QED
    BY <1>1, <2>1, <2>3
<1>4. CASE CleanupParser
  <2>1. phase = "cleanup"
    BY <1>4 DEF CleanupParser
  <2>2. Owns
    BY <2>1 DEF OwnInv
  <2>3. Owns'
    BY <1>4, <2>2, CleanupOwns
  <2>4. CASE Depth > 0
    <3>1. phase' = "cleanup"
      BY <1>4, <2>1, <2>4 DEF CleanupParser
    <3>2. QED
      BY <1>1, <2>3, <3>1
  <2>5. CASE ~(Depth > 0)
    <3>1. phase' = "parsed" /\ UNCHANGED <<stack, frames, heap, freed>>
      BY <1>4, <2>5 DEF CleanupParser
    <3>2. Len(stack) \in Nat
      BY SequenceBasics DEF StackInv, Shape, Now, Nested
    <3>3. 1 .. Depth = {}
      BY <2>5, <3>2 DEF Depth
    <3>4. (1 .. Depth)' = {}
      BY <3>1, <3>3 DEF Depth
    <3>5. IsHeap(heap)' /\ Lists(heap)' /\ Helds(heap)' /\ ListedOnce(heap)' /\ HeldOnce(heap)'
      BY <2>3, OwnsHeapNext
    <3>6. QED
      BY <2>3, <3>4, <3>5 DEF OwnInv
  <2>6. QED
    BY <2>4, <2>5
<1>5. CASE FreeTree
  <2>1. phase = "parsed" /\ phase' = "freed" /\ UNCHANGED <<stack, frames, heap>>
    BY <1>5 DEF FreeTree
  <2>2. \A d \in 1 .. Depth : frames[d].section = None
    BY <2>1 DEF OwnInv
  <2>3. (\A d \in 1 .. Depth : frames[d].section = None)'
    BY <2>1, <2>2 DEF Depth
  <2>4. IsHeap(heap)' /\ Lists(heap)' /\ Helds(heap)' /\ ListedOnce(heap)' /\ HeldOnce(heap)'
    BY <2>1 DEF OwnInv
  <2>5. QED
    BY <2>1, <2>3, <2>4 DEF OwnInv
<1>6. CASE UNCHANGED vars
  <2>1. UNCHANGED <<stack, frames, heap, freed, phase>>
    BY <1>6 DEF vars
  <2>2. Owns' <=> Owns
    BY <2>1 DEF Owns, Now
  <2>3. QED
    BY <2>1, <2>2 DEF OwnInv, Depth
<1>7. QED
  BY <1>2, <1>3, <1>4, <1>5, <1>6 DEF Next

LEMMA OwnershipStarts ==
  ASSUME Init
  PROVE  OwnInv
<1> DEFINE f == [section |-> None, list |-> 1, start |-> 1, stop |-> 1, tok |-> None,
                 params |-> 0, newline |-> FALSE]
<1>1. stack = <<"ROOT">> /\ frames = <<f>> /\ freed = {} /\ phase \in {"parsed", "scan"}
  BY DEF Init
<1>2. heap = [node |-> <<Section("tree")>>, list |-> <<<<>>>>]
  BY DEF Init
<1>3. PICK h, s, fr, g : h = heap /\ s = stack /\ fr = frames /\ g = f
  OBVIOUS
<1>4. /\ h.node \in Seq({Section("tree")}) /\ Len(h.node) = 1 /\ h.node[1] = Section("tree")
      /\ h.list \in Seq({<<>>}) /\ Len(h.list) = 1 /\ h.list[1] = <<>>
      /\ h = [node |-> h.node, list |-> h.list]
  BY <1>2, <1>3
<1>5. Sections(h) = {1}
  BY <1>4 DEF Sections
<1>6. Node(Section("tree")) /\ Type(h, 1) = "tree" /\ HeldBy(h, 1) = None
  BY <1>4 DEF Node, Section, Type, HeldBy
<1>7. DOMAIN h.list[1] = {} /\ IsSequence(h.list[1])
  BY <1>4 DEF IsSequence
<1>8. Entries(h, 1) = {} /\ \A i, x : ~At(h, 1, i, x)
  BY <1>7 DEF Entries, At
<1>9. IsHeap(h)
  BY <1>4, <1>5, <1>6, <1>7 DEF IsHeap, IsSequence
<1>10. Lists(h) /\ Helds(h) /\ ListedOnce(h) /\ HeldOnce(h) /\ Whole(h, {})
  BY <1>5, <1>6, <1>8 DEF Lists, Helds, ListedOnce, HeldOnce, Whole
<1>11. Root(h, 1)
  BY <1>5, <1>6, <1>8 DEF Root, Child
<1>12. Sound(h, {})
  BY <1>9, <1>10, <1>11 DEF Sound, Forest
<1>13. s \in Seq(Context) /\ Len(s) = 1 /\ s[1] = "ROOT"
  BY <1>1, <1>3 DEF Context
<1>14. fr \in Seq({g}) /\ Len(fr) = 1 /\ fr[1] = g
  BY <1>1, <1>3
<1>15. Nested(s) /\ 1 .. Len(s) = {1}
  BY <1>13 DEF Nested
<1>16. Frame(g) /\ g.section = None /\ g.list = 1
  BY <1>3 DEF Frame
<1>17. Framed(s, fr)
  BY <1>13, <1>14, <1>15, <1>16 DEF Framed, IsSequence
<1>18. Collects(h, 1)
  BY <1>5, <1>6 DEF Collects, Holds
<1>19. "ROOT" \in Sectionless
  BY DEF Sectionless
<1>20. FrameOK(h, {}, s[1], fr[1])
  BY <1>13, <1>14, <1>16, <1>18, <1>19 DEF FrameOK
<1>21. FramesOK(h, {}, s, fr) /\ Ordered(fr, Len(s))
  BY <1>13, <1>14, <1>15, <1>16, <1>20 DEF FramesOK, Ordered
<1>22. Linked(h, s, fr)
  BY <1>13 DEF Linked
<1>23. Kept(h, {}, s, fr)
  BY <1>12, <1>17, <1>21, <1>22 DEF Kept
<1>24. Owns
  BY <1>1, <1>3, <1>23 DEF Owns, Good, Now
<1>25. \A d \in 1 .. Depth : frames[d].section = None
  BY <1>3, <1>14, <1>15, <1>16 DEF Depth
<1>26. QED
  BY <1>1, <1>3, <1>9, <1>10, <1>24, <1>25 DEF OwnInv

-----------------------------------------------------------------------------
(* What the invariant says of the entries and of what is freed, in the     *)
(* words of SectionsOwnedOnce.                                             *)

EntriesOf(h) == UNION {{<<n, i>> : i \in DOMAIN h.list[n]} : n \in DOMAIN h.list}
Entry(h, e) == h.list[e[1]][e[2]]
ListedBy(h) == {Entry(h, e) : e \in EntriesOf(h)}
HoldersOf(h) == {n \in DOMAIN h.node : h.node[n].held # None}
HeldOf(h) == {h.node[n].held : n \in HoldersOf(h)}
IsSound(h) == IsHeap(h) /\ Lists(h) /\ Helds(h) /\ ListedOnce(h) /\ HeldOnce(h)

LEMMA EntryBasics ==
  ASSUME NEW h, IsHeap(h), NEW e \in EntriesOf(h)
  PROVE  /\ e = <<e[1], e[2]>> /\ e[1] \in Sections(h) /\ At(h, e[1], e[2], Entry(h, e))
         /\ Entry(h, e) \in Entries(h, e[1])
<1>1. DOMAIN h.list = Sections(h)
  BY HeapBasics
<1>2. PICK n \in Sections(h) : e \in {<<n, i>> : i \in DOMAIN h.list[n]}
  BY <1>1 DEF EntriesOf
<1>3. PICK i \in DOMAIN h.list[n] : e = <<n, i>>
  BY <1>2
<1>4. e[1] = n /\ e[2] = i /\ e = <<e[1], e[2]>>
  BY <1>3
<1>5. At(h, e[1], e[2], Entry(h, e))
  BY <1>3, <1>4 DEF At, Entry
<1>6. Entry(h, e) \in Entries(h, e[1])
  BY <1>5 DEF At, Entries
<1>7. QED
  BY <1>4, <1>5, <1>6

LEMMA InjectiveCount ==
  ASSUME NEW S, NEW T, IsFiniteSet(T), NEW f \in [S -> T],
         \A a, b \in S : f[a] = f[b] => a = b, \A y \in T : \E a \in S : f[a] = y
  PROVE  Cardinality(T) = Cardinality(S)
<1>1. f \in Injection(S, T)
  BY DEF Injection, IsInjective
<1>2. f \in Surjection(S, T)
  BY DEF Surjection
<1>3. QED
  BY <1>1, <1>2, FS_Injection

LEMMA ListedCount ==
  ASSUME NEW h, IsSound(h)
  PROVE  Cardinality(ListedBy(h)) = Cardinality(EntriesOf(h))
<1>1. PICK E, L, f : E = EntriesOf(h) /\ L = ListedBy(h) /\ f = [e \in E |-> Entry(h, e)]
  OBVIOUS
<1>2. L \subseteq Sections(h)
  BY <1>1, EntryBasics DEF ListedBy, IsSound, Lists
<1>3. IsFiniteSet(L)
  <2>1. Len(h.node) \in Nat
    BY HeapBasics DEF IsSound
  <2>2. IsFiniteSet(Sections(h))
    BY <2>1, FS_Interval DEF Sections
  <2>3. QED
    BY <1>2, <2>2, FS_Subset
<1>4. f \in [E -> L] /\ \A y \in L : \E e \in E : f[e] = y
  BY <1>1 DEF ListedBy
<1>5. ASSUME NEW d \in E, NEW e \in E, f[d] = f[e] PROVE d = e
  <2>1. Entry(h, d) = Entry(h, e)
    BY <1>1, <1>5
  <2>2. /\ d = <<d[1], d[2]>> /\ d[1] \in Sections(h) /\ At(h, d[1], d[2], Entry(h, d))
        /\ e = <<e[1], e[2]>> /\ e[1] \in Sections(h) /\ At(h, e[1], e[2], Entry(h, d))
    BY <1>1, <2>1, EntryBasics DEF IsSound
  <2>3. d[1] = e[1] /\ d[2] = e[2]
    BY <2>2 DEF IsSound, ListedOnce
  <2>4. QED
    BY <2>2, <2>3
<1>6. Cardinality(L) = Cardinality(E)
  BY <1>3, <1>4, <1>5, InjectiveCount
<1>7. QED
  BY <1>1, <1>6

LEMMA HeldCount ==
  ASSUME NEW h, IsSound(h)
  PROVE  Cardinality(HeldOf(h)) = Cardinality(HoldersOf(h))
<1>1. PICK S, L, f : S = HoldersOf(h) /\ L = HeldOf(h) /\ f = [n \in S |-> HeldBy(h, n)]
  OBVIOUS
<1>2. DOMAIN h.node = Sections(h) /\ Len(h.node) \in Nat
  BY HeapBasics DEF IsSound
<1>3. \A n \in S : n \in Sections(h) /\ HeldBy(h, n) # None
  BY <1>1, <1>2 DEF HoldersOf, HeldBy
<1>4. L \subseteq Sections(h)
  BY <1>1, <1>3 DEF HeldOf, HeldBy, IsSound, Helds
<1>5. IsFiniteSet(L)
  <2>1. IsFiniteSet(Sections(h))
    BY <1>2, FS_Interval DEF Sections
  <2>2. QED
    BY <1>4, <2>1, FS_Subset
<1>6. f \in [S -> L] /\ \A y \in L : \E n \in S : f[n] = y
  BY <1>1 DEF HeldOf, HeldBy
<1>7. \A m, n \in S : f[m] = f[n] => m = n
  BY <1>1, <1>3 DEF IsSound, HeldOnce
<1>8. Cardinality(L) = Cardinality(S)
  BY <1>5, <1>6, <1>7, InjectiveCount
<1>9. QED
  BY <1>1, <1>8

(* What is reached from a section that has not been freed is not freed.    *)
LEMMA ReachedIsNotFreed ==
  ASSUME NEW h, NEW gone, IsHeap(h), Forest(h, gone), NEW s \in Sections(h), s \notin gone
  PROVE  Owned(h, s) \cap gone = {}
<1>1. PICK C : C = Sections(h) \ gone
  OBVIOUS
<1>2. C \in SUBSET Sections(h) /\ s \in C
  BY <1>1
<1>3. Closed(h, C)
  BY <1>1 DEF Closed, Forest, Whole
<1>4. Reach(h, s) \subseteq C
  BY <1>2, <1>3, ReachIsLeast
<1>5. Owned(h, s) = Reach(h, s)
  BY HeapBasics, OwnedIsReached DEF Forest
<1>6. QED
  BY <1>1, <1>4, <1>5

(* The sections that contexts hold, as SectionsOwnedOnce names them.       *)
OpenAt == {d \in 1 .. Depth : frames[d].section # None}
OwnAt == {frames[d].section : d \in {d \in OpenAt : stack[d] # "PARAMETER"}}
OpenSections == {frames[d].section : d \in OpenAt}
TreeOf == IF phase = "freed" THEN {} ELSE {1}

LEMMA OpenIsBuilt ==
  ASSUME OwnInv, NEW d \in OpenAt
  PROVE  Owns /\ Builds(heap, freed, stack[d], frames[d].section)
<1>1. phase # "freed"
  BY DEF OwnInv, OpenAt
<1>2. Owns
  BY <1>1 DEF OwnInv
<1>3. Now.heap = heap /\ Now.stack = stack /\ Now.frames = frames
  BY DEF Now
<1>4. FramesOK(heap, freed, stack, frames)
  BY <1>2, <1>3 DEF Owns, Good, Kept
<1>5. FrameOK(heap, freed, stack[d], frames[d]) /\ frames[d].section # None
  BY <1>4 DEF FramesOK, OpenAt, Depth
<1>6. QED
  BY <1>2, <1>5 DEF FrameOK

LEMMA OwnersAreApart ==
  ASSUME OwnInv
  PROVE  OwnAt \cap (ListedBy(heap) \cup HeldOf(heap)) = {}
<1> SUFFICES ASSUME NEW x \in OwnAt, x \in ListedBy(heap) \cup HeldOf(heap) PROVE FALSE
  OBVIOUS
<1>1. PICK d \in OpenAt : stack[d] # "PARAMETER" /\ x = frames[d].section
  BY DEF OwnAt
<1>2. Root(heap, x)
  BY <1>1, OpenIsBuilt DEF Builds
<1>3. IsHeap(heap)
  BY DEF OwnInv
<1>4. PICK h : h = heap
  OBVIOUS
<1>5. CASE x \in ListedBy(heap)
  <2>1. PICK e \in EntriesOf(h) : x = Entry(h, e)
    BY <1>4, <1>5 DEF ListedBy
  <2>2. e[1] \in Sections(h) /\ x \in Entries(h, e[1])
    BY <1>3, <1>4, <2>1, EntryBasics
  <2>3. QED
    BY <1>2, <1>4, <2>2 DEF Root, Child
<1>6. CASE x \in HeldOf(heap)
  <2>1. PICK n \in HoldersOf(h) : x = HeldBy(h, n)
    BY <1>4, <1>6 DEF HeldOf, HeldBy
  <2>2. n \in Sections(h) /\ HeldBy(h, n) # None
    BY <1>3, <1>4, HeapBasics DEF HoldersOf, HeldBy
  <2>3. QED
    BY <1>2, <1>4, <2>1, <2>2 DEF Root, Child
<1>7. QED
  BY <1>5, <1>6

LEMMA ListedAreNotHeld ==
  ASSUME NEW h, IsSound(h)
  PROVE  ListedBy(h) \cap HeldOf(h) = {}
<1> SUFFICES ASSUME NEW x \in ListedBy(h), x \in HeldOf(h) PROVE FALSE
  OBVIOUS
<1>1. PICK e \in EntriesOf(h) : x = Entry(h, e)
  BY DEF ListedBy
<1>2. e[1] \in Sections(h) /\ x \in Entries(h, e[1])
  BY <1>1, EntryBasics DEF IsSound
<1>3. PICK n \in HoldersOf(h) : x = HeldBy(h, n)
  BY DEF HeldOf, HeldBy
<1>4. n \in Sections(h) /\ HeldBy(h, n) # None
  BY HeapBasics DEF IsSound, HoldersOf, HeldBy
<1>5. QED
  BY <1>2, <1>3, <1>4 DEF IsSound, HeldOnce

LEMMA OwnedIsNotFreed ==
  ASSUME OwnInv, NEW sec \in TreeOf \cup OpenSections
  PROVE  Owned(heap, sec) \cap freed = {}
<1>1. Owns /\ sec \in Sections(heap) /\ sec \notin freed
  <2>1. CASE sec \in TreeOf
    <3>1. phase # "freed" /\ sec = 1
      BY <2>1 DEF TreeOf
    <3>2. Owns
      BY <3>1 DEF OwnInv
    <3>3. Now.heap = heap
      BY DEF Now
    <3>4. Sound(heap, freed)
      BY <3>2, <3>3 DEF Owns, Good, Kept
    <3>5. QED
      BY <3>1, <3>2, <3>4 DEF Sound, Root
  <2>2. CASE sec \in OpenSections
    <3>1. PICK d \in OpenAt : sec = frames[d].section
      BY <2>2 DEF OpenSections
    <3>2. QED
      BY <3>1, OpenIsBuilt DEF Builds
  <2>3. QED
    BY <2>1, <2>2
<1>2. Now.heap = heap /\ Good(Now, freed)
  BY <1>1 DEF Owns, Now
<1>3. IsHeap(heap) /\ Forest(heap, freed)
  BY <1>2, GoodBasics
<1>4. QED
  BY <1>1, <1>3, ReachedIsNotFreed

LEMMA OwnershipHolds ==
  ASSUME OwnInv
  PROVE  SectionsOwnedOnce
<1>1. IsSound(heap)
  BY DEF OwnInv, IsSound
<1>2. PICK h : h = heap
  OBVIOUS
<1>3. ASSUME NEW e \in EntriesOf(h) PROVE Type(h, Entry(h, e)) \in Holds(Type(h, e[1]))
  <2>1. e[1] \in Sections(h) /\ Entry(h, e) \in Entries(h, e[1])
    BY <1>1, <1>2, EntryBasics DEF IsSound
  <2>2. QED
    BY <1>1, <1>2, <2>1 DEF IsSound, Lists
<1>4. \A e \in EntriesOf(heap) : Type(heap, Entry(heap, e)) \in Holds(Type(heap, e[1]))
  BY <1>2, <1>3
<1>5. /\ Cardinality(ListedBy(heap)) = Cardinality(EntriesOf(heap))
      /\ Cardinality(HeldOf(heap)) = Cardinality(HoldersOf(heap))
  BY <1>1, ListedCount, HeldCount
<1>6. ListedBy(heap) \cap HeldOf(heap) = {}
  BY <1>1, ListedAreNotHeld
<1>7. OwnAt \cap (ListedBy(heap) \cup HeldOf(heap)) = {}
  BY OwnersAreApart
<1>8. \A sec \in TreeOf \cup OpenSections : Owned(heap, sec) \cap freed = {}
  BY OwnedIsNotFreed
<1>9. QED
  BY <1>4, <1>5, <1>6, <1>7, <1>8, Zenon
     DEF SectionsOwnedOnce, EntriesOf, Entry, ListedBy, HoldersOf, HeldOf, OpenAt, OwnAt, OpenSections,
         TreeOf, Type

(* Whatever the article, broken ones included, each section is in one      *)
(* place of one list, or is held by one section, or is still the context's *)
(* that builds it; nothing that the tree or an open context reaches has    *)
(* been freed, so that cleanup_parser and free_wiki_seq_tree free nothing  *)
(* twice; and each list holds only the kinds it is declared for.           *)
THEOREM SectionsStayOwned == Spec => []SectionsOwnedOnce
<1>1. Init => StackInv /\ OwnInv
  BY StackStarts, OwnershipStarts
<1>2. (StackInv /\ OwnInv) /\ [Next]_vars => (StackInv /\ OwnInv)'
  <2>1. StackInv /\ [Next]_vars => StackInv'
    BY StackStays
  <2>2. StackInv /\ OwnInv /\ [Next]_vars => OwnInv'
    BY OwnershipKept
  <2>3. QED
    BY <2>1, <2>2
<1>3. StackInv /\ OwnInv => SectionsOwnedOnce
  BY OwnershipHolds
<1>4. QED
  BY <1>1, <1>2, <1>3, PTL DEF Spec
=============================================================================
