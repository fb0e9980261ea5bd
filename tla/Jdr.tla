-------------------------------- MODULE Jdr --------------------------------
(***************************************************************************)
(* The JDR parser of jdr.go: the callbacks of the lexer, on the stack of   *)
(* the records being built.  A token is what the lexer matches: a FIRST    *)
(* element or an opening bracket with their stamps, a closing bracket, a   *)
(* comma, a colon or a semicolon.  Literals, stamps and white space are    *)
(* the lexer's; tokens are taken as well-formed.                           *)
(*                                                                         *)
(* A mark keeps the finished elements of its record, where the code keeps  *)
(* the offset at which they start in one buffer (module Tlv shows that the *)
(* buffer holds them), and LastBreak and LastElement count elements.       *)
(***************************************************************************)
EXTENDS Integers, Sequences, SequencesExt, FiniteSetsExt

CONSTANTS
  Texts,   \* the token sequences to parse
  NoID     \* the zero ID

VARIABLES
  text,    \* state.jdr, as tokens
  at,      \* tokens consumed
  stack,   \* state.stack
  pc       \* "parse", "done" or "failed" (ErrBadJDRNesting)

vars == <<text, at, stack, pc>>

PLEX == {"P", "L", "E", "X"}

\* tokens
First(id, v) == [tok |-> "first", lit |-> "I", id |-> id, val |-> v]
Opening(lit, id) == [tok |-> "open", lit |-> lit, id |-> id]
Closing(lit) == [tok |-> "close", lit |-> lit]
Comma == [tok |-> ","]
Colon == [tok |-> ":"]
Semicolon == [tok |-> ";"]

\* the lit of a tuple in colon or semicolon notation
InlineTuple == "p"
EmptyTuple == [lit |-> "P", id |-> NoID, val |-> <<>>]

\* Mark; commas is history: the commas met at its level
Mark(lit, id) ==
  [lit |-> lit, id |-> id, inner |-> <<>>, lastBreak |-> 0, lastElement |-> 0,
   pre |-> "", commas |-> 0]

ParseJDR ==
  /\ at = 0
  /\ stack = <<Mark(" ", NoID)>>
  /\ pc = "parse"

Init == text \in Texts /\ ParseJDR
-----------------------------------------------------------------------------
(* Steps of the callbacks, on a stack s *)

Line(s) == Last(s)
WithLine(s, mark) == [s EXCEPT ![Len(s)] = mark]
IsInline(s) == Line(s).lit = InlineTuple
AppendElement(s, el) == WithLine(s, [Line(s) EXCEPT !.inner = Append(@, el)])
Pre(s, p) == WithLine(s, [Line(s) EXCEPT !.pre = p])
Break(s) == WithLine(s, [Line(s) EXCEPT !.lastBreak = Len(Line(s).inner)])
ElementStarts(s) == WithLine(s, [Line(s) EXCEPT !.lastElement = Len(Line(s).inner)])

CloseTLV(s) ==
  AppendElement(Front(s), [lit |-> IF IsInline(s) THEN "P" ELSE Line(s).lit,
                           id |-> Line(s).id, val |-> Line(s).inner])

\* mistake: what moves into the tuple stays where it was, too
RetroOpenTupleCopies(s, pos) ==
  Append(s, [Mark(InlineTuple, NoID) EXCEPT
               !.inner = SubSeq(Line(s).inner, pos + 1, Len(Line(s).inner))])
\* the elements after pos turn out to be in a tuple; a LastElement among them
\* now counts as the tuple's start, the code's offset being inside the tuple
\* and less than the LastBreak set at its end
RetroOpenTuple(s, pos) ==
  Append(WithLine(s, [Line(s) EXCEPT !.inner = SubSeq(@, 1, pos),
                                     !.lastElement = Min({@, pos})]),
         [Mark(InlineTuple, NoID) EXCEPT
            !.inner = SubSeq(Line(s).inner, pos + 1, Len(Line(s).inner))])

AppendRDXEmptyTuple(s) == Pre(AppendElement(s, EmptyTuple), "p")

CloseInlineTuple(s) ==
  Pre(Break(CloseTLV(IF Line(s).pre = ":" THEN AppendElement(s, EmptyTuple) ELSE s)), "p")

\* mistake: an inline tuple goes on after white space
SettledNever(s) == s
\* before an element: an inline tuple that does not wait for one is over
Settled(s) == IF IsInline(s) /\ Line(s).pre # ":" THEN CloseInlineTuple(s) ELSE s
\* before a comma and at the end of the text
Ended(s) == IF IsInline(s) THEN CloseInlineTuple(s) ELSE s
-----------------------------------------------------------------------------
(* The callbacks *)

Token == text[at + 1]
Reads(tok) == pc = "parse" /\ at < Len(text) /\ Token.tok = tok /\ at' = at + 1

\* JDRonInt and friends, JDRonStamp or JDRonNoStamp, JDRonFIRST
JDRonFIRST ==
  /\ Reads("first")
  /\ stack' = Pre(AppendElement(ElementStarts(Settled(stack)),
                                [lit |-> Token.lit, id |-> Token.id, val |-> Token.val]), "1")
  /\ UNCHANGED <<text, pc>>

JDRonOpenPLEX ==
  /\ Reads("open")
  /\ stack' = Append(ElementStarts(Settled(stack)), Mark(Token.lit, Token.id))
  /\ UNCHANGED <<text, pc>>

\* an element is missing after a comma
ReadyToClose(s) ==
  IF IsInline(s) THEN CloseInlineTuple(s)
  ELSE IF Line(s).pre = "," THEN AppendRDXEmptyTuple(s) ELSE s

\* mistake: any bracket closes
JDRonCloseAny ==
  /\ Reads("close")
  /\ LET s == ReadyToClose(stack)
     IN  IF Line(s).lit # " "
         THEN stack' = Pre(CloseTLV(s), Token.lit) /\ pc' = pc
         ELSE stack' = s /\ pc' = "failed"
  /\ UNCHANGED text
JDRonClosePLEX ==
  /\ Reads("close")
  /\ LET s == ReadyToClose(stack)
     IN  IF Line(s).lit = Token.lit
         THEN stack' = Pre(CloseTLV(s), Token.lit) /\ pc' = pc
         ELSE stack' = s /\ pc' = "failed"
  /\ UNCHANGED text

\* mistake: two commas in a row are one
JDRonCommaOnce ==
  /\ Reads(",")
  /\ LET s == Ended(stack)
         t == IF Line(s).pre = "" THEN AppendRDXEmptyTuple(s) ELSE s
     IN  stack' = Pre(Break(WithLine(t, [Line(t) EXCEPT !.commas = @ + 1])), ",")
  /\ UNCHANGED <<text, pc>>
JDRonComma ==
  /\ Reads(",")
  /\ LET s == Ended(stack)
         t == IF Line(s).pre \in {"", ",", ";"} THEN AppendRDXEmptyTuple(s) ELSE s
     IN  stack' = Pre(Break(WithLine(t, [Line(t) EXCEPT !.commas = @ + 1])), ",")
  /\ UNCHANGED <<text, pc>>

\* mistake: every colon opens a tuple
JDRonColonOpens ==
  /\ Reads(":")
  /\ stack' = Pre(RetroOpenTuple(stack, Max({Line(stack).lastElement, Line(stack).lastBreak})), ":")
  /\ UNCHANGED <<text, pc>>
JDRonColon ==
  /\ Reads(":")
  /\ stack' = Pre(IF ~IsInline(stack)
                  THEN RetroOpenTuple(stack, Max({Line(stack).lastElement, Line(stack).lastBreak}))
                  ELSE IF Line(stack).pre \in {"", ":"} THEN AppendRDXEmptyTuple(stack)
                  ELSE stack, ":")
  /\ UNCHANGED <<text, pc>>

JDRonSemicolon ==
  /\ Reads(";")
  /\ stack' = CloseInlineTuple(IF IsInline(stack) THEN stack
                               ELSE RetroOpenTuple(stack, Line(stack).lastBreak))
  /\ UNCHANGED <<text, pc>>

\* JDRonRoot, and ParseJDR's check of the stack
JDRonRoot ==
  /\ pc = "parse"
  /\ at = Len(text)
  /\ stack' = Ended(stack)
  /\ pc' = IF Len(stack') = 1 THEN "done" ELSE "failed"
  /\ UNCHANGED <<text, at>>

Done == pc # "parse" /\ UNCHANGED vars

Next ==
  \/ JDRonFIRST \/ JDRonOpenPLEX \/ JDRonClosePLEX
  \/ JDRonComma \/ JDRonColon \/ JDRonSemicolon
  \/ JDRonRoot \/ Done

Spec == Init /\ [][Next]_vars
-----------------------------------------------------------------------------
(* Properties *)

\* The brackets open after the tokens consumed, or <<" ">> at a wrong one.
OpenBrackets ==
  FoldLeft(LAMBDA b, t :
             IF b = <<" ">> THEN b
             ELSE IF t.tok = "open" THEN Append(b, t.lit)
             ELSE IF t.tok # "close" THEN b
             ELSE IF b # <<>> /\ Last(b) = t.lit THEN Front(b) ELSE <<" ">>,
           <<>>, SubSeq(text, 1, at))

\* Colons, commas and semicolons never get in the way of the brackets: the
\* open records are those of the open brackets, and parsing fails exactly if
\* the brackets of the text do not match.  An inline tuple is never directly
\* inside another one.
Nesting ==
  /\ \A k \in 2..Len(stack) : InlineTuple # stack[k].lit \/ InlineTuple # stack[k - 1].lit
  /\ pc # "failed" =>
       SelectSeq([k \in DOMAIN stack |-> stack[k].lit], LAMBDA l : l \in PLEX) = OpenBrackets
  /\ pc = "done" => OpenBrackets = <<>>
  /\ pc = "failed" => OpenBrackets # <<>>

\* Every field between commas comes to something: a comma leaves at least as
\* many elements behind as there were commas, and a container closed after
\* commas has one more.
FieldsKept ==
  [][ /\ \A k \in DOMAIN stack' :
           Len(stack'[k].inner) >= stack'[k].commas \/ (k < Len(stack') /\ stack'[k + 1].lit = InlineTuple)
      /\ pc = "parse" /\ pc' = "parse" /\ Token.tok = "close" =>
           LET s == Ended(stack)
           IN  Line(s).commas > 0 => Len(Last(Line(stack').inner).val) > Line(s).commas ]_vars
=============================================================================
