------------------------------ MODULE JdrText ------------------------------
(***************************************************************************)
(* The JDR renderers of jdr.go, WriteAllJDR and RenderJDR, and what they   *)
(* promise together with the parser.  Indentation and white space are left *)
(* out, and so is StyleYell.                                               *)
(***************************************************************************)
EXTENDS Jdr

CONSTANTS
  Docs,     \* the documents to render
  Styles,   \* the styles to render them in, see Rendered
  NoDoc     \* stands for no document

VARIABLE doc   \* the document that text renders, or NoDoc

\* the pieces ps with the tokens sep between them
Joined(ps, sep) ==
  FlattenSeq([k \in DOMAIN ps |-> IF k = Len(ps) THEN ps[k] ELSE ps[k] \o sep])

IsTupleAllFIRST(val) ==
  /\ Len(val) >= 2
  /\ \A k \in DOMAIN val : val[k].lit \in PLEX => val[k].lit = "P" /\ val[k].val = <<>>

\* WriteJDR, appendJDRList, appendInlineTuple; brackets: StyleBracketTuples
RECURSIVE WriteJDR(_, _)
WriteJDR(el, brackets) ==
  LET each(b) == [k \in DOMAIN el.val |-> WriteJDR(el.val[k], b)]
  IN  IF el.lit \notin PLEX THEN <<First(el.id, el.val)>>
      ELSE IF el.lit = "P" /\ ~brackets /\ IsTupleAllFIRST(el.val) /\ el.id = NoID
      THEN Joined(each(TRUE), <<Colon>>)
      ELSE <<Opening(el.lit, el.id)>> \o Joined(each(brackets), <<Comma>>) \o <<Closing(el.lit)>>

WriteAllJDR(rdx, brackets) ==
  FlattenSeq([k \in DOMAIN rdx |-> WriteJDR(rdx[k], brackets)])

\* RenderJDR: a style is a set of "comma" (StyleUseComma) and "inline"
\* (StyleShortInlineTuples); tuples are within the 64 bytes of a short one
IsShortishTuple(el) ==
  /\ el.lit = "P"
  /\ Len(el.val) > 1
  /\ \A k \in DOMAIN el.val : el.val[k].lit \in PLEX => el.val[k].lit = "P"

RECURSIVE RenderJDRList(_, _)
RenderFIRSTElementJDR(el) == <<First(el.id, el.val)>>
RenderPLEXElementJDR(el, style) ==
  <<Opening(el.lit, el.id)>> \o RenderJDRList(el.val, style) \o <<Closing(el.lit)>>
RenderInlineTupleJDR(el, style) ==
  Joined([k \in DOMAIN el.val |->
            IF el.val[k] = EmptyTuple THEN <<>>
            ELSE IF el.val[k].lit \in PLEX
            THEN RenderPLEXElementJDR(el.val[k], style \ {"inline"})
            ELSE RenderFIRSTElementJDR(el.val[k])], <<Colon>>)
RenderJDRList(rdx, style) ==
  Joined([k \in DOMAIN rdx |->
            IF rdx[k].lit \notin PLEX THEN RenderFIRSTElementJDR(rdx[k])
            ELSE IF "inline" \in style /\ IsShortishTuple(rdx[k])
            THEN RenderInlineTupleJDR(rdx[k], style)
            ELSE RenderPLEXElementJDR(rdx[k], style)],
         IF "comma" \in style THEN <<Comma>> ELSE <<>>)
RenderJDR(rdx, style) == RenderJDRList(rdx, style)

\* "write" is for WriteAllJDR
Rendered(rdx, style) ==
  IF "write" \in style THEN WriteAllJDR(rdx, "brackets" \in style) ELSE RenderJDR(rdx, style)

\* either any text is parsed, or one that was rendered
TextInit ==
  /\ \/ doc = NoDoc /\ text \in Texts
     \/ doc \in Docs /\ \E style \in Styles : text = Rendered(doc, style)
  /\ ParseJDR

TextSpec == TextInit /\ [][Next /\ UNCHANGED doc]_<<vars, doc>>
-----------------------------------------------------------------------------
(* Properties *)

\* The values of the FIRST elements of rdx, from left to right.
RECURSIVE LeavesOf(_)
LeavesOf(rdx) ==
  FlattenSeq([k \in DOMAIN rdx |->
                IF rdx[k].lit \in PLEX THEN LeavesOf(rdx[k].val) ELSE <<rdx[k].val>>])

\* However elements are moved into tuples they are already part of the
\* buffer for, none is lost, repeated or out of order.
InOrder ==
  LeavesOf(FlattenSeq([k \in DOMAIN stack |-> stack[k].inner])) =
    LET firsts == SelectSeq(SubSeq(text, 1, at), LAMBDA t : t.tok = "first")
    IN  [k \in DOMAIN firsts |-> firsts[k].val]

\* A document that is written and parsed again is the same document.
RoundTrips ==
  doc # NoDoc => pc # "failed" /\ (pc = "done" => stack[1].inner = doc)
=============================================================================
