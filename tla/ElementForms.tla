----------------------------- MODULE ElementForms -----------------------------
(***************************************************************************)
(* Parsing a data stream as ProfileParser has it: an element has a form,   *)
(* good, skipped or malformed, and is handled in one step.  ContentParsing *)
(* implements this module.                                                 *)
(***************************************************************************)
EXTENDS Naturals, Sequences

VARIABLES
    doc,     \* the elements of the three passes: each has a form and an obj
    pass,    \* 1, 2, 3: handling Profiles, Rules, Variables
    pos,     \* the element that is handled next
    made,    \* the objects that exist
    failed,  \* did parsing end with an error?
    done     \* has it ended?

forms == <<doc, pass, pos, made, failed, done>>

Elements == doc[pass]

Init == pass = 1 /\ pos = 1 /\ made = {} /\ failed = FALSE /\ done = FALSE

\* The next element is of this form.
AtForm(form) == ~done /\ pos <= Len(Elements) /\ Elements[pos].form = form

NextElement == pos' = pos + 1 /\ UNCHANGED <<doc, pass, failed, done>>

PassOverElement ==
    /\ \/ AtForm("malformed") /\ failed' = TRUE /\ done' = TRUE /\ UNCHANGED <<doc, pass, pos>>
       \/ AtForm("skipped") /\ NextElement
    /\ UNCHANGED made

\* One that exists already is as good as created.
CreateElement ==
    /\ AtForm("good")
    /\ made' = made \cup {Elements[pos].obj}
    /\ NextElement

EndPass ==
    /\ ~done /\ pos > Len(Elements)
    /\ IF pass < 3 THEN pass' = pass + 1 /\ pos' = 1 /\ done' = FALSE
                   ELSE done' = TRUE /\ UNCHANGED <<pass, pos>>
    /\ UNCHANGED <<doc, made, failed>>

\* The parser dies and starts over on the objects it has left.
Restart == ~done /\ pass' = 1 /\ pos' = 1 /\ UNCHANGED <<doc, made, failed, done>>

Next == PassOverElement \/ CreateElement \/ EndPass \/ Restart

Spec == Init /\ [][Next]_forms
=============================================================================
