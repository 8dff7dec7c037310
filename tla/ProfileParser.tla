---------------------------- MODULE ProfileParser ----------------------------
(***************************************************************************)
(* The profile parser (cmd/profileparser/main.go): the main container of   *)
(* the parser pod.  It reads the ProfileBundle and the data stream, creates*)
(* the objects the data stream describes, one API call at a time, and      *)
(* writes its verdict into the ProfileBundle's status.  It talks to the    *)
(* API server directly, without a cache.  The pod's restart policy is      *)
(* OnFailure: the kubelet restarts it after every exit but a clean one.    *)
(***************************************************************************)
EXTENDS BundleCluster

VARIABLES
    ppc,      \* what the parser does next
    bundle,   \* the ProfileBundle it fetched ("pb" in main)
    pass,     \* 1, 2, 3: parsing Profiles, Rules, Variables
    pos,      \* the element it handles next, counted within the pass
    perr      \* the error it will report, "none" when all is well

parser == <<ppc, bundle, pass, pos, perr>>

ParserTypeOK ==
    /\ ppc \in {"off", "getBundle", "readContent", "parse", "verdict", "done"}
    /\ bundle \in Bundle
    /\ pass \in 1..3
    /\ pos \in Nat \ {0}
    /\ perr \in Messages
    /\ ppc # "off" => pod.owner # 0
    /\ ppc \in {"readContent", "parse", "verdict"} => bundle.uid # 0

ParserInit ==
    ppc = "off" /\ bundle = NoBundle /\ pass = 1 /\ pos = 1 /\ perr = "none"

\* The data stream the init container copied for the parser, and the elements
\* of the current pass.
Stream == Content[pod.image]
Elements == Stream.doc[pass]
Unreadable == Stream.file # "ok"

\* The parser is at the beginning (or the end) of a run.
Reset(next) ==
    /\ ppc' = next
    /\ bundle' = NoBundle
    /\ pass' = 1
    /\ pos' = 1
    /\ perr' = "none"

\* The parser starts with its pod, and goes with it.  (Survives: or starts anew.)
ParserStarts == Reset("getBundle")
ParserSurvives == Reset("getBundle")
ParserKilled == Reset("off")

\* Parsing fails for good: the error goes into the status.
Fail(msg) == ppc' = "verdict" /\ perr' = msg /\ UNCHANGED <<bundle, pass, pos>>

NextElement == pos' = pos + 1 /\ UNCHANGED <<ppc, bundle, pass, perr>>

\* The status the parser leaves; only an error changes the message.
Judged(b) == IF perr = "none" THEN [b EXCEPT !.status = "VALID"]
                          ELSE [b EXCEPT !.status = "INVALID", !.err = perr]

BundleCurrent == "bundle" \in fresh

-----------------------------------------------------------------------------
\* Fetch the ProfileBundle by name.  Failing to, the parser exits and is
\* restarted, which leaves it here.
FetchBundle ==
    /\ ppc = "getBundle"
    /\ pb.uid # 0
    /\ bundle' = pb
    /\ fresh' = fresh \cup {"bundle"}
    /\ ppc' = "readContent"
    /\ UNCHANGED <<pass, pos, perr>>
    /\ UNCHANGED <<pb, pod, objs, pbCache, podCache, queued, born, left>>

\* Open the data stream and parse it as XML.
ReadContent ==
    /\ ppc = "readContent"
    /\ CASE Stream.file = "missing" -> Fail("file")
         [] Stream.file = "badXml"  -> Fail("xml")
         [] Stream.file = "ok"      -> ppc' = "parse"
                                       /\ UNCHANGED <<bundle, pass, pos, perr>>
    /\ UNCHANGED cluster

\* An element that yields no object: a malformed one ends the parsing, a
\* skipped one does not.
PassOverElement ==
    /\ ppc = "parse"
    /\ pos <= Len(Elements)
    /\ \/ Elements[pos].form = "malformed" /\ Fail("malformed")
       \/ Elements[pos].form = "skipped" /\ NextElement
    /\ UNCHANGED cluster

\* Create the element's object, owned by the ProfileBundle.  One that exists
\* already is as good as created.
CreateElement ==
    /\ ppc = "parse"
    /\ pos <= Len(Elements)
    /\ Elements[pos].form = "good"
    /\ CreateObject(Elements[pos].obj, bundle.uid)
    /\ NextElement
    /\ UNCHANGED <<pb, pod, pbCache, podCache, fresh, queued, born, left>>

\* Creating fails, with or without (done) the object having been made.  For a
\* Profile the error ends the parsing; for a Rule or a Variable it is logged.
\* (LogCreateError: for a Profile, too.)
LogCreateError == NextElement
OnCreateError == IF pass = 1 THEN Fail("api") ELSE NextElement

CreateElementFails(done) ==
    /\ ppc = "parse"
    /\ pos <= Len(Elements)
    /\ Elements[pos].form = "good"
    /\ Spend("api")
    /\ IF done THEN CreateObject(Elements[pos].obj, bundle.uid)
               ELSE objs' = objs
    /\ OnCreateError
    /\ UNCHANGED <<pb, pod, pbCache, podCache, fresh, queued, born>>

\* All elements of the pass are handled: on to the next, or to the verdict.
EndPass ==
    /\ ppc = "parse"
    /\ pos > Len(Elements)
    /\ IF pass < 3 THEN pass' = pass + 1 /\ pos' = 1 /\ ppc' = "parse"
                   ELSE ppc' = "verdict" /\ UNCHANGED <<pass, pos>>
    /\ UNCHANGED <<bundle, perr>>
    /\ UNCHANGED cluster

\* Write the verdict and exit: cleanly, unless the content was unreadable or
\* the reply to the update was lost.
UpdateStatus(lost) ==
    /\ ppc = "verdict"
    /\ BundleCurrent
    /\ Answered(lost)
    /\ WriteBundle(Judged(bundle), {"bundle"})
    /\ Reset(IF lost \/ Unreadable THEN "getBundle" ELSE "done")
    /\ UNCHANGED <<pod, objs, pbCache, podCache, queued, born>>

\* The API server refuses the update, because the ProfileBundle has changed or
\* gone since it was fetched: the parser exits and is restarted.
UpdateRefused ==
    /\ ppc = "verdict"
    /\ ~BundleCurrent
    /\ Reset("getBundle")
    /\ UNCHANGED cluster

\* The container dies (done: the update call fails) and is restarted.
ParserDies ==
    /\ ppc \in {"readContent", "parse", "verdict"}
    /\ \/ Spend("crash")
       \/ ppc = "verdict" /\ Spend("api")
    /\ Reset("getBundle")
    /\ fresh' = fresh \ {"bundle"}
    /\ UNCHANGED <<pb, pod, objs, pbCache, podCache, queued, born>>

Parse ==
    \/ FetchBundle
    \/ ReadContent
    \/ PassOverElement
    \/ CreateElement
    \/ EndPass
    \/ UpdateStatus(FALSE)
    \/ UpdateRefused

ParserNext ==
    \/ Parse
    \/ \E done \in BOOLEAN : CreateElementFails(done)
    \/ UpdateStatus(TRUE)
    \/ ParserDies
=============================================================================
