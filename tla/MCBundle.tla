------------------------------- MODULE MCBundle -------------------------------
(* Small instances of BundleLifecycle. *)
EXTENDS BundleLifecycle

\* Data streams: three sound ones, one with a malformed rule, one whose file is
\* missing from the image; those of images that do not start matter not.
Good(o) == [obj |-> o, form |-> "good"]
Bad(o)  == [obj |-> o, form |-> "malformed"]
Skip(o) == [obj |-> o, form |-> "skipped"]

MCContent == [i \in Images |->
    CASE i = "sound"   -> [file |-> "ok",
                           doc |-> <<<<Good("p1"), Good("p2")>>,
                                     <<Good("r1")>>,
                                     <<Skip("v1")>>>>]
      [] i = "tiny"    -> [file |-> "ok", doc |-> <<<<Good("p1")>>, <<>>, <<>>>>]
      [] i = "small"   -> [file |-> "ok",
                           doc |-> <<<<Good("p1")>>, <<Good("r1")>>, <<>>>>]
      [] i = "broken"  -> [file |-> "ok",
                           doc |-> <<<<Good("p1")>>,
                                     <<Good("r1"), Bad("r1")>>,
                                     <<Good("v1")>>>>]
      [] i = "nofile"  -> [file |-> "missing", doc |-> <<<<>>, <<>>, <<>>>>]
      [] i \in {"nopull", "noname"} -> [file |-> "badXml", doc |-> <<<<>>, <<>>, <<>>>>]]

\* One image cannot be pulled, and one has a name that none can have.
MCStartup == [i \in Images |-> CASE i = "nopull" -> "pullError"
                                  [] i = "noname" -> "otherError"
                                  [] OTHER        -> "ready"]

\* Which faults happen, once each.
Once(kinds) == [k \in FaultKinds |-> IF k \in kinds THEN 1 ELSE 0]
AllButDrain == Once(FaultKinds \ {"drain"})
CrashDrainStart == Once({"crash", "drain", "start"})
NoFaults == Once({})
OneApiFault == Once({"api"})
=============================================================================
