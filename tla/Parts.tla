--------------------------------- MODULE Parts ---------------------------------
(***************************************************************************)
(* The parts of the agent without a protocol between them, in one instance *)
(* for TLC.  A behaviour is about one of them: the rights of an application,*)
(* the policies of the command line, an access control list that is        *)
(* normalised, or the sessions with remote applications.  They share no    *)
(* state except Util, which only the first one starts and stops.           *)
(***************************************************************************)
EXTENDS Manifests, Policies, Sessions

VARIABLE part

vars == <<mvars, pvars, svars, part>>

Idle(p) ==
  /\ p # "manifest" => ba = FALSE /\ agent = "down"
  /\ p # "policy" => util

Init ==
  /\ part \in {"manifest", "policy", "normal", "session"}
  /\ ManifestInit /\ GeneratorInit /\ SessionInit /\ Idle(part)
  /\ part # "manifest" => app.template = CHOOSE t \in Templates : TRUE
  /\ NormalizeInit(IF part = "normal" THEN Inputs ELSE {<<>>})

Next ==
  /\ UNCHANGED part
  /\ \/ part = "manifest" /\ ManifestNext /\ UNCHANGED <<pvars, svars>>
     \/ part = "policy" /\ Command /\ UNCHANGED <<mvars, svars>>
     \/ part = "normal" /\ Normalize /\ UNCHANGED <<mvars, svars>>
     \/ part = "session" /\ SessionNext /\ UNCHANGED <<mvars, pvars>>

Spec == Init /\ [][Next]_vars

\* ---- small instances: two objects, three members, two actions ----

Member(i, k) == [id |-> i, mask |-> k]
Rule(o, ms) == [on |-> o, members |-> ms]

\* Three, the second of which is not compressed: x.p comes twice.
SmallTemplates ==
  {{Rule("x", {Member("p", {"o"}), Member("q", {"o"})})},
   {Rule("x", {Member("p", {"o"})}), Rule("x", {Member("p", {"m"}), Member("r", {})})},
   {Rule("x", {Member("p", {"m"})}), Rule("y", {Member("p", {"o", "m"})})}}

RuleKeys == {<<1, 2>>, <<2, 1>>, <<2, 2>>}
Entries == {[key |-> k, mask |-> m] : k \in RuleKeys, m \in {{"o"}, {"m"}}}
Lists == {[key |-> k, members |-> <<e>>] : k \in RuleKeys, e \in Entries}
           \cup {[key |-> k, members |-> <<e, f>>] : k \in {<<1, 2>>, <<2, 1>>}, e, f \in Entries}
           \cup {[key |-> <<1, 2>>, members |-> <<[key |-> k, mask |-> {"o"}], [key |-> l, mask |-> {"m"}],
                                                [key |-> k, mask |-> m]>>] :
                    k, l \in RuleKeys, m \in {{"m"}}}
SmallInputs == {<<l>> : l \in Lists} \cup {<<l, k>> : l, k \in Lists}

TypeOK ==
  /\ part \in {"manifest", "policy", "normal", "session"}
  /\ {ba, util} \subseteq BOOLEAN
  /\ agent \in {"down", "up", "ending", "stopped"} /\ (agent = "down" => ~ba)
  /\ app.template \in Templates /\ app.needs \in BOOLEAN
  /\ row.bytes \in Templates /\ row.fresh \in BOOLEAN
  /\ job.pc \in {"idle", "identity", "compare"} /\ job.mf.bytes \in Templates \cup {{}}
  /\ Len(offers) \in 0 .. MaxOffers
  /\ groups \subseteq Groups /\ deniedKeys \subseteq Keys
  /\ policy.version \in 0 .. MaxVersion
  /\ SessionTypeOK
  /\ Len(rmap) <= Len(input) /\ Len(todo) <= Len(input)
================================================================================
