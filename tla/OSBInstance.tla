----------------------------- MODULE OSBInstance -----------------------------
(***************************************************************************)
(* What the broker promises a platform that sends each instance one        *)
(* request at a time: what may happen to an instance, on whose behalf, and *)
(* what an answer tells about it.  Nothing is said of releases, revisions, *)
(* Tiller or Kubernetes.                                                   *)
(***************************************************************************)
CONSTANTS Instances, Requests

Kinds == {"provision", "update", "deprovision", "bind", "unbind", "lastop"}

VARIABLES phase,   \* of an instance: "absent", "creating", "there", "changing",
                   \* "removing", or "leftover" of a provision that failed
          stage,   \* of a request: "idle", "asked", "working", "over", "answered"
          asked,   \* its kind and its instance
          answer

vars == <<phase, stage, asked, answer>>

NoRequest == [kind |-> "none"]

Init ==
  /\ phase = [i \in Instances |-> "absent"]
  /\ stage = [r \in Requests |-> "idle"]
  /\ asked = [r \in Requests |-> NoRequest]
  /\ answer = [r \in Requests |-> "none"]

Open(r) == stage[r] \notin {"idle", "answered"}

Phase(r) == phase[asked[r].inst]

Ask(r) ==
  /\ stage[r] = "idle"
  /\ \E k \in Kinds, i \in Instances :
       /\ \A q \in Requests : Open(q) => asked[q].inst # i
       /\ asked' = [asked EXCEPT ![r] = [kind |-> k, inst |-> i]]
  /\ stage' = [stage EXCEPT ![r] = "asked"]
  /\ UNCHANGED <<phase, answer>>

\* What a request does to its instance, from where to where.
Work == [provision   |-> [from |-> {"absent"}, by |-> "creating", to |-> {"there", "leftover"}],
         update      |-> [from |-> {"there"}, by |-> "changing", to |-> {"there"}],
         deprovision |-> [from |-> {"there", "leftover"}, by |-> "removing", to |-> {"absent"}]]

Begin(r) ==
  /\ stage[r] = "asked" /\ asked[r].kind \in DOMAIN Work
  /\ Phase(r) \in Work[asked[r].kind].from
  /\ phase' = [phase EXCEPT ![asked[r].inst] = Work[asked[r].kind].by]
  /\ stage' = [stage EXCEPT ![r] = "working"]
  /\ UNCHANGED <<asked, answer>>

End(r) ==
  /\ stage[r] = "working"
  /\ \E to \in Work[asked[r].kind].to : phase' = [phase EXCEPT ![asked[r].inst] = to]
  /\ stage' = [stage EXCEPT ![r] = "over"]
  /\ UNCHANGED <<asked, answer>>

\* The cluster refuses a request before anything has changed.
Refuse(r) ==
  /\ stage[r] = "asked" /\ asked[r].kind \in DOMAIN Work
  /\ stage' = [stage EXCEPT ![r] = "over"]
  /\ UNCHANGED <<phase, asked, answer>>

\* What may be answered at a stage, given the phase of the instance.
Codes(kind, at, ph) ==
  CASE kind = "provision" /\ at = "asked" -> IF ph = "absent" THEN {"500"} ELSE {"409"}
    [] kind = "provision" /\ at = "over" -> IF ph = "there" THEN {"201"} ELSE {"500"}
    [] kind = "update" /\ at = "asked" -> {"500"}
    [] kind = "update" /\ at = "over" -> IF ph = "absent" THEN {"500"} ELSE {"200", "500"}
    [] kind = "deprovision" /\ at = "asked" -> IF ph = "absent" THEN {"410"} ELSE {}
    [] kind = "deprovision" /\ at = "over" -> IF ph = "absent" THEN {"200"} ELSE {"500"}
    [] kind = "bind" -> IF ph = "absent" THEN {"500"} ELSE {"201", "500"}
    [] kind = "unbind" -> {"200"}
    [] kind = "lastop" -> CASE ph = "absent" -> {"410"}
                            [] ph = "there" -> {"succeeded", "in progress", "failed"}
                            [] OTHER -> {"failed"}

Answer(r) ==
  /\ stage[r] \in {"asked", "over"}
  /\ \E code \in Codes(asked[r].kind, stage[r], Phase(r)) :
       answer' = [answer EXCEPT ![r] = code]
  /\ stage' = [stage EXCEPT ![r] = "answered"]
  /\ UNCHANGED <<phase, asked>>

Next == \E r \in Requests : Ask(r) \/ Begin(r) \/ End(r) \/ Refuse(r) \/ Answer(r)

Spec == Init /\ [][Next]_vars
=============================================================================
