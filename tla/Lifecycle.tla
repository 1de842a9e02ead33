------------------------------ MODULE Lifecycle ------------------------------
(***************************************************************************)
(* The broker on top of Tiller implements the life of an instance as the   *)
(* platform sees it, where every call to Tiller comes back.                *)
(***************************************************************************)
EXTENDS BrokerProperties

\* A request works on its instance once Tiller no longer refuses it: from the
\* step after its first look and after the hooks that come before the work.
Working(r) == Running(r) /\ op[r].step \notin {"prepare", "history", "deleting"}

WorkedOn(i, kind) == \E r \in Requests : Working(r) /\ op[r].kind = kind /\ op[r].name = getName[i]

\* The phase of an instance, read off the calls in progress and the records.
PhaseOf(i) ==
  CASE WorkedOn(i, "install")   -> "creating"
    [] WorkedOn(i, "update")    -> "changing"
    [] WorkedOn(i, "uninstall") -> "removing"
    [] OTHER -> IF Revisions(getName[i]) = {} THEN "absent"
                ELSE IF DeployedRevisions(getName[i]) # {} THEN "there" ELSE "leftover"

StageOf(r) ==
  CASE pc[r] = "idle" -> "idle"
    [] pc[r] = "done" -> "answered"
    [] Working(r)     -> "working"
    [] OTHER -> IF op[r].step = "replied" THEN "over" ELSE "asked"

AskedOf(r) == IF req[r] = NoRequest THEN NoRequest ELSE [kind |-> req[r].kind, inst |-> req[r].inst]

OSB == INSTANCE OSBInstance WITH
         phase  <- [i \in Instances |-> PhaseOf(i)],
         stage  <- [r \in Requests |-> StageOf(r)],
         asked  <- [r \in Requests |-> AskedOf(r)],
         answer <- reply

\* A call has ended as the records say, and a request that is past its call, or
\* its look at the release, goes by what it found: a deprovision is sent for a
\* release and removes it, an install that failed left no deployed revision.
EndsAsFound(c) ==
  LET n == op[c].name
      ended == pc[c] = "await" /\ op[c].step = "replied" IN
  /\ pc[c] = "await" /\ At(c, "uninstall", "prepare") => Revisions(n) # {}
  /\ ended /\ op[c].kind = "install" => (op[c].ok <=> DeployedRevisions(n) # {})
  /\ ended /\ op[c].kind = "update" /\ op[c].ok => Revisions(n) # {}
  /\ ended /\ op[c].kind = "uninstall" => (op[c].ok <=> Revisions(n) = {})
  /\ pc[c] = "list" => req[c].kind = "update" /\ op[c].step = "replied"
  /\ pc[c] = "gone" => req[c].kind = "lastop" /\ Revisions(Name(c)) = {}

LifecycleInv == SerialInv /\ \A c \in Callers : EndsAsFound(c)

\* Through all its calls to Tiller, the broker does to an instance what the
\* request it serves asks for and nothing else, and answers by what came of
\* it: 201 only for an instance that is there, 500 to a provision only when
\* none is, 200 to a deprovision when nothing is left, "succeeded" to a poll
\* only for an instance that can be used.
ImplementsOSB == OSB!Spec
=============================================================================
