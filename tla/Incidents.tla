------------------------------ MODULE Incidents ------------------------------
(***************************************************************************)
(* Incidents (services/incidents.py): opened about an agent and perhaps    *)
(* about one of its executions, investigated, and closed as resolved or    *)
(* dismissed.  Every operation commits the row and then, in a transaction  *)
(* of its own, its audit row; creating a closed incident commits the row   *)
(* without the time of its resolution and adds it in a second transaction. *)
(* Nothing locks a row between its SELECT and its UPDATE.                  *)
(*                                                                         *)
(* The incident created by request y is named y.                           *)
(***************************************************************************)
EXTENDS Executions

CONSTANTS
    Reporters,        \* the requests made of the incidents API
    IncidentBodies,   \* what is sent to create an incident
    IncidentChanges   \* what is sent to change one

VARIABLES
    incidents,       \* incidents[y]: the row created by request y, or None
    reporters,       \* reporters[y]: where request y is
    disturbed        \* history: incidents written over a row that had changed

\* The audit rows of incidents are not kept: nothing reads them.
incidentVars == <<incidents, reporters, disturbed>>

ActiveIncident == {"open", "investigating"}
ClosedIncident == {"resolved", "dismissed"}

\* noted: there are resolution notes.  dated: resolved_at is set.
IncidentRows ==
    [agent : Agents, execution : Recorders \cup {None},
     status : ActiveIncident \cup ClosedIncident, noted : BOOLEAN, dated : BOOLEAN]

\* A change leaves the status or the notes alone when it does not mention
\* them; notes may be sent as null.
ASSUME IncidentsAssumption ==
    /\ IncidentBodies \subseteq
          [agent : Agents, execution : Recorders \cup {None},
           status : ActiveIncident \cup ClosedIncident, noted : BOOLEAN]
    /\ IncidentChanges \subseteq
          [status : ActiveIncident \cup ClosedIncident \cup {None},
           noted : BOOLEAN \cup {None}]
    /\ None \notin IncidentRows \cup ActiveIncident \cup ClosedIncident

IdleReporter == [pc |-> "idle", about |-> None, body |-> None, seen |-> None]

IncidentsInit ==
    /\ incidents = [y \in Reporters |-> None]
    /\ reporters = [y \in Reporters |-> IdleReporter]
    /\ disturbed = {}

ReporterMoves(y, pc) == reporters' = [reporters EXCEPT ![y].pc = pc]

\* The session is closed with the request.
ReporterEnds(y, pc) == reporters' = [reporters EXCEPT ![y] = [IdleReporter EXCEPT !.pc = pc]]

\* validate_agent_and_execution.
Concerns(b) ==
    /\ agents[b.agent] # "deleted"
    /\ b.execution # None =>
          executions[b.execution] # None /\ executions[b.execution].agent = b.agent

\* A resolution has notes; the row is inserted and committed.
CreateIncident(y, b) ==
    /\ reporters[y].pc = "idle"
    /\ Concerns(b)
    /\ b.status = "resolved" => b.noted
    /\ incidents' = [incidents EXCEPT ![y] =
          [agent |-> b.agent, execution |-> b.execution, status |-> b.status,
           noted |-> b.noted, dated |-> FALSE]]
    /\ reporters' = [reporters EXCEPT ![y] =
          [IdleReporter EXCEPT !.pc = IF b.status \in ClosedIncident THEN "undated"
                                   ELSE "written", !.about = y]]
    /\ UNCHANGED disturbed

DateIncident(y) ==
    /\ reporters[y].pc = "undated"
    /\ incidents' = [incidents EXCEPT ![y].dated = TRUE]
    /\ ReporterMoves(y, "written")
    /\ UNCHANGED disturbed

\* Variant: a closed incident may be opened again.
AcceptsReopening(status, b) ==
    /\ b.status \in ClosedIncident => status \in ActiveIncident
    /\ b.status = "resolved" => b.noted = TRUE

\* The checks of update_incident and of decide_incident on the loaded status.
Accepts(status, b) ==
    /\ status \in ClosedIncident => b.status \notin ActiveIncident
    /\ b.status \in ClosedIncident => status \in ActiveIncident
    /\ b.status = "resolved" => b.noted = TRUE

LoadIncident(y, i, b) ==
    /\ reporters[y].pc = "idle"
    /\ incidents[i] # None
    /\ Accepts(incidents[i].status, b)
    /\ reporters' = [reporters EXCEPT ![y] =
                       [pc |-> "loaded", about |-> i, body |-> b, seen |-> incidents[i]]]
    /\ UNCHANGED <<incidents, disturbed>>

\* Variant: a dismissal is not dated.
ChangedIncidentDatingResolved(row, seen, b) ==
    [row EXCEPT !.status = NetChange(@, seen.status, b.status),
                !.noted = NetChange(@, seen.noted, b.noted),
                !.dated = @ \/ b.status = "resolved"]

ChangedIncident(row, seen, b) ==
    [row EXCEPT !.status = NetChange(@, seen.status, b.status),
                !.noted = NetChange(@, seen.noted, b.noted),
                !.dated = @ \/ b.status \in ClosedIncident]

CommitIncident(y) ==
    LET r == reporters[y]
        row == incidents[r.about]
    IN  /\ r.pc = "loaded"
        /\ incidents' = [incidents EXCEPT ![r.about] = ChangedIncident(row, r.seen, r.body)]
        /\ disturbed' = disturbed \cup (IF row = r.seen THEN {} ELSE {r.about})
        /\ ReporterMoves(y, "written")

AuditIncident(y) ==
    /\ reporters[y].pc = "written"
    /\ ReporterEnds(y, "done")
    /\ UNCHANGED <<incidents, disturbed>>

FailReporter(y) ==
    /\ \/ reporters[y].pc = "loaded" /\ ReporterEnds(y, "failed")
       \/ reporters[y].pc \in {"undated", "written"} /\ ReporterEnds(y, "torn")
    /\ UNCHANGED <<incidents, disturbed>>

IncidentsNext ==
    \E y \in Reporters :
        \/ \E b \in IncidentBodies : CreateIncident(y, b)
        \/ \E i \in Reporters, b \in IncidentChanges : LoadIncident(y, i, b)
        \/ DateIncident(y) \/ CommitIncident(y) \/ AuditIncident(y) \/ FailReporter(y)
=============================================================================
