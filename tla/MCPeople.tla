------------------------------ MODULE MCPeople ------------------------------
(* Who may do what and what happens to people: roles and permissions,      *)
(* policies, tickets, accounts, people in the clocks, their records, and   *)
(* the settings with the mail they direct.  The parts share no state: a    *)
(* behaviour runs one of Parts, the others stay as they start.             *)
EXTENDS AccessControl, Policies, Tickets, Accounts, ClockPeople, HumanResources, SystemConfig

CONSTANTS Parts, x1, x2

VARIABLE part

\* Requests in flight are these two values in every part.
Symmetry == Permutations({x1, x2})

MCScopeChoices == {{"OWN"}, {"OWN", "ALL"}}

\* One change, or two of different roles for roles.manage.
MCBatches ==
    {{c} : c \in Changes}
      \cup {{c, d} : c, d \in [role : Roles, permission : {Manage}, scope : {"NONE", "ALL"}]}

MCRoleOf == [emp |-> "EMPLOYEE", head |-> "AREA_HEAD", boss |-> "MANAGER", adm |-> "ADMIN"]
MCDepartmentOf == [emp |-> "d1", head |-> "d1", boss |-> "d1", adm |-> Nobody]

\* The cells of tickets.* and tasks.* the seed installs for these roles.
Cells(view, edit, close, delete, tasks, assign, complete) ==
    ("tickets.view" :> view) @@ ("tickets.edit" :> edit) @@ ("tickets.close" :> close) @@
    ("tickets.delete" :> delete) @@ ("tasks.view" :> tasks) @@ ("tasks.assign" :> assign) @@
    ("tasks.complete" :> complete)

MCMatrix ==
    [EMPLOYEE  |-> Cells("OWN", "NONE", "NONE", "NONE", "OWN", "NONE", "NONE"),
     AREA_HEAD |-> Cells("AREA", "OWN", "AREA", "NONE", "AREA", "OWN", "NONE"),
     MANAGER   |-> Cells("AREA", "AREA", "AREA", "NONE", "AREA", "OWN", "AREA"),
     ADMIN     |-> Cells("ALL", "ALL", "ALL", "ALL", "ALL", "ALL", "ALL")]

MCSubareasOf == [d1 |-> {"s1"}]

\* The recipients of the notices: an address, or a value of spaces.
MCAccepted == {<<"recipients", "x">>, <<"recipients", " ">>}
MCDeployment == {[dryRun |-> FALSE, resend |-> TRUE, smtp |-> TRUE],
                 [dryRun |-> FALSE, resend |-> FALSE, smtp |-> TRUE],
                 [dryRun |-> TRUE, resend |-> FALSE, smtp |-> FALSE]}

vars == <<part, accessVars, policyVars, ticketVars, accountVars, peopleVars, hrVars, configVars>>

Init ==
  /\ part \in Parts
  /\ AccessInit /\ PoliciesInit /\ TicketsInit /\ AccountsInit /\ PeopleInit /\ HRInit /\ ConfigInit
  /\ part # "access" => mainRole = [u \in Users |-> "ADMIN"] /\ permRow = Installed(Permissions)
  /\ part # "policies" => rules = CHOOSE r \in CacheOf(policy) : TRUE
  /\ part # "settings" => mailer = [dryRun |-> TRUE, resend |-> FALSE, smtp |-> FALSE]

Next ==
  \/ (/\ part = "access" /\ AccessNext
      /\ UNCHANGED <<part, policyVars, ticketVars, accountVars, peopleVars, hrVars, configVars>>)
  \/ (/\ part = "policies" /\ PoliciesNext
      /\ UNCHANGED <<part, accessVars, ticketVars, accountVars, peopleVars, hrVars, configVars>>)
  \/ (/\ part = "tickets" /\ TicketsNext
      /\ UNCHANGED <<part, accessVars, policyVars, accountVars, peopleVars, hrVars, configVars>>)
  \/ (/\ part = "accounts" /\ AccountsNext
      /\ UNCHANGED <<part, accessVars, policyVars, ticketVars, peopleVars, hrVars, configVars>>)
  \/ (/\ part = "clocks" /\ PeopleNext
      /\ UNCHANGED <<part, accessVars, policyVars, ticketVars, accountVars, hrVars, configVars>>)
  \/ (/\ part = "records" /\ HRNext
      /\ UNCHANGED <<part, accessVars, policyVars, ticketVars, accountVars, peopleVars, configVars>>)
  \/ (/\ part = "settings" /\ ConfigNext
      /\ UNCHANGED <<part, accessVars, policyVars, ticketVars, accountVars, peopleVars, hrVars>>)

Spec == Init /\ [][Next]_vars
=============================================================================
