-------------------------------- MODULE MCTeam --------------------------------
(* Small instances of Team for TLC: a leader and a member.                 *)
EXTENDS Team, TLC

CONSTANTS l, m

TwoAgents == {l, m}

Plain == [to |-> {}, named |-> {}, about |-> {}, team |-> FALSE, short |-> FALSE]

(* A word in passing, to each, to both by name, to the team, about each.   *)
MCKinds ==
    {Plain,
     [Plain EXCEPT !.to = {m}, !.short = TRUE],
     [Plain EXCEPT !.to = {l}],
     [Plain EXCEPT !.team = TRUE],
     [Plain EXCEPT !.to = {l}, !.team = TRUE, !.short = TRUE],
     [Plain EXCEPT !.about = {m}],
     [Plain EXCEPT !.about = {l}]}

(* An answer that names the member, one about it, one to the team.         *)
MCAnswers ==
    {[Plain EXCEPT !.named = {m}], [Plain EXCEPT !.about = {m}],
     [Plain EXCEPT !.team = TRUE]}
=============================================================================
