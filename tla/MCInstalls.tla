----------------------------- MODULE MCInstalls -----------------------------
(***************************************************************************)
(* Installs on a machine with two clients: the roots a user or the         *)
(* registry may give, spelled in all the ways the tests name, and the      *)
(* documents that two installs and two launch orders leave.                *)
(***************************************************************************)
EXTENDS Installs

SmallExes == {"live", "pbe"}

SmallLowerCase ==
  [n \in {"/", "\\", "c:", "riot", "league", "game", "endgame"} |-> n]
    @@ [n \in {"C:"} |-> "c:"] @@ [n \in {"Riot"} |-> "riot"]
    @@ [n \in {"League", "LEAGUE"} |-> "league"] @@ [n \in {"Game"} |-> "game"]
    @@ [n \in {"Endgame"} |-> "endgame"]

League == <<"C:", "/", "Riot", "/", "League", "/">>
Endgame == <<"C:", "/", "Riot", "/", "Endgame", "/">>
InGame == <<"C:", "/", "Riot", "/", "Game", "/">>
Respelled == <<"c:", "\\", "Riot", "\\", "LEAGUE">>

Typed ==
  {League, Front(League), Endgame, Respelled,
   <<"C:", "\\", "Riot", "/", "League", "\\">>,
   <<"C:", "\\", "Riot", "\\", "League", "\\", "Game">>,
   <<"C:", "/", "Riot", "/", "League", "/", "game", "/">>}

Patchline(path, relative) ==
  [installFullPath |-> path,
   secondaries |-> <<[id |-> "game_patch", relativePath |-> relative]>>]

Patchlines ==
  {Patchline(p, r) : p \in {<<>>, League, <<"C:", "\\", "Riot", "\\", "League">>},
                     r \in {<<>>, <<"Game">>}}

NoPatchline == Patchline(<<>>, <<>>)

Source(from, path, patchline, id) ==
  [from |-> from, path |-> path, patchline |-> patchline, id |-> id]

SmallSources ==
  {Source("typed", p, NoPatchline, "") : p \in Typed} \cup {Source("unset", <<>>, NoPatchline, "")}
  \cup {Source("root", <<>>, p, "") : p \in Patchlines}
  \cup {Source("secondary", <<>>, p, id) : p \in Patchlines, id \in {"game_patch", "other"}}

Document(associated, default, live) ==
  [associated |-> associated, rcDefault |-> default, rcLive |-> live]

Names == SmallExes \cup {None}

SmallDocuments ==
  {Document(a, d, l) : a \in {<<>>} \cup [{League} -> SmallExes]
                               \cup [{League, Endgame} -> SmallExes]
                               \cup [{League, Respelled} -> SmallExes],
                       d \in Names, l \in Names}

\* An install in a directory called Game.
GameSources == {Source("typed", p, NoPatchline, "") : p \in {InGame, Front(InGame)}}

GameDocuments ==
  {Document(a, d, l) : a \in [{InGame} -> SmallExes], d \in Names, l \in Names}
=============================================================================
