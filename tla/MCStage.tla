------------------------------- MODULE MCStage -------------------------------
(***************************************************************************)
(* Stage for TLC: two songs with names that can be mistaken for others,    *)
(* and lists of the server that know one, both, and one of them twice.     *)
(***************************************************************************)
EXTENDS Stage

MCWords ==
  {"", "anthem", "ballad", Plain, "cdn", "elsewhere", "opus", "ogg", "songs", "more", "cat"}
Name(title, site, ext) == [title |-> title, site |-> site, ext |-> ext]
Anthem == Name("anthem", Plain, "opus")
Ballad == Name("ballad", "cdn", "ogg")
MCFiles == {Anthem, Ballad, Name("anthem", Plain, ""), Name("ballad", "elsewhere", "ogg")}
Song(file, length) == [file |-> file, length |-> length]
MCRootLists ==
  {<<[name |-> "songs", tracks |-> <<Song(Anthem, 1)>>]>>,
   <<[name |-> "songs", tracks |-> <<Song(Anthem, 0), Song(Ballad, 1)>>]>>,
   <<[name |-> "songs", tracks |-> <<Song(Ballad, 1)>>],
     [name |-> "more", tracks |-> <<Song(Ballad, 0)>>]>>}
=============================================================================
