------------------------------- MODULE MCFatFs -------------------------------
(* A small volume: names, archives and the ways the drive may be filled.   *)
EXTENDS FatFs

Named(stem, kind) == [stem |-> stem, kind |-> kind]
Archived(stem, size) == [name |-> Named(stem, "plain"), size |-> size]

GamesName == Named("GAMES", "plain")
SomeVolumes == {<<Archived("IO", 2)>>, <<Archived("IO", 2), Archived("COMMAND", 2)>>}
SomePrograms == {Named("QUEST", "plain"), Named("LONG", "long")}
SomeDirs == {<< >>, <<Named("DATA", "long")>>, <<Named("MAPS", "plain"), Named("DATA", "long")>>}
SomeFiles == {Named("A", "plain"), Named("B", "changed")}
SomeSizes == {0, 3}
=============================================================================
