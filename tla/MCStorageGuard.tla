--------------------------- MODULE MCStorageGuard ---------------------------
(***************************************************************************)
(* Instance of StorageGuard for TLC: a root with a file, a directory that  *)
(* holds a file, and a directory with a name to skip that holds a file.    *)
(***************************************************************************)
EXTENDS StorageGuard

top == <<"top">>
sub == <<"top", "sub">>
venv == <<"top", "venv">>

MCDir == {top, sub, venv}
MCPath == MCDir \cup {<<"top", "a">>, <<"top", "sub", "b">>, <<"top", "venv", "c">>}
MCSkipName == {"venv"}
MCRootLists == {<<top>>, <<top, sub>>, <<venv, sub>>, <<<<"top", "a">>, sub>>}
MCArchive == venv
=============================================================================
