------------------------------ MODULE MCFsExec ------------------------------
(* A stick with two directories, one in the other, and a file; the paths    *)
(* asked for use every form of path, and are short enough, too long for a   *)
(* current directory, and too long for the buffer.                          *)
EXTENDS FsExec, TLC

Path(drive, root, comps) == [drive |-> drive, root |-> root, comps |-> comps]

MCNameLength == [n \in Names |-> Len(n)]

MCInputs == {Path(None, FALSE, <<"A">>), Path(None, FALSE, <<"..", "BB">>),
             Path(None, TRUE, <<".">>), Path(MAX_DEVICES, FALSE, <<"BB">>)}

\* All in place; and too near the limit: for more than a character, and for a
\* block of more than six bytes.
MCStrings == {<<1, 1, PATH_MAX - 1>>, <<PRIVATE_LIMIT - 7, PRIVATE_LIMIT - 2, PATH_MAX - 1>>}

\* Without an address, as long as can be, at the ends of the private area and
\* of the context, and the whole context.
MCBuffers == {<<0, 2>>, <<1, 7>>, <<PRIVATE_LIMIT - 1, 4>>, <<Mem - 1, 2>>, <<0, 0>>}

MCOffsets == {-1, 0, 2}

MCFirstDisk == (<<"A">> :> DIR) @@ (<<"A", "A">> :> DIR)

\* reply and wrote are read by no action, and looked at by the action property
\* alone, which is checked of every step.
View == <<mounted, disk, files, dirs, cwd, owned>>
=============================================================================
