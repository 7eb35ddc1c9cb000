--------------------------- MODULE MCFileManager ---------------------------
(***************************************************************************)
(* Small instances of FileManager for TLC.                                 *)
(***************************************************************************)
EXTENDS FileManager

\* Less than two bytes, an archive, a damaged archive, an encrypted archive with
\* data: one or two messages of JunkSizeMax = 2 bytes.  (An empty manifest has none.)
AllContents ==
    {<<"x">>, <<"1F", "8B", "x">>, <<"1F", "8B", "j">>, <<"BC", "06", "x">>}
=============================================================================
