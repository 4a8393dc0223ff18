---------------------------- MODULE MCRemoteSetup ----------------------------
(* Two settings windows, one remote name and two SSH keys: every overlap of  *)
(* a setup with another on the same remote, and of a removal with a save.    *)
(* A page to modify differs from the one to add for Google Drive, and for    *)
(* SFTP by refusing more.                                                    *)
EXTENDS RemoteSetup, TLC

CONSTANTS w1, w2

Setup == {"Google", "Box", "Smb", "Sftp", "OneDrive", "Teams", "Onedriver"}

\* The second window stands for whatever else writes the file meanwhile.
MCOffered == (w1 :> {<<"add", kind>> : kind \in Setup} \cup {<<"modify", "Google">>})
             @@ (w2 :> {<<"manage", "Remove">>, <<"add", "Box">>})

\* A key is only compared with another.
KeySymmetry == Permutations(Keys)
=============================================================================
