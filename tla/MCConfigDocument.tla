--------------------------- MODULE MCConfigDocument ---------------------------
(* The popup switch, a window of each kind and a user, on overlapping          *)
(* paths, with every short command line to import.                              *)
EXTENDS ConfigDocument, TLC

CONSTANTS switch, editor, import, reorder

MCRole == (switch :> "switch") @@ (editor :> "editor")
          @@ (import :> "import") @@ (reorder :> "reorder")

MCPaths == {<<"a">>, <<"a", "b">>, <<"c">>, <<"d">>}
MCBackends == [r \in {<<"gd:">>} |-> "drive"]
MCDefaultConf == <<"conf">>

Conn(id, kind, local, side) == [id |-> id, kind |-> kind, local |-> local, side |-> side, login |-> FALSE]
MCDrafts == {Conn(1, "mount", <<"a", "b">>, None), Conn(2, "rclone-onedrive", <<"c">>, <<"a">>),
             Conn(2, "rclone-onedrive", <<"c">>, <<"d">>)}

RcloneTokens == {Word(w) : w \in {<<"a">>, <<"gd:">>, MCDefaultConf}}
                \cup {Option(o) : o \in {"--tuning", "--config", "--config=", "--cache-dir", "--flag", "--valued"}}
OnedriverTokens == {Word(<<"a">>), Word(<<"c">>)}
                   \cup {Option(o) : o \in {"--config-file", "--cache-dir", "--auth-only", "--flag", "-c"}}

\* Services that systemd can start, from every sequence of up to five words.
Started(engine, tokens, n) == {<<engine, l>> : l \in {m \in UNION {[1..k -> tokens] : k \in 1..n} : Starts(engine, m)}}

MCLines == Started("rclone", RcloneTokens, 4) \cup Started("onedriver", OnedriverTokens, 5)
=============================================================================
