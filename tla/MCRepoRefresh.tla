--------------------------- MODULE MCRepoRefresh ---------------------------
(***************************************************************************)
(* Instances of RepoRefresh with one core device, all kinds of files it    *)
(* reads and one it does not. What a refresh and a sync do to a device     *)
(* does not depend on the others.                                          *)
(***************************************************************************)
EXTENDS RepoRefresh

CONSTANT d1

MCDevices == {d1}

MCType == [d \in MCDevices |-> "CORE"]

MCGroup == [d \in MCDevices |-> "BORDER"]

MCSettingsFiles == {[dir |-> "global",  of |-> None],
                    [dir |-> "fabric",  of |-> None],
                    [dir |-> "type",    of |-> "CORE"],
                    [dir |-> "type",    of |-> "ACCESS"],
                    [dir |-> "devices", of |-> d1],
                    [dir |-> "groups",  of |-> "BORDER"]}

MCCommits == [r \in Repos |-> IF r = "settings" THEN 2 ELSE 1]

MCTemplateFiles == {[dir |-> "templates", of |-> "CORE"]}
=============================================================================
