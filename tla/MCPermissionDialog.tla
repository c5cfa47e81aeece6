------------------------- MODULE MCPermissionDialog -------------------------
(* A small instance of PermissionDialog for TLC: one path of each kind the *)
(* policy tells apart, the screens of one and two of the lines below, and  *)
(* the limits of the source.                                               *)
EXTENDS PermissionDialog

MCPaths == {"tmp/f", "listed/f", "src/f", "link", "../f", "~/f", "/etc", "a|b", "dir/*", "loop"}
MCResolved ==
  [path \in MCPaths |->
     CASE path = "tmp/f" -> "temp" [] path = "listed/f" -> "listed" [] path = "src/f" -> "src"
       [] path = "~/f" -> "home" [] path = "loop" -> "nowhere" [] OTHER -> "outside"]

Line(approval, privileged, ops, paths, access) ==
  [approval |-> approval, privileged |-> privileged, ops |-> ops, paths |-> paths, access |-> access]

(* Dialogs about one file, for each path; directory dialogs; a command; a  *)
(* question without a path; output that only happens to be on screen.      *)
MCLines ==
  {Line(TRUE, FALSE, {"read"}, {path}, FALSE) : path \in MCPaths}
  \cup {Line(TRUE, FALSE, {"delete", "write"}, {"tmp/f"}, FALSE),
        Line(TRUE, FALSE, {}, {"listed/f"}, TRUE), Line(TRUE, FALSE, {}, {"dir/*"}, TRUE),
        Line(TRUE, TRUE, {"write"}, {"tmp/f"}, FALSE),
        Line(TRUE, FALSE, {"read"}, {}, FALSE)}
  \cup {Line(FALSE, TRUE, {"write"}, {"/etc"}, FALSE), Line(FALSE, FALSE, {}, {"tmp/f"}, TRUE),
        Line(FALSE, FALSE, {}, {}, FALSE)}

MCScreens == {<<line>> : line \in MCLines} \cup {<<a, b>> : a, b \in MCLines}

(* What a policy does not look at is left as it is by default.             *)
MCSettings ==
  {s \in [policy : {"prompt", "project-temp-auto", "allowlist", "deny", "auto"},
          temp : BOOLEAN, actions : {{"read"}, {"read", "write", "create", "delete"}}] :
     /\ s.policy # "project-temp-auto" => s.temp
     /\ s.policy \in {"prompt", "deny"} => s.actions = {"read"}}

MCRequests == [op : {"read", "write", "create", "delete"}, place : {MCResolved[path] : path \in MCPaths}]
=============================================================================
