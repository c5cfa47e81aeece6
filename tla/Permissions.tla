---------------------------- MODULE Permissions ----------------------------
(***************************************************************************)
(* The permission policy (ariadex/permissions.py): how a provider's dialog *)
(* is read from the tail of its pane, and what the policy decides about    *)
(* the request that was read.                                              *)
(*                                                                         *)
(* A screen is a sequence of lines, a line a record of what the parser     *)
(* tells apart:                                                            *)
(*   approval    it carries an approval phrase                             *)
(*   privileged  it carries a privileged word                              *)
(*   ops         the operations it names, by any synonym                   *)
(*   paths       the path tokens on it                                     *)
(*   access      it names access to a directory                            *)
(***************************************************************************)
EXTENDS SequencesExt

CONSTANTS
  Paths,        \* paths as a dialog writes them
  Nowhere,      \* what an unresolvable path resolves to
  Resolved,     \* the place each path resolves to, symlinks followed
  InTempRoot, InAllowlist, InProject,       \* places
  Anchored,     \* paths that start inside the project and have no ".."
  WithParent, FromHome, WithShell, WithGlob \* other properties of a path's text

PERMISSION_ACTIONS == <<"read", "write", "create", "delete">>

NoRequest == [op |-> "", place |-> Nowhere]

Approvals(screen) == {line \in ToSet(screen) : line.approval}

Scope_Tail(screen) == ToSet(screen)

(* The approval lines where there are any, the whole tail otherwise.       *)
Scope(screen) == IF Approvals(screen) = {} THEN ToSet(screen) ELSE Approvals(screen)

Privileged(lines) == \E line \in lines : line.privileged

PathsOf(lines) == UNION {line.paths : line \in lines}

(* The operations that the lines name, by their place in canonical order.  *)
OperationsOf(lines) ==
  {i \in DOMAIN PERMISSION_ACTIONS : \E line \in lines : PERMISSION_ACTIONS[i] \in line.ops}

Unread == [op |-> "", path |-> ""]

FileAction(lines) ==
  IF \E path \in Paths \ WithShell : PathsOf(lines) = {path} /\ OperationsOf(lines) # {}
  THEN [op |-> PERMISSION_ACTIONS[Min(OperationsOf(lines))], path |-> CHOOSE path \in PathsOf(lines) : TRUE]
  ELSE Unread

(* The first line of the tail that names access to a directory, whether or *)
(* not it is part of the dialog.                                           *)
DirectoryAccess(screen) ==
  LET i == SelectInSeq(screen, LAMBDA line : line.access)
  IN  IF \E path \in Paths \ (WithShell \cup WithGlob) : i # 0 /\ screen[i].paths = {path}
      THEN [op |-> "read", path |-> CHOOSE path \in screen[i].paths : TRUE]
      ELSE Unread

(* parse_permission_request *)
Parse(screen) ==
  IF Privileged(Scope(screen)) THEN Unread
  ELSE IF FileAction(Scope(screen)) # Unread THEN FileAction(Scope(screen))
  ELSE DirectoryAccess(screen)

-----------------------------------------------------------------------------
(* settings: policy, temp (the private root can be prepared), actions.     *)

Roots(settings) ==
  InAllowlist \cup (IF settings.policy = "project-temp-auto" THEN InTempRoot ELSE {})

Prepared(settings) == settings.policy = "project-temp-auto" => settings.temp

Result(result, request) == [result |-> result, request |-> request]

RequestOf(parsed) ==
  IF parsed = Unread THEN NoRequest ELSE [op |-> parsed.op, place |-> Resolved[parsed.path]]

Contained(settings, place) == place \in Roots(settings)

(* Outside every root: waiting for a plain path, refused for one that left *)
(* the project by "..", by "~" or through a symlink.                       *)
Escapes(path) ==
  \/ path \in WithParent \cup FromHome
  \/ path \in Anchored /\ Resolved[path] \notin InProject

PolicyOfRequest(settings, parsed) ==
  LET request == RequestOf(parsed)
  IN  IF request.place = Nowhere THEN Result("waiting", request)
      ELSE IF request.op \notin settings.actions THEN Result("deny", request)
      ELSE IF settings.policy = "auto" \/ Contained(settings, request.place)
           THEN Result("allow", request)
      ELSE Result(IF Escapes(parsed.path) THEN "deny" ELSE "waiting", request)

(* evaluate, with the request it parsed from this screen.                  *)
Evaluate(settings, screen) ==
  LET parsed == Parse(screen)
  IN  IF settings.policy = "prompt" THEN Result("waiting", RequestOf(parsed))
      ELSE IF settings.policy = "deny" THEN Result("deny", RequestOf(parsed))
      ELSE IF parsed # Unread THEN PolicyOfRequest(settings, parsed)
      ELSE Result(IF Privileged(Scope(screen)) THEN "deny" ELSE "waiting", NoRequest)

(* What the watcher decides for a poll: the roots are prepared first.      *)
Decision(settings, screen) ==
  IF Prepared(settings) THEN Evaluate(settings, screen) ELSE Result("waiting", NoRequest)
=============================================================================
