---------------------------- MODULE LogicalPaths ----------------------------
(* The two functions that give a logical path its one spelling: that of the   *)
(* analyzer, which refuses a path that leaves the root of the file system,    *)
(* and that of the facade, which looks files up.                              *)
EXTENDS Naturals, SequencesExt

CONSTANTS
  Up,       \* the component ".."
  Here,     \* the component ".", or nothing between two slashes
  Refused   \* in place of a path: the analyzer ended with an error

(* A spelling is [absolute, parts, blank], with Up and Here among its parts;   *)
(* one that consists of white space only, or of nothing, is blank.            *)
FileSystemRoot == <<>>

(* Faulty: a component above the root is dropped.                             *)
NormalizeClamping(parts) ==
  LET path[n \in 0..Len(parts)] ==
        IF n = 0 THEN FileSystemRoot
        ELSE CASE parts[n] = Here -> path[n - 1]
               [] parts[n] = Up -> IF path[n - 1] = <<>> THEN <<>> ELSE Front(path[n - 1])
               [] OTHER -> Append(path[n - 1], parts[n])
  IN  path[Len(parts)]

(* normalize_path: PathBuf::pop fails at the root. *)
Normalize(parts) ==
  LET path[n \in 0..Len(parts)] ==
        IF n = 0 THEN FileSystemRoot
        ELSE IF path[n - 1] = Refused THEN Refused
        ELSE CASE parts[n] = Here -> path[n - 1]
               [] parts[n] = Up -> IF path[n - 1] = <<>> THEN Refused ELSE Front(path[n - 1])
               [] OTHER -> Append(path[n - 1], parts[n])
  IN  path[Len(parts)]

(* From where a spelling starts: absolute, or at the root of the project.     *)
Components(root, spelling) ==
  IF spelling.absolute THEN spelling.parts ELSE root \o spelling.parts

(* normalize_logical_path *)
LogicalPath(root, spelling) ==
  IF spelling.blank THEN Refused ELSE Normalize(Components(root, spelling))

(* normalizePath of the facade: pop() of an empty array changes nothing, and  *)
(* white space is the name of a file like any other.                          *)
LookupPath(root, spelling) ==
  LET parts == Components(root, spelling)
      path[n \in 0..Len(parts)] ==
        IF n = 0 THEN <<>>
        ELSE CASE parts[n] = Here -> path[n - 1]
               [] parts[n] = Up -> IF path[n - 1] = <<>> THEN <<>> ELSE Front(path[n - 1])
               [] OTHER -> Append(path[n - 1], parts[n])
  IN  path[Len(parts)]
=============================================================================
