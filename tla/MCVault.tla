------------------------------ MODULE MCVault ------------------------------
(***************************************************************************)
(* Two machines about saved accounts that share no state: the files of one *)
(* product (AccountFileStore), and the logins of Codex with up to three    *)
(* tokens of one account (CodexAuth; MCCodexAuthCrash.cfg has two, and the *)
(* user's operations side by side).  In a behaviour one of them moves and  *)
(* the other rests in an initial state.                                    *)
(***************************************************************************)
EXTENDS MCAccountFileStore

CONSTANTS p1, p2, SwitchLock, OAuthLock, Unsupported

VARIABLES side,                                            \* the machine that moves
          vault, reauth, cur, auth, proj, issued, accepted, app, calls   \* of CodexAuth

Codex == INSTANCE CodexAuth
  WITH live <- accepted, op <- calls,
       Procs <- {p1, p2}, Users <- {p1}, MaxToken <- 3,
       Kinds <- {"switch", "signin", "token", "daemon", "reapply"},
       Outside <- {"rotate", "signin"}

codexVars == <<vault, reauth, cur, auth, proj, issued, accepted, app, calls>>
allVars == <<side, vars, codexVars>>

VaultInit ==
  /\ side \in {"files", "logins"}
  /\ Init /\ Codex!Init
  /\ side = "files" => cur = None /\ ~ app /\ \A a \in Accts : vault[a] = None
  /\ side = "logins" => world = Damage

\* The tokens of Codex are used up at last.
VaultNext ==
  /\ UNCHANGED side
  /\ \/ side = "files" /\ Next /\ UNCHANGED codexVars
     \/ side = "logins" /\ Codex!Next /\ UNCHANGED vars
     \/ side = "logins" /\ UNCHANGED allVars

VaultSideSpec == VaultInit /\ [][VaultNext]_allVars

\* As CodexAuth states them: the mirror takes no working login back to an older token,
\* and no spent token replaces a working one in the vault.
LoginSurvivesMirror == Codex!LoginSurvivesMirror
WorkingTokenKept == Codex!WorkingTokenKept
=============================================================================
