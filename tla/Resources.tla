----------------------------- MODULE Resources -----------------------------
(***************************************************************************)
(* What the requests of one server process share and wait for: database    *)
(* connections and row locks (CreditStatements), and the SFTP connection   *)
(* (MediaSftp).  No handler uses both, and the two parts share no          *)
(* variable; a behaviour is about requests of one sort.                    *)
(***************************************************************************)
EXTENDS CreditStatements, MediaSftp

resourceVars == <<moneyVars, sftpVars>>

ResourcesInit ==
  \/ StatementsInit /\ NoFilesInit
  \/ NoMoneyInit /\ SftpInit

ResourcesNext ==
  \/ MoneyNext /\ UNCHANGED sftpVars
  \/ SftpNext /\ UNCHANGED moneyVars

ResourcesSpec ==
  /\ ResourcesInit
  /\ [][ResourcesNext]_resourceVars
  /\ MoneyFairness
  /\ SftpFairness
=============================================================================
