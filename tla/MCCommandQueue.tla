-------------------------- MODULE MCCommandQueue ----------------------------
(***************************************************************************)
(* A report made on the phone and the photo that goes with it, or the      *)
(* photo alone, in a workspace the person may leave for another.           *)
(***************************************************************************)
EXTENDS CommandQueue

MCCommands == {"report", "photo"}
MCCreatedAt == [c \in MCCommands |-> IF c = "report" THEN 1 ELSE 2]
MCNeeds == [c \in MCCommands |-> IF c = "photo" THEN {"report"} ELSE {}]
MCHomeOf == [c \in MCCommands |-> "plant"]

PhotoCreatedAt == [c \in {"photo"} |-> 1]
PhotoNeeds == [c \in {"photo"} |-> {}]
PhotoHomeOf == [c \in {"photo"} |-> "plant"]
=============================================================================
