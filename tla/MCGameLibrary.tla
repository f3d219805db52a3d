--------------------------- MODULE MCGameLibrary ---------------------------
EXTENDS GameLibrary, TLC

CONSTANTS s1, abin, acue, bbin, bcue, cbin, x, y, sheet, disc, cart, other

(* Three folders that may each hold a disc image of one name, in two of    *)
(* them next to a cue sheet that names it.                                 *)
MCPathOrder == <<abin, acue, bbin, bcue, cbin>>
MCFolderOf == abin :> "A" @@ acue :> "A" @@ bbin :> "B" @@ bcue :> "B" @@ cbin :> "C"
MCExtOf == [p \in ToSet(MCPathOrder) |-> IF p \in {acue, bcue} THEN "cue" ELSE "bin"]
MCNameOf == [p \in ToSet(MCPathOrder) |-> IF p \in {acue, bcue} THEN "g.cue" ELSE "g.bin"]
MCPathOf == [at \in {"A", "B", "C"} \X {"g.bin"} |->
               CASE at[1] = "A" -> abin [] at[1] = "B" -> bbin [] at[1] = "C" -> cbin]
MCKindOf == [c \in Contents |-> IF c = sheet THEN "cue" ELSE "bin"]
MCNamedBy == [c \in Contents |-> IF c = sheet THEN {"g.bin"} ELSE {}]
MCCoreOrder == <<cart, disc>>
MCClaims == cart :> {"bin"} @@ disc :> {"bin", "cue"}
MCPlays == [c \in ToSet(MCCoreOrder) |-> IF c = disc THEN other ELSE None]
MCDiscOf == [c \in Contents |-> IF c = y THEN other ELSE None]
=============================================================================
