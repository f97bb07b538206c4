------------------------------ MODULE MCStartup ------------------------------
(* A memory of three pages, contexts of two, and files of every kind.        *)
EXTENDS Startup

MCSystems == {[version |-> 1, active_model |-> "m", boot_context |-> c] : c \in {0, 1}}
MCModels == {[name |-> "m", contexts |-> n] : n \in {0, 2}}

Area(n, s, p, sh, b) == [name |-> n, start |-> s, pages |-> p, shared |-> sh, bit7 |-> b]

MCLayouts ==
  {[model |-> "m", layout |-> "base", region |-> r] :
     r \in {Area("user", 0, 1, FALSE, FALSE), Area("sys", 1, 1, TRUE, TRUE),
            Area("all", 0, 2, TRUE, FALSE), Area("own", 0, 2, FALSE, FALSE),
            Area("far", 1, 2, FALSE, FALSE)}}
  \union
  {[model |-> "m", layout |-> "other", region |-> r] :
     r \in {Area("user", 1, 1, FALSE, FALSE), Area("sys", 0, 1, TRUE, TRUE),
            Area("all", 0, 2, TRUE, FALSE)}}

MCBindings == {[model |-> "m", context |-> c, layout |-> l] : c \in {0, 1}, l \in {"base", "other"}}

MCHeadings == {[version |-> 1, defaultName |-> d] : d \in {"", "D2"}}
MCCartridges == {[name |-> "a", file |-> "a.rom"], [name |-> "b", file |-> "b.rom"],
                 [name |-> "b", file |-> "top.rom"], [name |-> "b", file |-> "gone.rom"],
                 [name |-> "b", file |-> "bad.rom"]}
MCConfigs == {[name |-> "D1", memory |-> "m"], [name |-> "D2", memory |-> "n"]}
MCLoads == {[config |-> "D1", context |-> 0, list |-> <<"a", "b">>],
            [config |-> "D1", context |-> 1, list |-> <<"b">>],
            [config |-> "D2", context |-> 0, list |-> <<"a">>],
            [config |-> "D2", context |-> 3, list |-> <<"b">>]}

\* In part as the rest of memory and the six bytes at its end: a.rom is all of
\* it, top.rom two vectors only; neither header has them all.
File(payload, type, sound) == [payload |-> payload, type |-> type, sound |-> sound]
MCRoms == [f \in {"a.rom", "b.rom", "top.rom", "bad.rom", "boot.rom"} |->
             CASE f = "a.rom" -> File(Slots \X Places, {"RESET"}, TRUE)
               [] f = "b.rom" -> File({0} \X Places, {"NMI", "IRQ"}, TRUE)
               [] f = "top.rom" -> File({1} \X {"RESET", "IRQ"}, {"NMI"}, TRUE)
               [] f = "bad.rom" -> File({1} \X Places, {}, FALSE)
               [] OTHER -> File({1} \X Places, Vectors, TRUE)]
=============================================================================
