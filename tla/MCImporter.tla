----------------------------- MODULE MCImporter -----------------------------
(* A small Authentik: a group of two parents, a user in both of these, an  *)
(* application on each outpost, and two groups that may use one of them,   *)
(* or one each.                                                            *)
EXTENDS Importer

MCKindOf == [g1 |-> "group", g2 |-> "group", g3 |-> "group", g4 |-> "group",
             u1 |-> "user", f1 |-> "flow", m1 |-> "mapping", b1 |-> "brand", e1 |-> "outpost", o1 |-> "outpost",
             a1 |-> "application", a2 |-> "application", p1 |-> "binding", p2 |-> "binding"]
MCPks == DOMAIN MCKindOf

MCNames == {"core", "dev", "Ops", "ops"}
MCSlugOf == [n \in MCNames |-> IF n = "Ops" THEN "ops" ELSE n]

At(name, refs, mark) == [live |-> TRUE, name |-> name, refs |-> refs, mark |-> mark]
MCBeginnings ==
    {[g1 |-> At("Ops", {}, "plain"), g2 |-> At("dev", {"g1"}, "plain"),
      g3 |-> At("core", {"g1", "g2"}, "plain"),
      g4 |-> [At("core", {}, "plain") EXCEPT !.live = FALSE],
      u1 |-> At("ops", {"g1", "g2"}, "plain"), f1 |-> At("dev", {}, "plain"),
      m1 |-> At("dev", {}, mapping), b1 |-> At("dev", {"f1"}, "plain"),
      e1 |-> At("core", {"a2"}, "plain"), o1 |-> At("ops", {"a1"}, outpost),
      a1 |-> At("ops", {"f1"}, "proxy"), a2 |-> At("dev", {"f1", "m1"}, provider),
      p1 |-> At(None, {"a1", "g1"}, "plain"), p2 |-> At(None, {bound, "g2"}, "plain")] :
        mapping \in {"plain", "managed"}, outpost \in {"plain", "rac"},
        provider \in {"oauth2", "proxy", "saml"}, bound \in {"a1", "a2"}}
=============================================================================
