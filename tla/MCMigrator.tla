---------------------------- MODULE MCMigrator ----------------------------
(* Rows for Migrator: a document of each age, of which the newer uses an    *)
(* href more, an endorsement series, a stateful environment and keys of a   *)
(* measurement's value.                                                     *)
EXTENDS Migrator

CONSTANTS p1, p2

MCOldRows ==
  { Row("locators", 1, 1, None, "h1"),
    Row("value_triples", 1, 1, None, None),
    Row("measurements", 1, 1, "value_triple", None),
    Row("cryptokeys", 1, 1, "measurement", None),
    Row("cryptokeys", 2, 1, "key_triple", None) }

MCNewRows ==
  { Row("locators", 2, 2, None, None),
    Row("hrefs", 8, 2, None, "h2"), Row("hrefs", 9, 2, None, "h3"),
    Row("value_triples", 2, 2, "module_tag", None),
    Row("value_triples", 3, 1, "conditional_endorsement_series_record", None),
    Row("stateful_environments", 1, 1, None, None),
    Row("measurements", 2, 1, "stateful_environment", None),
    Row("cryptokeys", 3, 2, "measurement_auth", None),
    Row("cryptokeys", 4, 2, "measurement", None) }

\* Two processes of which one may give its lock up, or take none.
OneUnlocked == [p \in Procs |-> IF p = p1 THEN All ELSE {"Store.Migrate", "rollback"}]
OnlyMigrate == [p \in Procs |-> {"migrate"}]
=============================================================================
