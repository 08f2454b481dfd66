--------------------------- MODULE MCFamilyStrategy ---------------------------
(* Small instances of FamilyStrategy for TLC.                               *)
EXTENDS ResearchParity

Deploy(family, parameters, mode, interval, quantity, horizon) ==
  [family |-> family, parameters |-> parameters, mode |-> mode,
   expected_interval |-> interval, quantity |-> quantity, horizon |-> horizon]

Momentum == [lookback_bars |-> 2, entry_threshold |-> 5]
Regime == [momentum_lookback_bars |-> 2, trend_window_bars |-> 3, entry_threshold |-> 0]
LongRegime == [momentum_lookback_bars |-> 3, trend_window_bars |-> 2, entry_threshold |-> 0]
Dual == [fast_window_bars |-> 2, slow_window_bars |-> 3]
Skip == [formation_lookback_bars |-> 3, skip_recent_bars |-> 1]
Ibs == [entry_ibs_threshold |-> 20]
Reversion == [window_bars |-> 2, discount_threshold |-> 10]
Trend == [window_bars |-> 2]

RiskPolicy ==
  [allow_live_execution |-> FALSE, position_intents |-> <<"FLAT", "LONG">>,
   order_mapping |-> "MARKET", reduce_only_exit |-> TRUE, kill_switch |-> TRUE,
   flatten_on_exit |-> TRUE, stale_data_after |-> 1, maximum_loss |-> 1,
   maximum_quantity |-> 2, maximum_notional |-> 4, gross_exposure_limit |-> 5,
   net_exposure_limit |-> 4, per_symbol_exposure_limit |-> 4]

AllFamilies ==
  {Deploy("momentum", Momentum, "PAPER", 1, 2, 6),
   Deploy("momentum", Momentum, "PAPER", None, None, 4),
   Deploy("regime", Regime, "PAPER", None, 2, 5),
   Deploy("regime", LongRegime, "SHADOW", None, 2, 5),
   Deploy("dual", Dual, "PAPER", None, 2, 4),
   Deploy("skip", Skip, "SHADOW", 1, None, 5),
   Deploy("reversion", Reversion, "PAPER", 1, 2, 4),
   Deploy("trend", Trend, "SHADOW", None, 2, 4),
   Deploy("ibs", Ibs, "SHADOW", None, 2, 7)}

OneMomentum == {Deploy("momentum", Momentum, "PAPER", 1, 2, 4)}
===============================================================================
