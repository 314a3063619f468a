------------------------------ MODULE MCAgents ------------------------------
EXTENDS Agents, TLC

\* Two members' conversations with the Clerk, one with the Steward and Sentry's
\* scheduled check; what each model may ask for differs, to keep the answers few.
CONSTANTS alice, bob, scheduler, c1, c2, s, w, p1

MCAgentOf == [c \in Convs |-> CASE c = s -> "steward" [] c = w -> "sentry" [] OTHER -> "clerk"]
MCUserOf == [c \in Convs |-> CASE c = c2 -> bob [] c = w -> scheduler [] OTHER -> alice]
MCOffers == [c \in Convs |->
    CASE c = c1 -> {"glass_box_log", "dr_log_tension", "dr_update_tension"}
      [] c = c2 -> {"dr_update_tension", "dr_set_review_date", "glass_box_log"}
      [] c = s  -> {"glass_box_log", "read", "steward_post_financial_digest"}
      [] c = w  -> {"glass_box_log", "sentry_post_ops_alert"}]

\* A Clerk conversation about labour and posts.
OffersLabour == [c \in Convs |-> {"glass_box_log", "read", "log_labour", "mattermost_post_message"}]
=============================================================================
