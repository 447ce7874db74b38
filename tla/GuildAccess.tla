----------------------------- MODULE GuildAccess -----------------------------
(***************************************************************************)
(* The permission algorithm (discord/permissions.ts) and the decisions     *)
(* built on it: require() of the REST authorizer (discord/authorizer.ts)   *)
(* and authorize() of the discord.js adapter (discordjs.ts).  A permission *)
(* word is the set of its bits; (1n << 63n) - 1n is all of them.           *)
(***************************************************************************)
EXTENDS Integers, FiniteSets

CONSTANTS
    Permission,     \* the permissions told apart, ADMINISTRATOR among them
    ADMINISTRATOR,
    Role,           \* the roles of the guild, @everyone among them
    Everyone        \* the role with the guild's own id

ASSUME GuildAssumption == ADMINISTRATOR \in Permission /\ Everyone \in Role

VARIABLES
    asked,     \* the guild, its user and its bot, and what is required of them
    verdict    \* what require() and authorize() answer

guildVars == <<asked, verdict>>

Word == SUBSET Permission
\* The guild's roles with their words; who of user and bot owns the guild; their
\* roles; whether the bot is in; the permissions required of each; and, for
\* authorize(), whether the owner of the guild is let through.
Question == [words : [Role -> Word], owner : {"user", "bot", "other"},
             userRoles : SUBSET Role, botRoles : SUBSET Role, botPresent : BOOLEAN,
             ofUser : Word, ofBot : Word, allowGuildOwner : BOOLEAN]
NoQuestion == [owner |-> "none"]

GuildInit == asked = NoQuestion /\ verdict = [require |-> "none", authorize |-> "none"]

------------------------------------------------------------------------------
\* Slip: the role every member has without being given it is left out.
WithoutEveryone(words, isOwner, roles) ==
    LET bits == UNION {words[r] : r \in roles} IN
    IF isOwner \/ ADMINISTRATOR \in bits THEN Permission ELSE bits

\* computeBaseGuildPermissions()
ComputeBase(words, isOwner, roles) ==
    LET bits == UNION {words[r] : r \in roles \cup {Everyone}} IN
    IF isOwner \/ ADMINISTRATOR \in bits THEN Permission ELSE bits

\* missingPermissions(), with administratorOverrides as every caller leaves it
MissingPermissions(bits, required, isOwner) ==
    IF isOwner \/ ADMINISTRATOR \in bits THEN {} ELSE required \ bits

\* hasPermissions()
HasPermissions(bits, required, isOwner) ==
    isOwner \/ ADMINISTRATOR \in bits \/ required \subseteq bits

\* require(): the user's word comes from Discord, which computes it as
\* computeBaseGuildPermissions() does; the bot's is computed from its roles.
Require(q) ==
    LET user == ComputeBase(q.words, q.owner = "user", q.userRoles)
        bot == ComputeBase(q.words, q.owner = "bot", q.botRoles) IN
    IF MissingPermissions(user, q.ofUser, q.owner = "user") # {} THEN "USER_PERMISSION_MISSING"
    ELSE IF ~q.botPresent THEN "BOT_NOT_IN_GUILD"
    ELSE IF MissingPermissions(bot, q.ofBot, FALSE) # {} THEN "BOT_PERMISSION_MISSING"
    ELSE "allowed"

\* authorize(): discord.js computes both words; unless the caller forbids it, the
\* guild's owner is let through before the bot's permissions are looked at.
Authorize(q) ==
    LET user == ComputeBase(q.words, q.owner = "user", q.userRoles)
        bot == ComputeBase(q.words, q.owner = "bot", q.botRoles) IN
    IF ~q.botPresent THEN "BOT_NOT_IN_GUILD"
    ELSE IF q.allowGuildOwner /\ q.owner = "user" THEN "allowed"
    ELSE IF ~HasPermissions(user, q.ofUser, FALSE) THEN "USER_PERMISSION_MISSING"
    ELSE IF ~HasPermissions(bot, q.ofBot, FALSE) THEN "BOT_PERMISSION_MISSING"
    ELSE "allowed"

GuildNext ==
    /\ asked = NoQuestion
    /\ \E q \in Question :
        /\ asked' = q
        /\ verdict' = [require |-> Require(q), authorize |-> Authorize(q)]

GuildSpec == GuildInit /\ [][GuildNext]_guildVars

------------------------------------------------------------------------------

\* Discord's rule, word by word and without computing a word: a member may do
\* what one of its roles or @everyone grants, everything if one of them makes it
\* an administrator, and everything if it owns the guild.
May(q, who, roles, p) ==
    \/ q.owner = who
    \/ \E r \in roles \cup {Everyone} : {p, ADMINISTRATOR} \cap q.words[r] # {}

\* Both adapters decide by Discord's rule: an action is let through exactly when
\* user and bot may do all that is required of them; only authorize() lets the
\* owner of the guild act through a bot that may not, unless it is told not to.
DecisionsFollowRoles ==
    asked # NoQuestion =>
        LET user == \A p \in asked.ofUser : May(asked, "user", asked.userRoles, p)
            bot == asked.botPresent /\ \A p \in asked.ofBot : May(asked, "bot", asked.botRoles, p) IN
        /\ verdict.require = "allowed" <=> user /\ bot
        /\ verdict.authorize = "allowed" <=>
              (user /\ bot) \/ (asked.allowGuildOwner /\ asked.owner = "user" /\ asked.botPresent)
==============================================================================
