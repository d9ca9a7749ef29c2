---------------------------- MODULE SecurityObjects ----------------------------
(***************************************************************************)
(* The records of the security service (RESTAPI_SecurityObjects.h, .cpp).  *)
(* The Members give each class its members by kind, and under "raw" the    *)
(* ones that have no initializer; the Codecs give what to_json writes and  *)
(* from_json reads, in that order, by the member it is read into.          *)
(***************************************************************************)
EXTENDS ObjectTables

SecAclTemplateMembers ==
  [ AclTemplate |->
      [flag |-> {"Read_", "ReadWrite_", "ReadWriteCreate_", "Delete_",
                 "PortalLogin_"}],
    WebToken |->
      [text |-> {"access_token_", "refresh_token_", "id_token_", "token_type_",
                 "username_"}, flag |-> {"userMustChangePassword"},
       number |-> {"errorCode", "expires_in_", "idle_timeout_", "created_",
                   "lastRefresh_"}, object |-> {"acl_template_"}],
    NoteInfo |->
      [text |-> {"createdBy", "note"}, number |-> {"created"}],
    MobilePhoneNumber |->
      [text |-> {"number"}, flag |-> {"verified", "primary"}],
    MfaAuthInfo |->
      [text |-> {"method"}, flag |-> {"enabled"}],
    UserLoginLoginExtensions |->
      [text |-> {"authenticatorSecret"}, object |-> {"mfa"},
       objects |-> {"mobiles"}],
    MFAChallengeRequest |->
      [text |-> {"uuid", "question", "method"}, number |-> {"created"}],
    MFAChallengeResponse |->
      [text |-> {"uuid", "answer"}],
    UserInfo |->
      [text |-> {"id", "name", "description", "avatar", "email",
                 "validationEmail", "validationURI", "currentLoginURI",
                 "locale", "location", "owner", "securityPolicy",
                 "currentPassword", "oauthType", "oauthUserInfo", "signingUp"},
       flag |-> {"validated", "changePassword", "waitingForEmailCheck",
                 "suspended", "blackListed"},
       number |-> {"validationDate", "creationDate", "lastLogin",
                   "lastPasswordChange", "lastEmailCheck",
                   "securityPolicyChange", "modified"},
       choice |-> {"userRole"}, texts |-> {"lastPasswords"},
       object |-> {"userTypeProprietaryInfo"}, objects |-> {"notes"},
       raw |-> {"userRole", "modified"}] ]

SecUserInfoListMembers ==
  [ UserInfoList |->
      [objects |-> {"users"}],
    InternalServiceInfo |->
      [text |-> {"privateURI", "publicURI", "token"}],
    InternalSystemServices |->
      [text |-> {"key", "version"}, objects |-> {"services"}],
    SystemEndpoint |->
      [text |-> {"type", "vendor", "uri", "authenticationType"},
       number |-> {"id"}],
    SystemEndpointList |->
      [objects |-> {"endpoints"}],
    UserInfoAndPolicy |->
      [object |-> {"webtoken", "userinfo"}],
    ProfileAction |->
      [text |-> {"resource"}, choice |-> {"access"}, raw |-> {"access"}],
    SecurityProfile |->
      [text |-> {"name", "description", "role"}, number |-> {"id"},
       objects |-> {"policy", "notes"}],
    SecurityProfileList |->
      [objects |-> {"profiles"}],
    ActionLink |->
      [text |-> {"id", "userId", "actionTemplate", "locale", "message"},
       flag |-> {"userAction"},
       number |-> {"action", "sent", "created", "expires", "completed",
                   "canceled"}, pairs |-> {"variables"}, raw |-> {"action"}],
    Preferences |->
      [text |-> {"id"}, number |-> {"modified"}, pairs |-> {"data"},
       raw |-> {"modified"}],
    SubMfaConfig |->
      [text |-> {"id", "type", "sms", "email"}] ]

SecTokenMembers ==
  [ Token |->
      [text |-> {"token", "refreshToken", "tokenType", "userName"},
       number |-> {"created", "expires", "idleTimeout", "revocationDate",
                   "lastRefresh"}],
    Avatar |->
      [text |-> {"id", "type", "name"}, number |-> {"created"},
       blob |-> {"avatar"}],
    LoginRecordInfo |->
      [text |-> {"sessionId", "userId", "email"},
       number |-> {"login", "logout"}],
    ApiKeyAccessRight |->
      [text |-> {"service", "access"}],
    ApiKeyAccessRightList |->
      [objects |-> {"acls"}],
    ApiKeyEntry |->
      [text |-> {"id", "userUuid", "name", "description", "apiKey", "salt"},
       number |-> {"created", "expiresOn", "lastUse"}, object |-> {"rights"},
       raw |-> {"created"}],
    ApiKeyEntryList |->
      [objects |-> {"apiKeys"}],
    ExtraSystemConfiguration |->
      [text |-> {"parameterName", "parameterValue"}] ]

SecAclTemplateCodecs ==
  [ AclTemplate |->
      Both(<<"Read_", "ReadWrite_", "ReadWriteCreate_", "Delete_",
             "PortalLogin_">>),
    WebToken |->
      Codec(<<"access_token_", "refresh_token_", "token_type_", "expires_in_",
              "idle_timeout_", "created_", "username_",
              "userMustChangePassword", "errorCode", "acl_template_",
              "lastRefresh_">>,
            <<"acl_template_", "access_token_", "refresh_token_",
              "token_type_", "expires_in_", "idle_timeout_", "created_",
              "username_", "userMustChangePassword", "lastRefresh_">>) ]

SecMobilePhoneNumberCodecs ==
  [ MobilePhoneNumber |->
      Both(<<"number", "verified", "primary">>),
    MfaAuthInfo |->
      Both(<<"enabled", "method">>),
    UserLoginLoginExtensions |->
      Both(<<"mobiles", "mfa", "authenticatorSecret">>),
    MFAChallengeRequest |->
      Both(<<"uuid", "question", "created", "method">>),
    MFAChallengeResponse |->
      Both(<<"uuid", "answer">>) ]

SecUserInfoCodecs ==
  [ UserInfo |->
      Codec(<<"id", "name", "description", "avatar", "email", "validated",
              "validationEmail", "validationDate", "creationDate",
              "validationURI", "changePassword", "lastLogin",
              "currentLoginURI", "lastPasswordChange", "lastEmailCheck",
              "waitingForEmailCheck", "locale", "notes", "location", "owner",
              "suspended", "blackListed", "userRole",
              "userTypeProprietaryInfo", "securityPolicy",
              "securityPolicyChange", "currentPassword", "lastPasswords",
              "oauthType", "oauthUserInfo", "modified", "signingUp">>,
            <<"id", "name", "description", "avatar", "email",
              "validationEmail", "validationURI", "currentLoginURI", "locale",
              "notes", "location", "owner", "userRole", "securityPolicy",
              "userTypeProprietaryInfo", "validationDate", "creationDate",
              "lastLogin", "lastPasswordChange", "lastEmailCheck",
              "securityPolicyChange", "validated", "changePassword",
              "waitingForEmailCheck", "suspended", "blackListed",
              "currentPassword", "lastPasswords", "oauthType", "oauthUserInfo",
              "modified", "signingUp">>),
    UserInfoList |->
      Both(<<"users">>),
    InternalServiceInfo |->
      Both(<<"privateURI", "publicURI", "token">>),
    InternalSystemServices |->
      Both(<<"key", "version", "services">>),
    SystemEndpoint |->
      Both(<<"type", "id", "vendor", "uri", "authenticationType">>) ]

SecSystemEndpointListCodecs ==
  [ SystemEndpointList |->
      Both(<<"endpoints">>),
    UserInfoAndPolicy |->
      Both(<<"webtoken", "userinfo">>),
    NoteInfo |->
      Both(<<"created", "createdBy", "note">>),
    ProfileAction |->
      Both(<<"resource", "access">>),
    SecurityProfile |->
      Both(<<"id", "name", "description", "policy", "role", "notes">>),
    SecurityProfileList |->
      Both(<<"profiles">>) ]

SecActionLinkCodecs ==
  [ ActionLink |->
      Both(<<"id", "action", "userId", "actionTemplate", "variables", "locale",
             "message", "sent", "created", "expires", "completed", "canceled",
             "userAction">>),
    Preferences |->
      Both(<<"id", "modified", "data">>),
    SubMfaConfig |->
      Both(<<"id", "type", "sms", "email">>),
    Token |->
      Both(<<"token", "refreshToken", "tokenType", "userName", "created",
             "expires", "idleTimeout", "revocationDate", "lastRefresh">>),
    LoginRecordInfo |->
      WriteOnly(<<"sessionId", "userId", "email", "login", "logout">>),
    ApiKeyAccessRight |->
      Both(<<"service", "access">>),
    ApiKeyAccessRightList |->
      Both(<<"acls">>) ]

\* Mutant: from_json of the first class forgets a member.
SecApiKeyEntryCodecsForgetting ==
  [ ApiKeyEntry |->
      Codec(<<"id", "userUuid", "name", "apiKey", "salt", "description",
              "expiresOn", "rights", "lastUse">>,
            <<"id", "userUuid", "name", "apiKey", "salt", "description",
              "rights", "lastUse">>),
    ApiKeyEntryList |->
      Both(<<"apiKeys">>),
    ExtraSystemConfiguration |->
      Both(<<"parameterName", "parameterValue">>) ]

SecApiKeyEntryCodecs ==
  [ ApiKeyEntry |->
      Both(<<"id", "userUuid", "name", "apiKey", "salt", "description",
             "expiresOn", "rights", "lastUse">>),
    ApiKeyEntryList |->
      Both(<<"apiKeys">>),
    ExtraSystemConfiguration |->
      Both(<<"parameterName", "parameterValue">>) ]

SecMembers ==
  SecAclTemplateMembers @@ SecUserInfoListMembers
  @@ SecTokenMembers

SecCodecs ==
  SecAclTemplateCodecs @@ SecMobilePhoneNumberCodecs
  @@ SecUserInfoCodecs
  @@ SecSystemEndpointListCodecs
  @@ SecActionLinkCodecs
  @@ SecApiKeyEntryCodecs
=============================================================================
