---------------------------- MODULE ProvObjects ----------------------------
(***************************************************************************)
(* The records of the provisioning service (RESTAPI_ProvObjects.h, .cpp).  *)
(* The Members give each class its members by kind, and under "raw" the    *)
(* ones that have no initializer; the Codecs give what to_json writes and  *)
(* from_json reads, in that order, by the member it is read into.          *)
(***************************************************************************)
EXTENDS ObjectTables

ProvObjectInfoMembers ==
  [ ObjectInfo |->
      [text |-> {"id", "name", "description"},
       number |-> {"created", "modified"}, numbers |-> {"tags"},
       objects |-> {"notes"}],
    SerialNumberList |->
      [texts |-> {"serialNumbers"}],
    ManagementPolicyEntry |->
      [text |-> {"policy"}, texts |-> {"users", "resources", "access"}],
    ManagementPolicy |->
      [embedded |-> {"info"}, text |-> {"entity", "venue"},
       texts |-> {"inUse"}, objects |-> {"entries"}],
    RRMAlgorithmDetails |->
      [text |-> {"name", "parameters"}],
    RRMDetails |->
      [text |-> {"vendor", "schedule"}, objects |-> {"algorithms"}],
    DeviceRules |->
      [text |-> {"rcOnly", "rrm", "firmwareUpgrade"}],
    Entity |->
      [embedded |-> {"info"}, text |-> {"parent", "managementPolicy"},
       texts |-> {"children", "venues", "contacts", "locations",
                  "deviceConfiguration", "devices", "sourceIP", "variables",
                  "managementPolicies", "managementRoles", "maps",
                  "configurations"}, object |-> {"deviceRules"}],
    DiGraphEntry |->
      [text |-> {"parent", "child"}],
    Venue |->
      [embedded |-> {"info"},
       text |-> {"entity", "parent", "managementPolicy", "design", "location"},
       texts |-> {"children", "devices", "deviceConfiguration", "contacts",
                  "sourceIP", "variables", "configurations", "maps",
                  "managementPolicies", "managementRoles", "boards"},
       object |-> {"deviceRules"}, objects |-> {"topology"}] ]

ProvVenueListMembers ==
  [ VenueList |->
      [objects |-> {"venues"}],
    UserInfoDigest |->
      [text |-> {"id", "loginId", "userType"}],
    ManagementRole |->
      [embedded |-> {"info"},
       text |-> {"managementPolicy", "entity", "venue"},
       texts |-> {"users", "inUse"}],
    Location |->
      [embedded |-> {"info"},
       text |-> {"buildingName", "city", "state", "postal", "country",
                 "geoCode", "entity", "managementPolicy", "timezone"},
       choice |-> {"type"},
       texts |-> {"addressLines", "phones", "mobiles", "inUse"},
       raw |-> {"type"}],
    OperatorLocation |->
      [embedded |-> {"info"},
       text |-> {"type", "buildingName", "city", "state", "postal", "country",
                 "geoCode", "operatorId", "subscriberDeviceId",
                 "managementPolicy"},
       texts |-> {"addressLines", "phones", "mobiles"}] ]

ProvSubLocationMembers ==
  [ SubLocation |->
      [text |-> {"type", "buildingName", "city", "state", "postal", "country",
                 "geoCode"}, texts |-> {"addressLines", "phones", "mobiles"}],
    OperatorLocationList |->
      [objects |-> {"locations"}],
    Contact |->
      [embedded |-> {"info"},
       text |-> {"title", "salutation", "firstname", "lastname", "initials",
                 "visual", "primaryEmail", "secondaryEmail", "accessPIN",
                 "entity", "managementPolicy"}, choice |-> {"type"},
       texts |-> {"mobiles", "phones", "inUse"}],
    OperatorContact |->
      [embedded |-> {"info"},
       text |-> {"type", "title", "salutation", "firstname", "lastname",
                 "initials", "visual", "primaryEmail", "secondaryEmail",
                 "accessPIN", "operatorId", "subscriberDeviceId",
                 "managementPolicy"}, texts |-> {"mobiles", "phones"}] ]

ProvSubContactMembers ==
  [ SubContact |->
      [text |-> {"type", "title", "salutation", "firstname", "lastname",
                 "initials", "visual", "primaryEmail", "secondaryEmail",
                 "accessPIN"}, texts |-> {"mobiles", "phones"}],
    OperatorContactList |->
      [objects |-> {"contacts"}],
    DeviceConfigurationElement |->
      [text |-> {"name", "description", "configuration"},
       number |-> {"weight"}, raw |-> {"weight"}],
    DeviceConfiguration |->
      [embedded |-> {"info"},
       text |-> {"managementPolicy", "venue", "entity", "subscriber"},
       flag |-> {"subscriberOnly"},
       texts |-> {"deviceTypes", "inUse", "variables"},
       object |-> {"deviceRules"}, objects |-> {"configuration"}],
    InventoryTag |->
      [embedded |-> {"info"},
       text |-> {"serialNumber", "venue", "entity", "subscriber", "deviceType",
                 "qrCode", "geoCode", "location", "contact",
                 "deviceConfiguration", "managementPolicy", "state",
                 "devClass", "locale", "realMacAddress", "platform"},
       flag |-> {"doNotAllowOverrides"}, number |-> {"imported", "connected"},
       object |-> {"deviceRules"}],
    InventoryTagList |->
      [objects |-> {"taglist"}],
    InventoryConfigApplyResult |->
      [text |-> {"appliedConfiguration"}, number |-> {"errorCode"},
       texts |-> {"errors", "warnings"}, raw |-> {"errorCode"}],
    Report |->
      [number |-> {"snapShot"}, counts |-> {"tenants"}],
    ExpandedUseEntry |->
      [text |-> {"uuid", "name", "description"}],
    ExpandedUseEntryList |->
      [text |-> {"type"}, objects |-> {"entries"}] ]

ProvExpandedUseEntryMapListMembers ==
  [ ExpandedUseEntryMapList |->
      [objects |-> {"entries"}],
    UuidList |->
      [texts |-> {"list"}],
    ObjectACL |->
      [number |-> {"access"}, object |-> {"users", "roles"}],
    ObjectACLList |->
      [objects |-> {"list"}],
    Map |->
      [embedded |-> {"info"},
       text |-> {"data", "entity", "creator", "visibility", "managementPolicy",
                 "venue"}, object |-> {"access"}],
    MapList |->
      [objects |-> {"list"}],
    SignupEntry |->
      [embedded |-> {"info"},
       text |-> {"email", "userId", "macAddress", "serialNumber", "status",
                 "deviceID", "registrationId", "operatorId"},
       number |-> {"submitted", "completed", "error", "statusCode"}],
    Variable |->
      [text |-> {"type", "prefix", "value"}, number |-> {"weight"}],
    VariableList |->
      [objects |-> {"variables"}],
    VariableBlock |->
      [embedded |-> {"info"},
       text |-> {"entity", "venue", "subscriber", "inventory",
                 "managementPolicy"}, texts |-> {"configurations"},
       objects |-> {"variables"}],
    VariableBlockList |->
      [objects |-> {"variableBlocks"}] ]

ProvOperatorMembers ==
  [ Operator |->
      [embedded |-> {"info"}, text |-> {"managementPolicy", "registrationId"},
       flag |-> {"defaultOperator"},
       texts |-> {"managementRoles", "sourceIP"}, object |-> {"deviceRules"},
       objects |-> {"variables"}],
    OperatorList |->
      [objects |-> {"operators"}],
    VenueDeviceList |->
      [text |-> {"id", "name", "description"}, texts |-> {"devices"}],
    ServiceClass |->
      [embedded |-> {"info"},
       text |-> {"operatorId", "managementPolicy", "currency", "period",
                 "billingCode"}, flag |-> {"defaultService"},
       number |-> {"cost"}, objects |-> {"variables"}],
    ServiceClassList |->
      [objects |-> {"serviceClasses"}],
    ConfigurationDetails |->
      [text |-> {"rrm", "firmwareUpgrade", "firmwareRCOnly"},
       objects |-> {"configuration"}],
    SubscriberDevice |->
      [embedded |-> {"info"},
       text |-> {"serialNumber", "deviceGroup", "deviceType", "operatorId",
                 "subscriberId", "managementPolicy", "serviceClass", "qrCode",
                 "geoCode", "state", "locale", "billingCode",
                 "realMacAddress"}, flag |-> {"suspended"},
       object |-> {"location", "contact", "deviceRules"},
       objects |-> {"configuration"}],
    SubscriberDeviceList |->
      [objects |-> {"subscriberDevices"}],
    ConfigurationOverride |->
      [text |-> {"source", "reason", "parameterName", "parameterType",
                 "parameterValue"}, number |-> {"modified"},
       raw |-> {"modified"}],
    ConfigurationOverrideList |->
      [text |-> {"serialNumber", "managementPolicy"},
       objects |-> {"overrides"}] ]

ProvGLBLRAccountInfoMembers ==
  [ GLBLRAccountInfo |->
      [embedded |-> {"info"},
       text |-> {"privateKey", "country", "province", "city", "organization",
                 "commonName", "CSR", "CSRPrivateKey", "CSRPublicKey",
                 "GlobalReachAcctId"}],
    GLBLRCertificateInfo |->
      [text |-> {"id", "name", "accountId", "csr", "certificate",
                 "certificateChain", "certificateId"},
       number |-> {"expiresAt", "created"}],
    GooglOrionAccountInfo |->
      [embedded |-> {"info"}, text |-> {"privateKey", "certificate"},
       texts |-> {"cacerts"}],
    RADIUSServer |->
      [text |-> {"Hostname", "IP", "Secret"}, number |-> {"Port"}],
    RADIUSEndPointRadiusType |->
      [number |-> {"AccountingInterval"},
       objects |-> {"Authentication", "Accounting", "CoA"}],
    RADIUSEndPointRadsecType |->
      [text |-> {"Hostname", "IP", "Secret", "OpenRoamingType",
                 "UseOpenRoamingAccount", "Certificate", "PrivateKey"},
       flag |-> {"AllowSelfSigned"}, number |-> {"Port", "Weight"},
       texts |-> {"CaCerts"}],
    RADIUSEndPoint |->
      [embedded |-> {"info"},
       text |-> {"Type", "PoolStrategy", "Index", "NasIdentifier"},
       flag |-> {"UseGWProxy"}, number |-> {"AccountingInterval"},
       texts |-> {"UsedBy"}, objects |-> {"RadiusServers", "RadsecServers"}],
    RADIUSEndpointUpdateStatus |->
      [number |-> {"lastUpdate", "lastConfigurationChange"}] ]

ProvObjectInfoCodecs ==
  [ ObjectInfo |->
      Both(<<"id", "name", "description", "created", "modified", "notes",
             "tags">>),
    ManagementPolicyEntry |->
      Both(<<"users", "resources", "access", "policy">>),
    ManagementPolicy |->
      Both(<<"info", "entries", "inUse", "entity">>),
    Entity |->
      Both(<<"info", "parent", "venues", "children", "contacts", "locations",
             "managementPolicy", "deviceConfiguration", "devices",
             "deviceRules", "sourceIP", "variables", "managementPolicies",
             "managementRoles", "maps", "configurations">>),
    DiGraphEntry |->
      Both(<<"parent", "child">>) ]

ProvVenueCodecs ==
  [ Venue |->
      Both(<<"info", "parent", "entity", "children", "devices", "topology",
             "design", "managementPolicy", "deviceConfiguration", "contacts",
             "location", "deviceRules", "sourceIP", "variables",
             "managementPolicies", "managementRoles", "maps", "configurations",
             "boards">>),
    VenueList |->
      [Both(<<"venues">>)
         EXCEPT !.strict = {"venues"}],
    Operator |->
      Both(<<"info", "managementPolicy", "managementRoles", "deviceRules",
             "variables", "defaultOperator", "sourceIP", "registrationId">>),
    OperatorList |->
      Both(<<"operators">>),
    ServiceClass |->
      Both(<<"info", "operatorId", "managementPolicy", "cost", "currency",
             "period", "billingCode", "variables", "defaultService">>) ]

ProvServiceClassListCodecs ==
  [ ServiceClassList |->
      Both(<<"serviceClasses">>),
    UserInfoDigest |->
      Both(<<"id", "loginId", "userType">>),
    ManagementRole |->
      Both(<<"info", "managementPolicy", "users", "entity", "venue">>),
    Location |->
      [Both(<<"info", "type", "buildingName", "addressLines", "city", "state",
              "postal", "country", "phones", "mobiles", "geoCode", "inUse",
              "entity", "managementPolicy", "timezone">>)
         EXCEPT !.reset = {"type"}],
    OperatorLocation |->
      Both(<<"info", "type", "buildingName", "addressLines", "city", "state",
             "postal", "country", "phones", "mobiles", "geoCode", "operatorId",
             "subscriberDeviceId", "managementPolicy">>) ]

ProvSubLocationCodecs ==
  [ SubLocation |->
      Both(<<"type", "buildingName", "addressLines", "city", "state", "postal",
             "country", "phones", "mobiles", "geoCode">>),
    OperatorLocationList |->
      Both(<<"locations">>),
    Contact |->
      [Both(<<"info", "type", "title", "salutation", "firstname", "lastname",
              "initials", "visual", "mobiles", "phones", "primaryEmail",
              "secondaryEmail", "accessPIN", "inUse", "entity",
              "managementPolicy">>)
         EXCEPT !.reset = {"type"}],
    OperatorContact |->
      Both(<<"info", "type", "title", "salutation", "firstname", "lastname",
             "initials", "visual", "mobiles", "phones", "primaryEmail",
             "secondaryEmail", "accessPIN", "operatorId", "subscriberDeviceId",
             "managementPolicy">>) ]

ProvSubContactCodecs ==
  [ SubContact |->
      Both(<<"type", "title", "salutation", "firstname", "lastname",
             "initials", "visual", "mobiles", "phones", "primaryEmail",
             "secondaryEmail", "accessPIN">>),
    OperatorContactList |->
      Both(<<"contacts">>),
    InventoryTag |->
      Both(<<"info", "serialNumber", "venue", "entity", "subscriber",
             "deviceType", "qrCode", "geoCode", "location", "contact",
             "deviceConfiguration", "deviceRules", "managementPolicy", "state",
             "devClass", "locale", "realMacAddress", "doNotAllowOverrides",
             "imported", "connected", "platform">>),
    InventoryConfigApplyResult |->
      Both(<<"appliedConfiguration", "warnings", "errors", "errorCode">>),
    InventoryTagList |->
      Both(<<"taglist">>) ]

ProvDeviceConfigurationElementCodecs ==
  [ DeviceConfigurationElement |->
      Both(<<"name", "description", "weight", "configuration">>),
    DeviceConfiguration |->
      Codec(<<"info", "managementPolicy", "deviceTypes", "subscriberOnly",
              "entity", "venue", "subscriber", "configuration", "inUse",
              "variables", "deviceRules">>,
            <<"info", "managementPolicy", "deviceTypes", "inUse", "variables",
              "subscriberOnly", "entity", "venue", "subscriber",
              "configuration", "deviceRules">>),
    Report |->
      WriteOnly(<<"snapShot", "tenants">>),
    ExpandedUseEntry |->
      Both(<<"uuid", "name", "description">>),
    ExpandedUseEntryList |->
      Both(<<"type", "entries">>),
    ExpandedUseEntryMapList |->
      Both(<<"entries">>),
    UuidList |->
      Both(<<"list">>),
    ObjectACL |->
      Both(<<"users", "roles", "access">>),
    ObjectACLList |->
      Both(<<"list">>) ]

ProvMapCodecs ==
  [ Map |->
      Both(<<"info", "data", "entity", "creator", "visibility", "access",
             "managementPolicy", "venue">>),
    SerialNumberList |->
      Both(<<"serialNumbers">>),
    MapList |->
      Both(<<"list">>),
    SignupEntry |->
      Both(<<"info", "email", "userId", "macAddress", "serialNumber",
             "submitted", "completed", "status", "error", "statusCode",
             "deviceID", "registrationId", "operatorId">>),
    Variable |->
      Both(<<"type", "weight", "prefix", "value">>),
    VariableList |->
      Both(<<"variables">>),
    VariableBlock |->
      Both(<<"info", "variables", "entity", "venue", "subscriber", "inventory",
             "configurations", "managementPolicy">>) ]

ProvVariableBlockListCodecs ==
  [ VariableBlockList |->
      Both(<<"variableBlocks">>),
    ConfigurationDetails |->
      Both(<<"configuration", "rrm", "firmwareRCOnly", "firmwareUpgrade">>),
    SubscriberDevice |->
      [Both(<<"info", "serialNumber", "deviceGroup", "deviceType", "operatorId",
              "subscriberId", "location", "contact", "managementPolicy",
              "serviceClass", "qrCode", "geoCode", "deviceRules", "state",
              "locale", "billingCode", "configuration", "suspended",
              "realMacAddress">>)
         EXCEPT !.cleared = {"deviceGroup"}],
    SubscriberDeviceList |->
      Both(<<"subscriberDevices">>),
    VenueDeviceList |->
      Both(<<"id", "name", "description", "devices">>) ]

ProvDeviceRulesCodecs ==
  [ DeviceRules |->
      Both(<<"rcOnly", "rrm", "firmwareUpgrade">>),
    RRMAlgorithmDetails |->
      Both(<<"name", "parameters">>),
    RRMDetails |->
      Both(<<"vendor", "schedule", "algorithms">>),
    ConfigurationOverride |->
      Both(<<"source", "reason", "parameterName", "parameterType",
             "parameterValue", "modified">>),
    ConfigurationOverrideList |->
      Both(<<"serialNumber", "managementPolicy", "overrides">>),
    GLBLRAccountInfo |->
      Both(<<"info", "privateKey", "country", "province", "city",
             "organization", "commonName", "CSR", "CSRPrivateKey",
             "CSRPublicKey", "GlobalReachAcctId">>) ]

ProvGLBLRCertificateInfoCodecs ==
  [ GLBLRCertificateInfo |->
      Both(<<"id", "name", "accountId", "csr", "certificate",
             "certificateChain", "certificateId", "expiresAt", "created">>),
    GooglOrionAccountInfo |->
      Both(<<"info", "privateKey", "certificate", "cacerts">>),
    RADIUSServer |->
      Both(<<"Hostname", "IP", "Port", "Secret">>),
    RADIUSEndPointRadiusType |->
      Both(<<"Authentication", "Accounting", "CoA", "AccountingInterval">>),
    RADIUSEndPointRadsecType |->
      Both(<<"Hostname", "IP", "Port", "Secret", "OpenRoamingType",
             "UseOpenRoamingAccount", "Weight", "Certificate", "PrivateKey",
             "CaCerts", "AllowSelfSigned">>) ]

\* Mutant: to_json of the first class forgets a member.
ProvRADIUSEndPointCodecsForgetting ==
  [ RADIUSEndPoint |->
      Codec(<<"info", "Type", "RadsecServers", "RadiusServers", "PoolStrategy",
              "Index", "UsedBy", "UseGWProxy", "NasIdentifier">>,
            <<"info", "Type", "RadsecServers", "RadiusServers", "PoolStrategy",
              "Index", "UsedBy", "UseGWProxy", "NasIdentifier",
              "AccountingInterval">>),
    RADIUSEndpointUpdateStatus |->
      Both(<<"lastUpdate", "lastConfigurationChange">>) ]

ProvRADIUSEndPointCodecs ==
  [ RADIUSEndPoint |->
      Both(<<"info", "Type", "RadsecServers", "RadiusServers", "PoolStrategy",
             "Index", "UsedBy", "UseGWProxy", "NasIdentifier",
             "AccountingInterval">>),
    RADIUSEndpointUpdateStatus |->
      Both(<<"lastUpdate", "lastConfigurationChange">>) ]

ProvMembers ==
  ProvObjectInfoMembers @@ ProvVenueListMembers
  @@ ProvSubLocationMembers
  @@ ProvSubContactMembers
  @@ ProvExpandedUseEntryMapListMembers
  @@ ProvOperatorMembers
  @@ ProvGLBLRAccountInfoMembers

ProvCodecs ==
  ProvObjectInfoCodecs @@ ProvVenueCodecs
  @@ ProvServiceClassListCodecs
  @@ ProvSubLocationCodecs
  @@ ProvSubContactCodecs
  @@ ProvDeviceConfigurationElementCodecs
  @@ ProvMapCodecs
  @@ ProvVariableBlockListCodecs
  @@ ProvDeviceRulesCodecs
  @@ ProvGLBLRCertificateInfoCodecs
  @@ ProvRADIUSEndPointCodecs
=============================================================================
